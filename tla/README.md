# Formal model of the invoice workflow

TLA+ modules, TLC configurations and TLAPS proofs for the accounts-payable
backend in `src/backend`: how an invoice gets from extraction through
validation and approval to posting, and what may go wrong when requests, the
SLA scheduler and crashes interleave. Paths below are relative to
`src/backend/src` unless they start with `src/`.

## The system

The backend is a NestJS application over one Postgres database. There is no
queue: every HTTP request and every scheduled job runs its handler inline, and
**only `publishDefinition` opens a transaction**. Everywhere else each
`await this.db...` is a statement of its own, so between any two statements of
one handler any statement of another may run. That is the main source of
difficulty, and the reason why the models below take one *statement*, not one
request, as their step.

| Component | State it keeps | Operations | Talks to |
|---|---|---|---|
| Workflow graph (`workflow/workflow-graph.*`) | a graph per definition, immutable once published | validate, choose an edge, evaluate a condition, ALL/ANY outcome | read by the engine |
| Approval engine (`workflow/workflow-engine.service.ts`) | `approval_instances`, `approval_steps`, `workflow_definitions`, audit events | start, advance, decide, delegate, recall, restart, escalate; create, publish and retire definitions; inbox, history, progress | writes the invoice's status; called by the lifecycle, the controllers and the scheduler |
| SLA scheduler (`workflow/sla-scheduler.service.ts`) | `sweepInFlight` | sweep all tenants every ten minutes | the engine |
| Invoice lifecycle (`invoices/invoices.service.ts`) | `invoices`, line items, `invoice_exceptions` | ingest, validate, re-validate, correct a field | extraction client, vendors, PO matching, engine |
| Extraction client and service (`invoices/extraction-client.service.ts`, `src/extraction-service`) | none | ask the model, cross-check the figures, decide what a person must see | called by ingest |
| Inbound mailbox (`inbound/`) | `inbound_messages`, flags in the mailbox | poll (scheduled, on request), handle a message | ingest |
| Vendors (`vendors/`) | `vendors` | normalise a name, resolve it to a row | called by ingest and corrections |
| Purchase orders (`purchase-orders/`) | orders, received quantities | upsert, record a receipt, re-match waiting invoices | the lifecycle |
| PO matching (`matching/`) | none | two- and three-way match | called by validation |
| ERP connections (`erp/erp-connections.service.ts`) | connections with encrypted secrets, outcome of the last test | create, update, test, sync orders | the client, purchase orders |
| S/4HANA client (`erp/s4hana/`) | OAuth token, CSRF session | read, post with one retry; map orders, material documents, supplier invoices | the ERP |
| Approval authority (`authority/`) | authorities, the tenant's enforcement flag | authorise an approval | called on APPROVE |
| Administration (`admin/`) | users, authorities | invite, edit, deactivate; grant, revoke, enforce | |
| Authentication (`auth/`) | `ssoSubject` of a user | verify a token, link an identity, admit by role | in front of every handler |
| Cost assignment (`coding/`) | account and cost centre of each line | code a line, import master data, suggest | guarded by the invoice's status |
| Posting (`posting/`) | ERP document number | post an approved invoice (simulated) | reads coding, writes the invoice |
| Frontend (`src/frontend`) | session token, who is signed in, what each page has loaded, drafts | sign in and out, watch the inbox, load and reload a page, correct, code | the API |
| Dashboard, signed URLs, file storage, database schema | see `PROJECT.json` | | |

What is hard, component by component:

* **Engine.** Two approvers answer the last two steps of a node together; a
  decision races a recall; a delegation is two statements; the sweep reads a
  list and then works through it while people answer; `UPDATE ... WHERE id`
  overwrites whatever happened since the read; graphs may have cycles; the
  process may die between creating steps and moving `currentNodeId`.
  Correct means: no approval is fabricated, nobody is forgotten (a live instance
  always has somebody to ask), one live instance per invoice, history is never
  rewritten, every request ends.
* **Lifecycle.** Two state machines (invoice, instance) must agree after any
  sequence of corrections, re-validations, order syncs and recalls; the
  re-validation may be skipped, and then the previous conclusions stay. Correct
  means: the status says what the approval does, exceptions explain a stop, a
  stale match is visible, the confidence gate holds, posting is final.
* **Mailbox and extraction.** A message is on record and out of the mailbox in
  two steps, polls overlap, every statement may fail and the process may die.
  Correct means: nothing is lost or stuck, a message is answered once, the same
  bill is not routed twice, the model's confidence never outweighs arithmetic.
* **Orders and matching.** Orders arrive while invoices are matched against
  their absence; receipts are merged into what was read before; goods are
  returned and cancelled. Correct means: parked invoices clear, nothing is billed
  twice against one receipt, the net of the movements is what lies in the store.
* **Administration, identity, definitions.** Checks of "at least one left" that
  two requests pass together, first logins of two identities to one account, two
  publications that wait for each other's rows, in a circle if it comes to that.
* **ERP client.** Tokens and sessions die between check and use, answers are lost
  after the document was created. Correct means: no second document, no token
  that dies on its way if it was granted in time, no stored configuration that can
  never sign in.
* **Frontend.** Answers arrive in another order than the questions, the user
  changes meanwhile, two decimal conventions meet. Correct means: the screen
  shows what it says it shows, every arrival is announced, a typed value is
  stored as meant, what is posted is what was coded when it was counted.

## Modules

```
WorkflowGraph            graphs, validateGraph, edge choice, NodeOutcome
  ApprovalEngine         the engine, one action per awaited statement
    ApprovalQueries      what inbox, history and progress show
      ApprovalProperties what the engine promises     --- INSTANCE ApprovalRound
        MC_ApprovalEngine
        InvoiceLifecycle         one invoice from extraction to posting
          InvoiceProperties, MC_InvoiceLifecycle
        ApprovalEngineProofs     types, one live instance, backed approvals, proved
          ApprovalAskedProofs    somebody to ask; one request at a time, proved
            LifecycleProofs      the same under the handlers; the invoice's promises, proved

Extraction, VendorNames  from a document to doubts; when two names are one supplier
  InboundMailbox         mail becomes invoices
    MailboxProperties    what is promised of it       --- INSTANCE MailDelivery
      MailboxProofs      every safety promise, proved
      MC_InboundMailbox

PoMatching               the match of an invoice with an order
  S4Documents            S/4HANA's orders and material documents
    GoodsMovements       its stock ledger, and what is read from it
    Orders               orders, receipts, the sync, the invoices that wait
      OrdersProperties
        MC_Orders            --- with GoodsMovements
        OrdersProofs         --- with GoodsMovements: all promises, proved

Authority                who may approve, whom a token belongs to, which role reaches what
  Directory              users, sign-in, authorities
    Definitions          versions of the workflow, with the one transaction
      TenantProperties
        TenantProofs     its safety promises, proved
        MC_Tenant

S4Client                 the transport, its token and its session
  ErpConnections         connections, their secrets, test and sync
    ErpProperties
      ErpProofs          all three properties, and the payload of a posting, proved
      MC_Erp             --- with S4Invoice
S4Invoice                the payload of a posting

InboxWatch               the tab: who is signed in, the watch on the inbox
  WatchProperties, MC_Session
FieldValues              what a typed value is read as
  Screens                the invoice page and its calls
CostAssignment           editors, coding, posting
  MC_Screens             --- with Screens
  PagesProofs            --- with Screens and WatchProperties: what the frontend promises, proved
```

**WorkflowGraph.** A graph is a record of node kinds, modes, approver lists,
timers and an edge *list* (the order matters to `edges.find`). A condition is the
set of amounts that satisfy it. Amount 0 stands for a null total, because
`Number(null)` is 0 in `resolveCondition`; an invoice of a genuine zero is not
modelled. `NodeOutcome` takes the set of statuses, since `some`/`every` ask no more.

**ApprovalEngine.** `instances` and `steps` are the two tables, a row's id being
its position. A *worker* is a request in flight: `proc[w].pc` is the statement it
executes next, the other fields are the locals that live across the `await`.

| Handler | Actions |
|---|---|
| `startInstance` | `StartInstance` (no definition / unique index refuses / insert), then `advance` |
| `advance` | `AdvanceWalk`, `AdvanceCreateSteps`, `Park`, `CompleteInstance`, `SettleInvoice`, `AdvanceThrows` |
| `decideStep` | `DecideStep`, `Authorise`, `RecordDecision`, `LogDecision`, `Tally`, `SkipSiblings`, `LeaveNode` |
| `delegateStep` | `DelegateStep`, `MarkDelegated`, `InsertDelegate` |
| `recallInstance`, `restartInstance` | `RecallCheck`, `RecallFind`, `CancelSteps`, `Supersede`, `RestartInstance`, `LinkSuccessor` |
| `escalateOverdueSteps` | `EscalateOverdue`, `SweepSkip`, `SweepReport`, `SweepStamp`, `SweepRead`, `SweepEnd` |

A handler that calls another pushes the label where it continues on `proc[w].ret`;
an exception drops the request and leaves the rows as written. `Authorise` reads the
tenant's enforcement switch (`Enforced` lists what it may find): off, the default, it lets
everybody approve; on, it asks for an authority up to the total. Audit rows are
kept where a property needs them (decisions, breaches), other logging is left out.

**ApprovalRound** is the abstract specification: approval happens in rounds, one
open at a time; a round closes approved only if somebody said yes *in it*. With
requests that do not overlap the engine implements it (`ImplementsRound`); the
refinement mapping is in ApprovalProperties.

**InvoiceLifecycle** adds the handlers of `invoices.service.ts`, `codeLine`,
`post`, and the effect of an order sync, on the engine's own actions, so a
re-validation really recalls and restarts instances. The columns the checks read
are one value `figures`, and `Check[figures][order]` is what `runValidation`
concludes (duplicate, missing order, blocked, mismatch, clean, no order);
`Citing` are the figures with which the
invoice names an order, whatever the check concludes: those are matched again when
one is synced, duplicates among them. A blocked match inserts an exception for each of its
reasons, and one for deviating lines besides. `match` names the figures the stored
match describes. `unsure` remembers what
the extractor was unsure of and nobody has corrected: the code does not store it,
the gate is about it.

| Handler | Actions |
|---|---|
| `ingest` | `ExtractionFails`, `Extracted`, `InsertLines` |
| `runValidation` | `ValidateRead`, `CheckFigures`, `WriteMatch`, `RaiseException`, `RouteInvoice`, then `startInstance` |
| `revalidate` | `RequestRevalidation`, `RevalidateRead`, `RevalidateSkip`, `RevalidateProceed`, recall, `ClearMatchState`, `ResolveExceptions` |
| `correctField` | `CorrectField`, `GuardRole`, `ApplyCorrection` |
| `upsert`, `recordReceipt` | `SyncOrder`, `Rematch` |
| `codeLine`, `post` | `CodeLine`, `WriteCode`; `Post`, `UncodedLineCount`, `WritePosted` |

**InboundMailbox** has several invoices and the handlers around `ingest`. A
document is what the extractor makes of it: `Extraction` has the cross-check of
`main.py` and the gate; it has a number, so that two messages with the same content, or
an upload (`Uploaded`), are files of their own; an answer of the model is any of a few (sure and right,
sure and wrong, prose). `VendorNames` works on words, not letters: what is left
of a printed word without accents and punctuation is a constant function.
`MailDelivery` is the abstract specification: documents settle, a message is
answered once, then it leaves.

| Handler | Actions |
|---|---|
| scheduled sweep, `POST /inbound/poll`, upload | `Sweep`, `PollNow`, `Upload` |
| `pollOnce`, `fetchUnread` | `FetchUnread`, `TakeMessage`, `PollEnds`, `PollFails` |
| `handleMessage`, `ingest` | `InsertInvoice`, `ExtractionFails`, `Extracted`, `StoreExtraction`, `SearchDuplicate`, `RouteInvoice`, `AttachmentFails` |
| record and mark | `RecordMessage`, `MarkHandled` |
| the world | `MailArrives`, `Crash` |

**Orders** keeps the table of orders, the requests at work and the invoices that cite
an order. Requests run side by side: a validation reads the order in one statement and
acts on it in another; a receipt is checked against the row as read, merged with it, and
written later, whatever the row has become; any statement may throw, the audit insert
between the stored order and the re-match among them. The figures of a validation and
the status it leads to are written in one step. `writer` and `missed` are kept for the
properties: who wrote an order last, and which invoices were validated by an order that
was replaced meanwhile, or not at all because something threw. `PoMatching` and
`S4Documents` are pure; prices per unit are rounded as `toFixed` does, in parts of a
cent (`Fine`). **GoodsMovements** is S/4HANA's side of receipts. The repository exports
the mappers of material documents and never calls them, so the ledger is not wired to Orders.

| Handler | Actions |
|---|---|
| `upsert`, `recordReceipt` | `UpsertRequest`, `StoreOrder`; `RecordReceipt`, `MergeReceipt`; `RequestFails` |
| `rematchInvoicesAwaitingPo` | `SelectWaiting`, `Rematch`, `RematchDone` |
| `syncPurchaseOrders` | `SyncPurchaseOrders`, `NextOrder`, then `StoreOrder` and the re-match; `SyncEnds`, `Report` |
| validation of an invoice | `Ingested`, `ReadOrder`, `RouteInvoice`, `ValidationFails` |
| S/4HANA | `Book`, `CancelDocument` |

**Directory** and **Definitions**: a request signs in first (`FindBySubject`,
`ResolvePrincipal`, `BindSubject`) and then runs its handler as the principal
read at that moment. `publishDefinition` is modelled with Postgres's row locks:
staged writes appear at the commit, an UPDATE finds its rows when it starts and
looks at each again once it holds the lock. The second UPDATE takes its row
(`PublishRow`) before it waits in the partial unique index for transactions that are
about to take an entry out or put one in (`PublishEntry`), so one that waits may be
waited for; of a circle PostgreSQL aborts one (`Deadlock`).

| Handler | Actions |
|---|---|
| `POST/PATCH /users` | `CreateUser`, `InsertUser`; `ReadTarget`, `LastAdmin`, `WriteUser` |
| `/authorities` | `CreateGrant`, `InsertGrant`, `RemoveGrant`, `SetEnforcement`, `WriteEnforced` |
| the check of a limit | `Approve`, `CheckLimits`, `Decide` |
| definitions | `CreateDefinition`, `InsertDefinition`; `PublishDefinition`, `RetireOld`, `LockOld`, `PublishRow`, `PublishEntry`, `Commit`, `Deadlock`; `RetireDefinition`, `RetireRow` |

**S4Client** and **ErpConnections**: a call is one invocation of `getRaw` or
`post`; its `pc` is the await it stands at. Requests and replies are messages
that may be lost or late; the service may create the document and still answer
with an error. Time is counted in units of 30 seconds, the timeout of a request; the
token endpoint may take any time to answer, and grants tokens of any of several lives.
Connections are rows by id; one may be created with a placeholder for a secret, since only
an update looks for those.

| Handler | Actions |
|---|---|
| `getRaw`, `post` | `GetRaw`, `Post`, `UseSession`, `Authenticate`, `TokenGranted`, `TokenRefused`, `FetchCsrf`, `Retry`, `Answer`, `GivesUp` |
| the service and the network | `Receives` (four kinds), `Loses`, `SessionExpires`, `Tick` |
| connections | `Create`; `Update`, `WriteConfig`; `Test`, `RecordTest`; `Sync`, `RecordSync` |

**InboxWatch**, **Screens**, **CostAssignment**: every await is a point where the
tab does something else, so calls are sent, answered and received in separate
steps. `Cancelled` is the clean-up of `useApi`'s effect. In `FieldValues` a typed
amount is its groups of digits and the separators (`point`, `comma`) between them;
a text is its word, whether it is in small letters and whether blanks are around it.
`Written` lists the ways to write a value that the rules are made for: an amount of
either sign with either decimal mark, its thousands apart or not; a date in ISO form or
day first; a text with blanks, the code of a currency in either case. A row of the
invoice page sends one save at a time, but it is mounted anew after another row's save
and may then send a second. In **CostAssignment** the choice of the blank entry of a
select, which only disables the button, is left out.

| Code | Actions |
|---|---|
| `App.tsx`, `client.ts` | `Submit`, `TokenArrives`, `SubmitFails`, `Watch`, `Unwatch`, `MeAnswers`, `MeFails`, `SignOut` |
| `useInboxWatch.ts` | `PollStarts`, `ServerAnswers`, `PollLands`, `PollFails` |
| `useApi.ts`, `InvoiceDetailPage.tsx` | `Open`, `Leave`, `Answer`, `Land`, `Fail`; `Save`, `Correct`, `SaveLands`, `SaveFails`; `Elsewhere` |
| `CostAssignmentPage.tsx` | `OpenEditor`, `CloseEditor`, `ChooseAccount`, `ChooseCentre`, `ApplyToAll`, `SaveLine`, `RobotCodes` |
| `codeLine`, master data, `post` | `AssertCodeable`, `UnknownMaster`, `WriteLine`, `Saved`, `CallFails`, `Upsert`; `PostInvoice`, `CountUncoded`, `WritePosting` |

Operators whose comment says "Mutant of ..." are plausible bugs, kept beside the
definition they vary; each checked property is violated when one of them takes
the place of the original.

## Runs

Every run has CHECK_DEADLOCK FALSE: bounded models stop when the bounds are
reached, and an invoice that is posted or rejected has nothing left to do.

| Run | Question | Bounds |
|---|---|---|
| Sequential | Requests that do not overlap: types, no stray question, history kept, refinement of ApprovalRound | 1 worker; graphs two-any, two-all, sla-all, cond, no-role; 2 instances, enforcement on or off (as in the five runs below), steps acted on while at most 6 rows, 1 hand-off, amounts 1 and 2 |
| Deciders | Concurrent decisions and hand-offs | 2 workers; two-any, two-all; 4 rows, 1 hand-off |
| Sweeps | Scheduler, manual sweep and users; liveness | a user's request and the cron worker; sla-all; 3 rows, 1 hand-off |
| Crashes | Death of the process between any two statements, then restart | 1 worker; two-all; 3 instances |
| Lifecycle | The whole life of an invoice, requests one at a time | 1 worker; a timed node; figures p (matchable), n (no order), d (duplicate, citing an order); 3 edits; order absent, blocked or agreed |
| Races | Two overlapping requests of any kind on one invoice, recalls and restarts among them | 2 workers; figures p and q (deviating); 1 edit |
| Mailbox | Overlapping polls, faults, crashes; liveness; refinement of MailDelivery | 2 messages, one without a Message-ID, and an uploaded file; the cron job and one user; 1 message per poll, 1 fault, 1 request |
| Orders | Overlapping orders, receipts, syncs and validations; the net of goods movements | 2 requests at a time; 2 invoices of one order of 2 lines, the first bills one item twice; 2 orders by hand, 3 receipts, 3 answers of S/4HANA (an order without a quantity, without a supplier, with an uneven price); 3 requests, 1 fault; 5 movements |
| Tenant | Users, sign-ins, grants and definitions; liveness | 2 requests at a time, 3 in all, of 24 kinds; 4 users in 2 tenants, 3 definitions |
| Erp | Tokens, sessions, lost messages, connections | 2 calls on clients of their own or a shared one; lives of 2 and 4 units, margin 2, timeout 1, 4 units of time, 2 sessions; 1 connection and room for another |
| Session | The inbox watch across sign-ins; liveness | 2 users, 3 steps, 2 polls in flight, 2 submits, 1 fault |
| Screens | The two pages on which people write | 2 invoices with 2 changes, 2 navigations, 2 saves, 1 fault; 2 lines, 1 person and another client of the API, 1 choice, 2 calls, 1 posting at a time |

MC_Erp also evaluates two assumptions about the pure module S4Invoice over
bounded postings (`PayloadIsWholeOrRefused`, `NumbersWritten`).

Why the bounds are enough. Every race in the handlers is between two read-write
pairs on one node, one instance or one row, so two workers and one node with two
approvers produce each of them; the second node and the second instance let the
consequences show (a node left twice, a step of the former instance answered).
Three edits let a forced re-validation, a correction and a second correction
follow each other, the shortest sequence that leaves a stale match. Two polls
and one fault suffice for a message to be seen again, by a poll at the same time
or by a later one; a call that is retried needs two sessions, and a token that
dies on its way one whose answer took longer than the margin leaves beside the
timeout, or one granted for no longer than the margin. Three requests on orders are the
fewest that let two receipts merge into one row read, or an upsert drop a line under a
receipt. MC_Orders and MC_Screens each hold two parts that share no state, and a
behaviour is of one of them. The screens' races are
between two answers, so two of each call are in flight.
Workers are interchangeable except for the scheduler, so they form a symmetry set in the
runs that check invariants only.

Properties are in the modules named `...Properties` (those of the two pages in
Screens and CostAssignment), each with a comment. In the approval engine and the
lifecycle, those marked "requests that do not overlap" are checked with one
worker since the code does not keep them otherwise (e.g. `HistoryKept`:
`skipPendingSiblings` overwrites by id). That boundary is itself a result; what
survives every interleaving is `OneActivePerInvoice`, `ApprovedOnRecord`,
`SomeoneToAsk` and `PaidOnRecord`. `TypeOK` is the one shape that is part of a run,
because the engine's proofs build on it; `LifecycleTypeOK`, `MailboxTypeOK`,
`OrdersTypeOK` and `TenantTypeOK` state the shapes of the other modules, for a
reader and to be named in a configuration when a module changes.

**Fairness.** Engine (run Sweeps): every statement of a request in flight is
eventually executed, which is what Node's event loop and the database driver do
while the process lives; and the cron worker starts a sweep again and again
(`SlaSchedulerService`, every ten minutes; a tick is skipped only while the last
one runs). Nothing is assumed of users: they need not answer, and `DeadlinePasses`
is not fair. No fairness is assumed under CrashSpec or for the lifecycle. Mailbox: the
same of every statement of a poll, and of the scheduled sweep; faults and crashes
are bounded, arrivals and manual polls not fair. Tenant: every statement of a
request, a statement that waits for a lock being executed once the lock is free,
and a circle of waits being broken, which PostgreSQL's deadlock detector does. Session: a signed-in
tab polls again and again (`setInterval`), the server answers and answers land;
nothing is assumed of the person.

### Where comments and code part

These formulas state what a comment, a constraint or a name promises and the code
does not keep. Each is in a properties module, and TLC finds the counterexample
when it is named in the configuration of the run given.

| Formula (run) | Comment | What happens |
|---|---|---|
| `BreachReportedOnce` (Sweeps) | "Each breach is reported exactly once" (`workflow/workflow-engine.service.ts:490`) | a delegated step inherits the due date but not `slaBreachedAt`: reported again |
| `MissingTakesDefault` (Sequential with graph `small` and an amount of 0) | "a missing/non-numeric field matches nothing" (`workflow/workflow-engine.service.ts:922`) | `Number(null)` is 0 and takes the small-amount edge |
| `OnlyActiveDecided` (Deciders with 2 instances and a recall) | "ACTIVE is the only status that lets an instance be decided" (`db/schema.ts:47`) | a decision is recorded on an instance recalled or completed meanwhile |
| `ProgressCounts` (Sequential) | the count of sign-offs still needed (`workflow/workflow-engine.service.ts:876`) | an ALL node counts as decided at its first answer |
| `RejectionNeverCarries` (Sequential with graph `rework`) | the ANY rule of `resolveNodeOutcome` | a reject edge back: the answers of both visits are tallied |
| `MatchDescribes` (Lifecycle) | "the invoice can never be left displaying a match that no longer describes it" (`invoices/invoices.service.ts:802`) | a correction while something else is in review is not re-validated |
| `GateRespected` (Lifecycle with an unscored field) | "Everything still below the confidence threshold" (`invoices/invoices.service.ts:513`) | doubtful bank details hold an invoice until the first correction of any other field |
| `SupersededLinked` (Lifecycle) | "`supersededByInstanceId` points at it" (`db/schema.ts:51`) | a re-validation recalls without linking; `restartInstance`, which links, has no caller |
| `PostedWithinAuthority` (Lifecycle with workflow u2, both amounts, enforcement on) | the limit of whoever approved | the total is corrected after approval |
| `HardStopHasNoInstance` (Races with two edits) | "Hard stops park the invoice at EXCEPTION with no approval instance" | a re-validation finds no instance to recall just before another inserts one |
| `PostingTerminal` (Races) | "Posting is final" (`posting/posting.service.ts:39`) | two postings both pass the check and both write |
| `OneInvoicePerDocument` (Mailbox) | "the unique key absorbs it, so the outcome is a wasted extraction call" (`inbound/mailbox.service.ts`) | overlapping polls leave two invoice rows; the duplicate search stops the second |
| `ReceiptsKept` (Orders) | "Merge rather than replace" (`purchase-orders/purchase-orders.service.ts:104`) | two receipts merge into the same row read; a re-sync replaces the receipts |
| `ReceiptsOfLines` (Orders) | "Received quantity references line ..., which is not on this purchase order" (`purchase-orders/purchase-order.validation.ts:85`) | only the quantities sent are checked, against the order as read: a line may have been dropped earlier or meanwhile |
| `NobodyPokes` (Orders) | "rather than needing a human to poke it" (`purchase-orders/purchase-orders.service.ts:32`) | the order arrives after the validation read its absence and before it parked the invoice; and, which the formula leaves to `Cleared` to excuse, when the audit insert or the SELECT after the stored order throws (`purchase-orders/purchase-orders.service.ts:82`, `:118`, `:148`) |
| `AlwaysAnAdmin` (Tenant) | the last administrator cannot be demoted | two demotions pass the check together; or the target of an update, no administrator when it was read, is promoted and then the last |
| `NoCircle` (Tenant) | publishing retires the current version and publishes the next in one transaction (`workflow/workflow-engine.service.ts:101`) | two publications of one draft, one of them overtaken by a third, wait for each other; PostgreSQL fails one |
| `SomebodyMayApprove` (Tenant) | enforcement needs an authority | the last authority is deleted after, or during, the check |
| `RetiredForGood` (Tenant) | "A retired definition cannot be republished" | it is retired between the check and the update |
| `TokenNeverDead` (Erp) | "guessing long costs a 401 mid-posting" (`erp/s4hana/s4-auth.ts:96`) | the endpoint is awaited without a timeout and the life counted from its answer; a token granted for less than the margin is used once |
| `NoPlaceholderStored` (Erp) | "Writing it back verbatim would replace a real secret with bullet characters" (`erp/erp-connections.service.ts:92`, of updates) | creation takes a placeholder for a secret |
| `TestDescribes`, `UpdateLost` (Erp) | the outcome of the last test; an update of some fields | an update keeps the old outcome; the later of two overwrites the other's fields |
| `AlwaysAgrees`, `BadgeIsMine` (Session) | "Who you are, as the server sees it" | the answer to an earlier submit comes last; a poll of the former user lands |
| `ProgressMatches` (Screens) | the approval card of `InvoiceDetailPage.tsx:84` | the card shows the former invoice's approval until its own answer arrives |
| `PostedCoded`, `CodingFixed` (Screens) | "Coding is blocked once an invoice is posted" | a line is cleared or recoded between posting's count and its update, or after the check of `codeLine` |
| `HalfKept` (Screens) | "Both are optional so a coder can set one half now and the other later" (`coding/dto/coding.dto.ts:32`) | the half that is not given is cleared |
| `MonthFirstAsMeant` (Screens) | "this belongs in per-tenant configuration before the first US customer" (`invoices/invoices.service.ts:192`) | the third of June written 06/03/2026 is stored as the sixth of March |
| `DraftsKept` (Screens) | drafts of the other lines (`CostAssignmentPage.tsx:102`) | the reload after a save closes the editor and its drafts |

The refusal of ambiguous amounts is not total either: `1.234.56` is read as
123456 (`ValueAsMeant` speaks of amounts written consistently). "every uncoded
line" (`CostAssignmentPage.tsx:111`) is every line in the code. With the graph
`loop` (a cycle of conditions) `RequestsEnd` fails; the validator accepts it.

## Proofs

*ApprovalEngineProofs*: `SpecTypeOK`. `TypeOK` is not inductive: a request that is
about to write through `proc[w].inst` needs to know that the row exists. `Typed`
adds, for every label, what its locals are (which ids refer to rows, that the
node of a request inside a node is an APPROVAL node, what `ret` may hold). One
lemma per action shows that it keeps `Typed`; the theorem combines them.
`SpecOneActive` follows from `Typed` because the only statement that makes a row ACTIVE
is guarded by the index and no statement turns one back. `SpecApprovedOnRecord`: an instance that got past the
unearned part of its graph has an APPROVE on the audit trail. The
strengthening, `Backed`, says that every APPROVED step is recorded, that every
request that carries an approving outcome, or walks beyond an approve edge, has
a recorded step behind it, and that rows keep their instance and node. It rests
on a lemma about `NodeOutcome` (it answers APPROVED only if some step is
APPROVED) and on the closure of `Unearned` under all other edges. The
assumptions are those of the modules: definitions are valid graphs, sentinels
are not nodes or users, and the bounds are naturals. Nothing is assumed about the
number of workers, users, nodes or definitions. Both invariants are shown per
statement of the engine (`Statement`), without a word on the invoice's row, so
that they hold as well where the handlers of the lifecycle write that row.

*ApprovalAskedProofs*, first part: `SpecSomeoneToAsk`, for any number of requests in
flight. `Asked` says that a live instance is the newest one, and that either a
question of it is open or some request in flight carries it on: one that wrote an
answer or has just read the node's steps, for as long as the answer it wrote
stands. Of two that answer the last two steps together at least one carries, since
the later of the two reads sees both answers; a skip or a hand-off that overwrites
an answer carries the instance in its place. The hypothesis is `Staffed`: every
approval node names an approver, and START has an edge that is not the reject edge.
`validateGraph` accepts graphs without (a role nobody holds, a START with one edge
marked onReject); with them `advance` throws after the instance was inserted, and a
live instance waits for nobody until it is restarted.

Second part: requests handled one at a time (`OneAtATime`, any one worker).
`InTurn` says of the request at work what it knows of the rows it is about to
write (whoever is asked is asked about the node at which the live instance is
parked or about to be; the steps `skipPendingSiblings` collected are still pending;
no other instance has a question open) and between requests that nothing is left
over. `SpecNoStrayQuestion` and `SpecHistoryKept` follow.
`SpecImplementsRound` shows for each statement that, through the mapping of
ApprovalProperties, it is a step of ApprovalRound or changes nothing of it. For
overlapping requests none of the three holds, and TLC shows how.

Third part: `SpecRestartRepairs`, under `CrashSpec`, again for one worker. `Typed` and
`OneActivePerInvoice` survive a crash since the rows do; `InRepair` follows a restart from
the recall (the instance it found is the only live one) through the supersession (there is
none) to the walk of the new instance (it alone may be live, and has a question
open once it is parked). Nothing is assumed of what the crash left behind.

*LifecycleProofs* (which extends InvoiceProperties too): a handler of the lifecycle
writes no row of the engine and works on none of its nodes (`HandlerMoves`, one
lemma per group of handlers), so `Typed`, `OneActivePerInvoice` and `Backed` carry
over to `LifecycleSpec` (`LifecycleKeepsEngine`, `LifecycleOneActive`). `Shaped`
types the lifecycle's own rows and locals (`SpecLifecycleTypeOK`). For
`SpecPaidOnRecord`, `Paid` says that as long as no APPROVE is on record the invoice
is neither approved nor posted, no request is about to settle it as APPROVED, and
none is past the status check of a posting. An approving outcome or a way past an
approve edge has a recorded step behind it by `Backed`; a posting starts from an
APPROVED invoice, so it needs one too, whatever runs in between. Assumed besides
(ApprovalAssumption): no graph reaches END without an approve edge. `validateGraph`
lets one do so on a condition, and for a tenant with such a graph nothing of the
kind is promised. `Asked` carries over as well (`LifecycleSomeoneToAsk`).

Its last part proves the six promises the run Lifecycle checks, for one request at a
time, any graphs, figures, checks and corrections. `InStep` has a conjunct for each,
at every statement of the request at work: the status agrees with the live or the
last instance (`Agrees`), what was read of the row is still so (`Remembers`), an
exception that stops the invoice is open by the time its status is written
(`Explained`), a stale match is recorded or about to be cleared (`Visible`), and
what is doubtful shows on the row or the lines (`Gated`). `SpecLiveIsPending`,
`SpecApprovalStands`, `SpecExceptionExplained`, `SpecStaleIsVisible`,
`SpecGateRespected` and `SpecPostingTerminal` are what is left of it between
requests. `SpecGateRespected` needs every extracted field to be among those
`fieldConfidence` is kept for: `ingest` leaves the bank details out, and the table
under "Where comments and code part" says what happens to those.

*ErpProofs*: all three properties of the run Erp, for any number of calls,
clients, connections and sessions, and the payload of a posting for every
posting: an invoice that is all purchase order cannot be mapped
(`PurchaseOrderOnlyIsRefused`), because the tax code of a PO line is taken from a
G/L line; all PO lines carry one code (`OneTaxCode`); no key is cut (`NothingIsCut`).
`Typed` gives calls, messages and tokens their shape. `SpecTokenOutlivesRequest` is about
*timely* tokens, those granted for longer than the margin whose answer took no longer than
the margin leaves beside the timeout of a request. It rests on `Timing`: a client's belief about
a token is late by what its answer took, so a timely token that passes the margin outlives
the request's timeout. Nothing is assumed of how long tokens live or their endpoint takes;
the code bounds neither (`TokenNeverDead` in the table above). `SpecOneDocument` rests on
`OneMessage`: a call has one message on its way at most, and a document of it
exists only once no request of it is left and the answer, if one is still to
come, ends the call. That is why the retry, which follows only "Required", is
safe, and why a lost answer is not (the call fails and is not repeated).
`SpecConnectionUsable` rests on `RowsSound`: what an update is about to write was
checked when it was merged, and since it writes the whole configuration, no other
update can spoil it. A secret that is a placeholder (ConnectionUsable's second
half) was one when the connection was created, since an update keeps what is stored in
its place.

*MailboxProofs*: everything the run Mailbox checks but liveness, for any number of
polls, messages, documents, replies, faults and requests. Four invariants, each
resting on the ones before it:

* `Owned` gives rows and locals their types (`SpecMailboxTypeOK`) and says what a
  poll holds: its invoice exists, is of the document in hand and has the status
  its next statement expects (EXTRACTING until the answer is stored, VALIDATING
  after), and no other poll works on it. That makes every ingest the only writer
  of its row although nothing in the code locks it.
* `Kept` follows each document: of a message with a poll at work on it, every
  document is still left, in hand, given up or settled; of a message on record,
  and of one flagged, it is given up or settled. `SpecNothingLost` follows, and
  `SpecImplementsDelivery`: each step of a poll is a step of MailDelivery or
  changes nothing it sees. Both need `CopyAssumption`, that a Message-ID names one
  message: the flag is set on every copy, so of two messages under one id the
  second would vanish unread.
* `Gated` says what a row holds of its extraction: the reading's own vendor, and
  that a doubtful reading is in review. With `SureAddsUp`, that a reading whose
  arithmetic fails is doubtful whatever its confidences, it gives
  `SpecGateAddsUp`. `ReplyAssumption` says that a reply which parses has the
  fields the prompt asks for.
* `OnePassed` extends `AtMostOneRouted` to invoices past the search and not
  routed yet: two of one number and vendor never pass both, because a row has both
  columns before its search and the search sees rows in every status.
  `SpecAtMostOneRouted` follows, as one supplier's spellings resolve to one vendor.

*TenantProofs*: the four safety properties of the run Tenant and `TenantTypeOK`, for
any number of requests, users, identities and definitions.

* `Signed` types rows and locals (a handler is at a statement of the route that was
  asked for) and says that what a request has read of a row stays true: rows are
  never deleted, move to no other tenant and are bound to an identity once
  (`Keeps`). `SpecActsAsOwner` follows.
* `Guarded`: while no administrator was stripped under another such update, every
  tenant that had an administrator has one, and an update about to take
  somebody's access leaves another (`Spares`). The check of `update` establishes
  `Spares` when the target is an administrator; when it is not, nobody is lost.
  Two such updates at once can spoil it for each other, which is what `overlap`
  records. `SpecAdminLeft` follows. The check alone does not rule out a second
  hole, besides two demotions at once: an update of somebody who is promoted
  after it read its target.
* `Held`: at most one request is at its commit, because it goes there only when no
  other transaction has an entry of the partial index in doubt, and it has staged
  whatever is published. So a commit leaves exactly its own definition
  published. `SpecNeverUnrouted` and the single published definition follow.
* `SpecCircleOvertaken`: a circle of transactions that wait for one another, however many
  they are, takes one whose first UPDATE saw something else published than there is
  now. `Disjoint`: no two transactions have the same row. If all saw what is published,
  whoever waits with rows taken has that row, so only one does; and with nothing
  published nobody waits for the index, and whoever is waited for runs. What is left of
  circles is PostgreSQL's to break, and `RequestsEnd` says with what is modelled of it
  that every request ends.

Assumed is what the tables and the DTOs guarantee: DirectoryAssumption and
DefinitionsAssumption (the first rows satisfy the unique keys, sentinels are no
values), RequestAssumption (what is asked has the fields of its DTO).

*OrdersProofs*: the four invariants of the run Orders and the shapes behind them, for any
number of requests at work, orders, bills and answers of S/4HANA of any length and any
number of invoices.

* `OrdersTyped`: whatever requests overlap, the lines of an order on file add up to it,
  and its receipts are quantities. `Filed` says the same of what each request holds. That
  the receipts are of lines on the order is not claimed: it is false (`ReceiptsOfLines`).
* `OrdersCleared`: `Clear`, invoice by invoice, through every statement. A write of an
  order leaves its writer about to select the invoices that cite it, and the selection
  finds each that is parked; a validation that acts on an order replaced since its read,
  and a statement that throws before the re-match, are on record in `missed`.
* `OrdersSyncAccounts`: `Accounted` says of each run where each order of its answer is:
  still to come, about to be stored, stored as sent unless another request wrote it
  since, or listed as failed for a reason.
* `OrdersBilledWithinReceipt`: `pairLines` pairs no order line with two lines of a
  bill, and of the pairs the check by quantity lets pass each bills at most what was
  received. That `pairLines` goes through the bill line by line would call for an
  induction; instead the least line that breaks the claim is taken (`LeastOf`), and
  the recursive function unfolded there and at the line before. The hypothesis is
  that over-receipts block (`blockOnOverReceipt`, the default).
* `LedgerNetIsOnHand`: what the client nets out of S/4HANA's documents is what lies in
  the warehouse, however many movements and cancellations there were and whether
  S/4HANA expands the items of a document or answers with headers. `StockInv`: the
  documents that count add up to `onHand`; a movement adds its own quantity, a
  cancellation takes its document out of the sum, and the document that reverses
  it never enters. Both the sum and the flattening of headers into items are
  recursions over lists of any length. They are not unfolded by an induction theorem,
  but by the least position at which two lists of partial sums differ.

Assumed: an order's lines have numbers of their own, an answer lists an order once,
quantities are whole, a movement is booked as a document that is neither cancelled
nor a reversal (DataAssumption, FeedAssumption, MovementAssumption);
`validatePurchaseOrder` enforces the first for what users send.

*PagesProofs*: `SpecScreenCurrent` for the invoice page (a navigation or a reload
drops the calls made before, so an answer that lands is of the route's invoice and
no older than the latest save the page was told of), `CodingPostedAsCounted` for the cost
assignment (from the count on, `row` is what was counted and no call is past its check,
unless one overlapped), and `TabNameFollowsToken` for the tab
(`OneName`: nobody is named while signed out or while the server is being asked).
`SpecValueAsMeant`: whatever value of whatever field a person means, written in any of
the ways `Written` lists (FieldValues above), the invoice holds that value or the correction is
refused. For amounts
(`AmountRead`) the groups of digits read one after the other are the number they were
written for (`WholeRead`), and one, several equal or two kinds of separators each tell
where the decimals begin or get the amount refused (`DecimalRead`). `ScreensAssumption`
says that what is typed is one of those ways, of amounts below a
billion: a bound of the model, the column holds sixteen digits before the decimals. A
day written month first is not among them: it is stored as another
(`MonthFirstAsMeant`).

Every safety property that a run checks is thus a theorem. Only model-checked: the
liveness properties (`RequestsEnd` of the engine and of the tenant, `BreachesSurface`,
`EveryMessageHandled`, `EveryArrivalAnnounced`), which are out of the prover's reach
together with `ENABLED`. The library's induction theorems are too, as they take an
operator as a parameter; where a recursion had to be followed, the proofs argue from
the least counterexample. What the loop of `VendorNames` computes for every pair of
names, and the two assumptions about S4Invoice, stay with TLC.

## Not modelled, and the plan

Left out on purpose: wording, logging, list and dashboard endpoints, rendering,
file I/O and signed URLs, the language model behind the extractor, the IMAP
protocol, the verification of a signature, encryption itself. Two tabs of one
browser share the session in `localStorage`; one tab is modelled, without the
double effects of React's development mode. Sweeps of other tenants are left out:
tenants share no row, and one that fails is caught before the next. Approvers
named by a role are a constant list; in the code it includes deactivated users,
whose steps nobody can answer until they are handed on. Seeds, fixtures and tests
are not modelled. In the lifecycle, duplicate detection and the match are the
constant `Check`; Mailbox and Orders have them with several invoices. The edge
where a supplier invoice item number outgrows its field is in `NumbersWritten`.

What remains. The promises proved for requests one at a time do not survive overlap:
with the constants of Races, TLC violates `LiveIsPending`, `ApprovalStands`,
`StaleIsVisible` and `GateRespected`. A
weaker promise for overlapping requests would have to say which pairs of requests
excuse it, as `AdminLeft` does with `overlap`; none has been stated for the lifecycle.
