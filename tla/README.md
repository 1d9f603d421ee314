# Vercentlabs ERP: TLA+ models and proofs

This directory holds the formal models of the Vercentlabs ERP back end: TLA+
modules translated from the JavaScript services and the SQL they run, TLC
configurations that model-check them on small instances, and proofs that the TLA+
proof system (TLAPS) checks. `PROJECT.json` lists, for every definition, the lines of
source it stands for; for every property, a small change of the code that breaks it;
and the hazards the properties are aimed at.

1. [The system](#1-the-system)
2. [What is modelled](#2-what-is-modelled)
3. [The models and the code](#3-the-models-and-the-code)
4. [Runs, bounds and fairness](#4-runs-bounds-and-fairness)
5. [What is proved](#5-what-is-proved)
6. [What the models show of the code](#6-what-the-models-show-of-the-code)
7. [What is not modelled](#7-what-is-not-modelled)
8. [Plan](#8-plan)

## 1. The system

Vercentlabs ERP is a multi-tenant ERP. PostgreSQL holds all durable state; nearly every
table is under row-level security and an operation runs in one transaction on a
connection scoped to its organisation (`runTenantTransaction`, `withTenantClient`). The
isolation level is PostgreSQL's default, READ COMMITTED, so what makes an
operation correct under concurrency is which rows it locks, in which order, and what it
reads before it holds them.

```
 browser, mobile ──> apps/web routes ──> services/api (modules, orchestration, core)
                                              │   one transaction per request
                                              ▼
                                         PostgreSQL  <── triggers, functions (migrations)
                                              ▲
              services/worker ────────────────┘   poll loop (several processes), scheduler
                    │
                    └──> webhook endpoints, mail server, Graph API, payment provider
```

### Components

| Component | Where | State | Operations | Interacts with |
|---|---|---|---|---|
| Job queue | `services/worker/src/queue.js`, `worker.js`, `registry.js` | `background_jobs`; the batch a worker holds | enqueue, claim, run, complete, fail, stop, prune | everything that enqueues; the scheduler |
| Event outbox | `core/platform/events/service.js` | `platform_events` | publish in the change's transaction, dispatch | webhooks and workflows fan out from it |
| Webhooks | `core/platform/integrations/webhooks/service.js`, `worker/src/webhooks.js` | `webhook_subscriptions`, `webhook_deliveries` | subscribe, fan out, claim, POST, record, redeliver | kill switch in the configuration; endpoints |
| Workflows | `core/platform/workflows`, `crm/automation/actions.js` | `workflow_definitions`, `workflow_runs` | save, activate, fan out, claim, execute, fail | events, dates, mail, webhooks |
| Mail | `core/platform/mail/outbox.js`, `apps/web/src/core/db.ts` | `mail_log`; two flags of the web process | queue, send after commit, claim, send, record | everything that writes to people |
| Reservations | `modules/stock/index.js`, `reservations.js`, `sales/reservations/service.js` | `inventory_reservations`, `stock_reservations` | reserve, release, reallocate, consume | orders, deliveries, POS, transfers |
| Ledger and balances | `modules/stock/index.js` | `stock_movements`, `stock_balances` | post a movement under a balance lock | every document that moves stock |
| Physical counts | `modules/stock/stock-counts.js` | `inventory_count_locks`, count lines | start, cancel, count, review, complete | freeze postings and reservations |
| Idempotency | `core/idempotency.js` | `operation_idempotency` | begin, complete, replay | POS, payments, public API |
| Configuration | `core/platform/configuration` | `configuration_versions` | write, schedule, cancel, read as of | kill switch and flags |
| Scheduler | `worker/src/scheduler.js` | none | one tick per interval | enqueues with deterministic keys |
| Approvals | `core/platform/approvals`, `orchestration/approvals` | `approval_requests`, `approval_decisions` | raise, decide, cancel | every module with approvals |
| Numbering | `core/platform/numbering` | `document_sequences`, policies | next number | every document |
| Billing | `core/billing` | subscriptions, checkout sessions, provider events | checkout, webhooks, renew, reconcile, cancel | payment provider |
| Accounting | `modules/accounting` | journals, open items, periods | post, settle, reverse, close | sales, procurement, assets, payroll |
| Point of sale | `modules/point-of-sale` | carts, payments, shifts | check out, pay, return, close | stock, payments, accounting |
| Sales, procurement, manufacturing, quality, assets, projects, HR, CRM, products, support | `modules/*` | documents | document life cycles | stock, accounting, approvals, events |
| Platform services (access, audit, files, notifications, secrets, reports, imports, AI, ...) | `core/*`, `orchestration/*` | rows | single-row work, queries | all modules |

### What is hard

* **Leases.** Jobs, deliveries, runs, mails and provider events are claimed with
  `FOR UPDATE SKIP LOCKED` and a time: a worker that is slow, stops or dies loses the
  row to another, and may still come back to it. Each queue answers this in its own
  way: the job queue and the deliveries compare `locked_by`, a run locks its row for the
  whole execution, the mail queue compares nothing.
* **Two commits.** What happens outside the database (a POST, a mail) and the row that
  records it are two steps; a failed statement may have committed.
* **Two parties.** The payment provider moves a subscription on its own time and tells of it
  late and in any order; a request to it may be carried out and never answered.
* **Snapshots.** READ COMMITTED lets a statement act on what it read before it waited: the
  prune statement, the totals trigger of a reservation, the list of positions to pick
  from and the status of the neighbouring months are read before, or without, the locks they
  rely on.
* **Locks in several orders.** Sales operations, Inventory's own releases and postings take
  order, reservation, allocation, item and balance locks in different orders; so do the
  poster of a sale and the retry of its posting.
* **Long sequences.** Redeliveries, new versions of a workflow during a repeated fan-out,
  a reservation after its line was delivered or cancelled.

### What makes each component correct

* *Queues* (jobs, deliveries, runs, mails): an accepted item is settled, through crashes; it
  takes effect only while it is open; what is finished stays finished; one holder at a
  time. That is `DeliveryContract`, one abstract specification for all four.
* *Outbox*: what leaves is owed (committed, registered type, a subscription entitled to it)
  and every committed event is dispatched; no delivery owed is lost, but for what becomes
  owed while retention is already removing its event.
* *Workflows*: an automation never starts another; one run per event and workflow; a run's
  changes are committed once.
* *Stock*: balances agree with the ledger and the allocations; nobody's reserved stock is
  taken; a line keeps no more than it needs; every request ends. As a whole: every commit
  is one step of `StockBook`, which knows neither locks nor statements.
* *Ledger*: an entry reaches the books once and is undone once; nothing enters or leaves a
  closed month, and the year's result is carried over once, by one closing entry
  (`BooksContract`); a closed month shows what it was closed with; a sale's posting says of it what
  the books say.
* *Billing*: one paid plan at a time, kept as long as its mandate, and told to be cancelled only
  when the provider will not charge again (`PlanContract`); nobody keeps paying for what he did not
  get, unless he paid while a job was closing his checkout as unpaid; the company's status follows
  the provider's, and every cancellation gets an answer.
* *Still to be modelled*: see the [plan](#8-plan), where the property of each is named.

## 2. What is modelled

| Module | Kind | Models |
|---|---|---|
| `DeliveryContract` | abstract specification | what a durable queue promises whoever puts an item in it |
| `JobQueue` | detailed | the job queue and its workers |
| `WebhookOutbox` | detailed, composed | events, dispatch, subscriptions, deliveries, the kill switch, pruning |
| `WorkflowRuns` | detailed, composed | workflow versions, fan-out from events and dates, execution |
| `MailQueue` | detailed, composed | web requests and their after-commit hook, workers, the mail rows |
| `StockBook` | abstract specification | what Inventory promises the documents that keep stock aside |
| `StockReservations` | detailed, composed | sales, Inventory screens, postings and counts on the same rows |
| `BooksContract` | abstract specification | what Accounting promises whoever reads a month's statements |
| `MonthClose` | detailed, composed | the journals, the POS postings, and the months and year that close over them |
| `PlanContract` | abstract specification | what Billing promises a company and whoever bills it |
| `SubscriptionCheckout` | detailed, composed | checkout sessions, the company's subscription, the provider and its events |
| `JobQueueProofs`, `WebhookOutboxProofs`, `WorkflowRunsProofs`, `MailQueueProofs`, `MonthCloseProofs`, `SubscriptionCheckoutProofs`, `StockReservationsProofs` | proofs | theorems about the module they are named after |
| `StockBookProofs` | proofs | that `StockReservations` implements `StockBook`, on top of `StockReservationsProofs` |
| `MCJobQueue`, `MCWebhookOutbox`, `MCWorkflowRuns`, `MCMailQueue`, `MCStockReservations`, `MCMonthClose`, `MCSubscriptionCheckout` | instances | the constants of the runs |

Each detailed module ends with its properties and, last, the refinement mapping of its
abstract specification (`Contract`, `Book`, `Ledger`, `Plan`), which the runs check as the
property `KeepsContract`, `KeepsBook`, `KeepsBooks` or `KeepsPlan`. An operator whose comment starts with "Mutant:" is a changed
form of the definition next to it, used to show that a property can fail.

Conventions common to the modules:

* One SQL transaction is one action, unless others can see or overtake it half-way; then
  its statements are actions (`StockReservations` and `MonthClose` throughout, the dispatch transaction
  and the prune statement in `WebhookOutbox`, a run's execution in `WorkflowRuns`).
* Time is a flag per row: `due` (run_at or next_attempt_at has arrived) and `lease`
  ("live" or "expired"). The clock may advance at any moment.
* A worker is one process incarnation, because a worker's id is fresh at each start.
* `Overrun = FALSE` says that a batch is finished within its lease. That is what the
  defaults aim at (120 s for jobs, five minutes for deliveries and runs, two minutes for
  mails), it is not enforced, and what happens otherwise is in
  [section 6](#6-what-the-models-show-of-the-code).
* A statement that fails may fail before or after its commit (`DbFaults`, `FaultCap`).

## 3. The models and the code

### JobQueue

State: `status`, `key`, `attempts`, `due`, `lockedBy`, `lease` are the columns of
`tenant.background_jobs`; `phase`, `batch`, `current` are a worker's place in its poll, the
jobs it holds and the one in hand; `stopping` is `stopRequested`; `effects` counts the
commits of a handler.

| Action | Code |
|---|---|
| `EnqueueJob` | `enqueueJob`: an existing key inserts nothing |
| `BeginPoll`, `ClaimJobs` | `pollOnce`, `claimJobs` (pending and due, or an expired lease; SKIP LOCKED) |
| `TakeJob` | `processGenericJob` up to the handler |
| `CommitWithJob` | transactionMode "tenant_transaction": handler and `completeJob` in one commit |
| `CommitManaged`, `CompleteManaged` | transactionMode "managed": two commits |
| `HandlerThrows`, `RecordFailure`, `AbandonBatch` | the catch block, and its own failure |
| `RequestStop`, `Stop`, `Crash` | `stop()`, and a killed process |
| `LeaseExpires`, `RunAtArrives`, `Prune` | the clock; `prune_platform_history` |

### WebhookOutbox

State: `event` (the row of `platform_events`, with "open" while its transaction is), `older` (the
subscriptions created before it occurred), the columns of the deliveries, the
subscriptions, the kill switch, and a worker's turn. A delivery is the pair (event,
subscription) its unique constraint makes it.

`BeginChange`/`EndChange` are the transaction that publishes; `BeginDispatch`, `CommitDispatch`,
`DispatchFails` are `dispatchPlatformEvents` with `fanOutWebhookDeliveries`;
`ReadKillSwitch` is an action of its own because the worker reads it before it claims;
`ClaimWebhookDeliveries`, `TakeDelivery`, `Post`, `RecordOutcome`, `EndTurn` are a worker's turn;
`CallWebhook` is the `crm.call_webhook` action of an automation;
`RedeliverWebhookDelivery` is the operator's; `PruneSelect` and `PruneDelete` are the one DELETE of
migration 0192: its snapshot, and the delete that cascades to the event's deliveries. In between
(`pruning`) everybody else goes on, so that a delivery may be made, or opened again, which the delete
then takes, from under the worker that holds it too. A delivery that is owed while its event
is being pruned is *late* in the contract (`Late`, `Losable`), and may be forgotten; one that
is not late may not.

### WorkflowRuns

A run is the triple (workflow, version, cause) its idempotency key spells; a cause is an
event or a date. `UpdateWorkflow` and `SetWorkflowStatus` edit and switch a workflow;
`FanOutWorkflowRuns` and `QueueTimeTriggeredRuns` create runs; `ClaimWorkflowRuns`,
`ExecuteWorkflowRun`, `SendMessage`, `CommitRun`, `RunThrows`, `FailWorkflowRun` are a worker's turn. The
transaction of a run is open from `ExecuteWorkflowRun` to `CommitRun` or `RunThrows`; a message
sent in between stays sent. A committed run may publish an event of its own, with origin
"workflow".

### MailQueue

A sender is one running pass of `processMailQueue`, in a worker or started by the web process.
`QueueMail`, `CommitRequest`, `RollbackRequest`, `OtherRequestCommits` and `SendWaitingMail` are
the request, its commit in `db.ts` and the process-wide flag that starts a pass;
`ClaimMail`, `Send`, `RecordSent`, `RecordFailure`, `AbandonBatch`, `EndPass` are a pass.
`payload` says whether a row still has its content. `WebRestart` and `Crash` end processes.
`MarkSent` and the statements of the catch block may commit without their answer; `recorded` is
history: whether a row was ever marked sent, whatever it says now. A message is done, for the
contract, once it is.

### StockReservations

One item in one warehouse; a *place* is a row of `stock_balances`, a *line* an order line with
its `inventory_reservations` row, an *allocation* a row of `stock_reservations`. A session is a
connection inside one request's transaction; what it wrote stays in `tx` until `Commit`, row
locks are in `lock`, and `DetectDeadlock` is PostgreSQL's detector, which ends one
transaction of a cycle.

| Request | Begins with | Code |
|---|---|---|
| reserve, release, cancel, deliver | `BeginSales` (locks the order line) | `sales/reservations/service.js`, `orders/lifecycle.js`, `deliveries/lifecycle.js` |
| free (a whole reservation), drop (one allocation) | `BeginRelease`, `BeginReleaseOne` | Inventory's own releases, `stock/index.js` |
| reallocate | `BeginReallocate` | `reallocateReservation`, `stock/index.js` |
| move | `BeginMove` | `postStockMovement`, `stock/index.js` |

The statements they share are `LockReservation`, `ListAllocations`, `ClaimAllocation`, `LockAllocation`,
`GiveUpReserved`, `ReadTotals` and `WriteTotals` (the trigger of migration 0072, whose sum is
read before the row is locked), `CheckCount`, `LockInventoryItem`, `PostMovement`, `ReadDemand`,
`EnsureReservation`, `PickRows`, `LockRow`, `RowsLocked` (the positions are listed, locked one by one,
then read), `InsertReservation`, `Commit`, `Rollback`. `StartCount` and `CancelCount` are the
physical counts; `early` is history: which transactions had already passed their count check when
the count began. `CountedStays`, which `stock_count` shows violated, is what the code says of
counts; `OnlyEarlierMoves`, in the proofs, is what is left of it: nobody else's commit moves
what is being counted.

### MonthClose

One financial year. `month`, `year`, `snapshot` are `fiscal_periods.status`,
`accounting_fiscal_years.status` and what `close_snapshot` was made from; `state`, `dated`, `reversal`
are the journal entries, `posting` the rows of `accounting_postings` (a manual journal's own posting is a
draft exactly while its journal is open, and is no variable), `closing` what the year's closing entry
has carried over. A session is a connection in
one request's transaction, as in `StockReservations`; `share` is the FOR KEY SHARE that a foreign key
takes on the month, and `BackToSavepoint` the savepoint of the posting service.

| Request | Actions | Code |
|---|---|---|
| sale, retry, scan | `BeginSale`, `BeginRetry`, `BeginScan`, `LockPosSale`, `RetryPosting`, `GetOpenPeriod`, `OpenPosting`, `AllocateNumber`, `InsertEntry`, `PostEntry`, `PostingFails`, `RecordPostingFailure` | `posting-service.js`, the POS `accounting-posting.js`, triggers of 0109 and 0197 |
| draft, redate, post, reverse | `BeginDraft`, `BeginRedate`, `BeginPost`, `BeginReverse`, `LockEntry`, `UpdateEntry`, `CommitEntry`, `CommitReversal` | `journals.js`, `manual-journals.js` |
| close, lock, reopen | `BeginMonth`, `LoadPeriod`, `CheckOthers`, `CheckJournals`, `CheckPostings`, `ReadTrialBalance`, `ClosePeriod`, `LockPeriod`, `ReopenPeriod` | `period-close.js` |
| year | `BeginYear`, `LoadYear` (the result is computed), `AllocateNumber`, `CloseFinancialYear` | `period-close.js` |

`StartPeriodReview`, `ReturnPeriodToOpen`, `SubmitJournalEntry`, `ApproveJournalEntry`,
`RejectJournalApproval`, `DiscardManualJournal` and `DismissPosting` are single statements. `Abort` is a
request whose connection is lost.

A manual journal is `draft`, `pending_approval`, `rejected`, `approved`, `posted`, `reversed` or
`cancelled`. A rejected one may be changed or submitted again, and the month's first check does not
count it (`Unposted`). It is the second check that keeps such a month open (`NotInBooks`):
`createManualJournal` opens a DRAFT posting with the journal, which stays a draft until the journal is
posted or discarded (`journals-gl/manual-journals.js`, `posting-service.js`), and `period-close.js:60-63`
counts every posting that is not in the books.

The year's close computes the result, opens the last month, posts the closing entry in it and locks
all months in one transaction. All months' rows are held from `LoadYear` on, so nobody sees the month
open; what others see is an entry that enters a closed month. `BooksContract` says so (`EndYear`: one
such entry, once, with what all months earned and nobody undid), and so does `SnapshotStands` of
the month it is in.

### SubscriptionCheckout

State: `st`, `linked`, `open` are the checkout sessions, `plan`, `local`, `watermark`, `cancelling` the
company's `organization_subscriptions` row; `remote`, `ending` and `events` are the provider and its
reports on their way (their times are only compared, so a report takes the first time after those
still known: `Latest`); `shown` is what a customer still has open in the browser, `call` where the request
that creates a subscription is, `task` what a job of the worker read and was told, `overtaken`, a history
variable, the checkouts that were paid while a job was closing them as unpaid.

| Actor | Actions | Code |
|---|---|---|
| customer | `StartSeatCheckout`, `ReuseCheckout`, `CreateSubscription`, `CreateRejected`, `CreateUnanswered`, `WebProcessDies`, `LinkProviderSubscription`, `ConfirmSeatCheckout` | `checkout.js` |
| provider | `Pay`, `ChargeFails`, `ChargeSettles`, `SubscriptionEnds`, `PeriodEnds`, `Renew`, `Expire` | outside the repository |
| recovery | `RecoverCheckoutSession`, then `NotFound`, `LinkFound`, `TraceFound`, `VerifyCheckout`, `ExpireCheckout` or `DecideCancellation`, `CancelSubscription`, `CloseCancelled` | `recoverCheckoutSession`, `verifyCheckoutWithProvider` |
| events | `ResolveTarget`, `ApplyWebhookEvent` | `webhooks.js` |
| refresh | `ReconcileSubscription`, `ApplyReconciliation` | `reconciliation.js` |
| cancellation | `CancelPaidSubscription`, `RecoverCancellation`, `FinalizeCancellation`, `FailCancellation` | `subscriptions.js` |

The read of a session and the provider's answer are one step, and what the code does with
the answer is another: between them anything may happen. `ApplyCheckoutEntity` and
`ApplySubscriptionEntity` are the two functions through which every path but the cancellation
changes the company's plan. A cancellation is noted, sent, and its answer written down later by
`FinalizeCancellation`; the note and the request to the provider are one step (what comes between
decides only whether the request is accepted), unless the process dies between them. A state
`failed` permits what no state at all does, and is not told apart. A request to the
provider is over before the company can have ended one subscription and begun another
(section 6 says what happens otherwise).

## 4. Runs, bounds and fairness

| Run | Checks | What it shows |
|---|---|---|
| `jobqueue` | `TypeOK SingleRunner TxExactlyOnce OnlyHolderSettles KeepsContract EverySettled StopCompletes` | one row of each transaction mode, or a malformed one; a worker that crashes or is stopped and one that stays; any statement failing on either side of its commit |
| `outbox` | `TypeOK OnlyOwedLeaves KeepsContract EveryEventDispatched EveryDeliverySettled` | an event, a subscription that may be younger than it, an automation that calls it, a kill switch, two workers, a fault, a crash, a redelivery, and a prune statement that others overtake |
| `workflow` | `TypeOK NoChainReaction OneRunPerEvent KeepsContract EveryRunFinishes` | two versions, an event that a run may itself cause, a date, two workers, a fault, a crash |
| `workflow_sent` | violates `FailedSentNothing` | a message sent before a later action throws |
| `mail` | `TypeOK OnlySentLoseContent ErasedWhenDone KeepsContract EveryMailSettled` | two messages, a web process that restarts, a worker that crashes, a statement that fails before or after its commit |
| `mail_lost` | violates `OpenHasContent` | the lost answer of the statement that records a sent mail |
| `stock` | `TypeOK ReservedIsActive BalanceIsLedger OrderTotalsFollow KeepsBook EveryRequestEnds` | any two requests at a time on two places and two lines, a count, any statement failing |
| `stock_totals` | violates `TotalsFollow` | two allocations of one reservation released at the same time |
| `stock_count` | violates `CountedStays` | a posting that has looked for a count before there was one and commits under it |
| `month_close` | `TypeOK SnapshotStands PostingFollowsJournal ClosesWithAllPosted KeepsBooks EveryRequestEnds` | a sale and a manual journal over two months and the closing entry of their year, two requests at a time that share rows, journals sent back, lost connections, postings that fail |
| `months_order` | violates `MonthsInOrder` | a month closed while an earlier one is reopened |
| `billing` | `TypeOK KeepsPlan EveryMandateResolved FollowsProvider` | two checkouts of one company, two jobs at a time, two reports of a subscription in either order, a cancellation, one failure of any kind |

`TypeOK` is the one type invariant of each module; in `StockReservations` it also says that no
quantity in the database is ever negative.

**Bounds.** Two of everything that competes (workers, sessions, messages, jobs) is where the
races are: a second holder, a second reader of the same snapshot, a cycle of two locks. The
bounds named in the modules as "bound of the model" cap what the code leaves
unbounded: `ClaimCap` (claims of a row) is above `MaxAttempts`, so that giving up happens and a
reclaim after it too where the run has faults; `FaultCap = 1` lets a statement fail at any one
place; `RedeliverCap`, `SwitchCap`, `WebRestarts`, `CountCap` allow the operator's step once at any
moment. In `stock`, two requests of the eight kinds, each from every state the other
leaves half-done, four units of stock of which three are kept, and four allocations, two more
than those that exist, which two requests cannot exceed. `l2` lacks one unit and asks for two, so
that a delivery finds it half reserved and a reservation meets the limit of the
demand. What two sessions cannot show is a cycle of three locks; `EveryRequestEnds` is a
statement about pairs.

In `month_close`, `Meets` names the pairs of requests that run against each other: those that share
rows, or of which one decides by what the other changes (`MCMonthClose` lists them). After either
ends another request of its kind may follow, from whatever state the two left. Two months are
enough for an order of months; one sale and one manual journal, because entries meet only in the
sequence of numbers and in the month. In `billing`, `MaxCheckouts = 2` gives a checkout and its
successor; `MaxFailures = 1` is one request unanswered or refused, one process dead, one charge
failed or one subscription ended. `MaxEvents` is how many reports can be on their way: two as long as
there is one checkout, so that reports of one subscription change places and the watermark decides
between them, and one beside a second checkout. `Renew` reports a subscription again, if at all,
when nothing else would bring it up.

In `outbox` one event and one subscription suffice for the races around a delivery; that events and
deliveries do not mix is what the theorems say for any number of them. `SwitchCap = 2` is two
changes of the kill switch or the subscription: either, and back, or one of each.

**Sizes.** Distinct states: `jobqueue` 155 000, `outbox` 237 000, `workflow` 159 000,
`mail` 548 000, `stock` 106 000, `month_close` 177 000, `billing` 87 000; each ends in under four minutes.

**Fairness.** A running worker keeps polling (`worker.js` re-arms its timer in every outcome), a
handler or a POST returns or times out (`WORKER_WEBHOOK_TIMEOUT_MS`, the connection's
limits), and the clock advances: weak fairness of each worker's step and of each flag of time.
Nothing is assumed of users, operators, crashes or failures, which may happen
or not. `EveryDeliverySettled` holds for a subscription that ends up active with the kill switch
off, and for a delivery that did not become owed while its event was being pruned; `EveryMailSettled` if
some worker stays alive. These conditions are part of the properties.
In `StockReservations` a transaction runs to its end unless it waits, and the deadlock detector
runs: weak fairness of `Statement(s)` and of `DetectDeadlock`, none of any request. In `MonthClose` the
fairness of `Statement(s)` is strong: PostgreSQL queues those who wait for a row, so a session is not
passed over for ever by others who take the row again and again.

In `SubscriptionCheckout` the maintenance loop (`billing-maintenance.js` re-arms its timer in every
outcome) comes round to every due session, event and subscription, and a worker is free again and
again: strong fairness of `Recover(c)`, of `Process`, of `Refresh` and of `Cancel`. A request to the
provider ends (`razorpay.js` aborts it), a checkout expires, a charge in trouble is settled one way
or the other, and a cancelled period comes to its end: that is assumed of the provider, and nothing of
any customer. That the provider ever reports a subscription again (`Renew`) is not assumed. Jobs fail at most `MaxFailures` times.

**Deadlock.** Every run says `CHECK_DEADLOCK FALSE`: with caps on what may happen
the model comes to rest when everything is settled and every cap is reached, or when all
workers that may crash have. That nothing waits for ever is stated as a liveness property
instead.

## 5. What is proved

Eight modules of theorems, checked by TLAPS, each for every value of the constants: any number
of rows, workers or sessions, any limit, and any crash, failure or lost answer the model has.
What an instance cannot show, the theorem does: that three workers, or a third report on its way, bring
nothing new.

| Module | Theorem | Says | Assumes |
|---|---|---|---|
| `JobQueueProofs` | `TypeCorrect` | `Spec => []TypeOK` | |
| | `LocksAgree` | a row has a lock and a lease exactly while processing | |
| | `FinalIsFinal` | a completed or dead row only leaves by being pruned | |
| | `HolderSettles` | `Spec => OnlyHolderSettles` | |
| | `Invariance` | `Spec => []Inv` | `~Overrun` |
| | `OneRunner` | `Spec => []SingleRunner` | `~Overrun` |
| | `ExactlyOnce` | `Spec => []TxExactlyOnce` | `~Overrun` |
| | `Refines` | `Spec => KeepsContract` | `~Overrun` |
| `WebhookOutboxProofs` | `TypeCorrect` | `Spec => []TypeOK` | |
| | `OnlyOwed` | `Spec => []OnlyOwedLeaves` | |
| | `Invariance` | `Spec => []Inv` | `~Overrun` |
| | `Refines` | `Spec => KeepsContract` | `~Overrun` |
| `WorkflowRunsProofs` | `TypeCorrect` | `Spec => []TypeOK` | |
| | `NoLoops` | `Spec => []NoChainReaction` | |
| | `OneRunEach` | `Spec => []OneRunPerEvent` | |
| | `Invariance` | `Spec => []Inv` | `~Overrun` |
| | `Refines` | `Spec => KeepsContract` | `~Overrun` |
| `MailQueueProofs` | `TypeCorrect` | `Spec => []TypeOK` | |
| | `Erased` | `Spec => []ErasedWhenDone` | |
| | `Invariance` | `Spec => []Inv` | `~Overrun` |
| | `KeepsContent` | `Spec => []OnlySentLoseContent` | `~Overrun` |
| | `Refines` | `Spec => KeepsContract` | `~Overrun` |
| `MonthCloseProofs` | `Invariance` | `Spec => []Inv` | |
| | `TypeCorrect` | `Spec => []TypeOK` | |
| | `StatementsStand` | `Spec => []SnapshotStands` | |
| | `PostingTells` | `Spec => []PostingFollowsJournal` | |
| | `NothingLeftOut` | `Spec => ClosesWithAllPosted` | |
| | `Refines` | `Spec => KeepsBooks` | |
| `SubscriptionCheckoutProofs` | `Invariance` | `Spec => []Inv` | |
| | `TypeCorrect` | `Spec => []TypeOK` | |
| | `Refines` | `Spec => KeepsPlan` | |
| `StockReservationsProofs` | `SumTakesOut` | a sum is any one element and the sum of the others | |
| | `SumOfBoth` | the sum of what is committed and of what is written is the sum of both | |
| | `Invariance` | `Spec => []Inv` | |
| | `TypeCorrect` | `Spec => []TypeOK` | |
| | `ReservedAgrees` | `Spec => []ReservedIsActive` | |
| | `LedgerAgrees` | `Spec => []BalanceIsLedger` | |
| | `TotalsFollowOrder` | `Spec => []OrderTotalsFollow` | |
| | `NeverOversold` | `Spec => []Covered`: no more is reserved at a place than there is | |
| | `OnlyEarlier` | `Spec => OnlyEarlierMoves` | |
| `StockBookProofs` | `BookInvariance` | `Spec => []BookInv` | |
| | `WithinNeeds` | `Spec => []NeedOK`: what is kept for a line that only sales touches is within its need | |
| | `Refines` | `Spec => KeepsBook` | |

All rest on the named assumption about the constants of their module (`ConstantsOK`, `BoundsOK`),
which TLC evaluates in the runs. The one other assumption is `~Overrun` (a batch is finished within its
lease, [section 2](#2-what-is-modelled)): the code aims at it and does not enforce it, without it the
statement is false, and [section 6](#6-what-the-models-show-of-the-code) says of what code.

### The four queues

*Without leases.* That nothing leaves unless it is owed, that an automation never starts another,
that an event gets one run per workflow, that a finished mail keeps no content and that a
settled job was settled by its holder do not lean on leases, and are proved without `~Overrun`.
`OnlyOwedLeaves` needs to know why a row may exist at all (`RowsCaused`: its event is
dispatched and of a registered type, and its subscription existed when the event occurred or was
named by an automation), that a dispatch keeps the events it has locked pending (`TakingPending`), that
retention takes dispatched ones only (`PruningDispatched`), and that what was sent has, or had,
a row (`OnlyRowsLeave`). `OneRunPerEvent` needs `UnfannedHasNone`: an event that is not yet fanned
out has no runs, so the version that was active at its one successful fan-out is the only one.

*With leases.* None of `SingleRunner`, `TxExactlyOnce`, `OnlySentLoseContent` or the refinements of
`DeliveryContract` is inductive: each depends on a worker that acts on a row still being its
holder. The strengthening is the same in the four modules, and differs as their code does:

* `HandsOK`: a worker has an item in hand exactly in the phases that work on one, and it is of its
  batch;
* `HolderAgrees`: every row in a batch is processing, locked by that worker, with a live lease.
  This is where `~Overrun` is used. In the job queue and the workflows there is one exception: a
  row whose completion committed without its answer and that is still in hand; among the deliveries,
  a row that was pruned from under its holder. The mail queue's
  rows name no holder, so there that a message is in one batch only (`OneHolder`) is a conjunct of
  its own, kept because a claim passes over what is under a live lease;
* what is reported as done was done: `HandledHasEffect` and `CompletedMeansRun` (jobs),
  `AcceptedReceived` (deliveries), `OpenUnapplied` (runs), `AcceptedDelivered` and `AttemptsOK` (mails).

Each conjunct is preserved by a lemma of its own, with one step per action. Of each step a lemma then
says that it changes the contract's view of one row at most, or of a batch of rows in
the same way (`OneJobMoves` and its likes); that carries the refinement.

### The months

The sessions of `MonthClose` are requests between two of their statements, so `Inv` says, statement
by statement, what a request holds and what cannot change meanwhile: where it can be (`RouteOK`),
which rows it has locked (`LocksHeld`) and that only closers lock a month while only writers share
it (`MonthsHeld`, `SharedNotHeld`); that its document is as it read it (`DocumentOK`), that its
month is in the status it was checked to have (`MonthOK`), and that what a close has counted
and read is still so when it commits (`CloserOK`: no journal open, a rejected one included, the same books;
and for a year, the same result). With
these `SnapshotStands` and `PostingFollowsJournal` are inductive, and `ClosesWithAllPosted` follows. The
heart of it is one conflict: who writes an entry into a month shares the month's row until he
commits, and a close holds that row from before its first check. `CloserOK` is therefore
preserved by every other request. For `KeepsBooks`, `ContractSteps` turns a change of one entry, or
of one month, into the step of `BooksContract` that makes it.

### The plan

In `SubscriptionCheckout` everybody acts on what he was told a while ago. `Inv` says what such
news is worth: `Told(c, status)` is what a status that was true of a subscription says about it
now (once paid it is never unpaid again; what has ended stays as it ended), and holds of every
report on its way and of every answer a job has in hand (`ReportsTold`, `AnswersTold`).
`SessionOK` is how far a checkout has come on all sides at once, `PlanAuthorised`, `ScheduleOK` and
`ToldEnds` are what the company's row may rely on. That a new report has a time (`LatestIsTime`) needs
the maximum of a set of numbers, which `LeastNatural` and `MaxOfBounded` give.

### The stock

`StockReservations` is the largest of these proofs, because its sessions write several rows before
they commit and read rows that others are about to write. `Inv` is a conjunction, per session,
of what holds between two of its statements (`SessionOK`), of facts about the rows (`AllocsOK`,
`Covered`), and of the three invariants of the run:

* `RouteOK`, `GiveOK`, `KeepOK`: where each kind of request can be; that what it takes is of the
  allocation in turn, whose row it holds, and no more than is left; that what it is about to reserve
  is positive, and is looked for only in balance rows that suit it once they are locked;
* `OwnOK`, `SumsOK`: an allocation it lists, has locked or has made belongs to its line, and nobody else
  made it; what it has written of a balance's reserved quantity is what it has written of the
  allocations of that balance, place by place;
* `OrderOK`, `TotalsOK`: sales holds the order's row, so that on a line only sales touches the
  trigger's sums are still right when they are written;
* `BalanceOK`: a quantity on hand is written by the row's holder and is what is committed plus what
  that session moved; whatever it gives away, what is free never becomes negative;
* `CheckedOK`: who passed the look for a count before there was one is among those the model
  knows to have come before it (`early`).

`Undisturbed(t)` collects what the step of one session must leave alone for the facts about
another, t, to stand: rows that t has locked, the sums over t's lines if they are sales', the
balances t has looked at. Every action is shown to preserve its own session's facts (one lemma per
conjunct) and to leave everyone else undisturbed. The trigger's total is only right on lines that are
not shared (`TotalsOK` and `OrderTotalsFollow` say `\notin Shared`): on a shared line it is false,
which is the finding of `stock_totals`.

The sums are `SumFunctionOnSet` of the community modules, a fold that takes the elements in an
order of its own choosing. `SumTakesOut` says that the order does not matter. It would be proved
by induction over the set; as the library's induction theorems cannot be used, it is proved from
a smallest counterexample, which `MinimalSubset` (every non-empty family of subsets of a
finite set has a minimal member) gives. `SumsExist` and `SumsUnique` show that the fold's own definition, which chooses a function,
has exactly one such function to choose on every finite set.

From `ConstantsOK` the proofs use that places and lines are finite and not empty, and that `Nobody`,
the value of a lock nobody holds and of a line that is not there, is no session, place or line.

For `KeepsBook` only `Commit` matters: nothing else changes what the book shows (`OthersUnseen`; a row
that is inserted, or rolled back, holds nothing yet that all can see). What a commit brings is the
sum of what many statements did, so `BookInv` adds to `Inv` the accounts each session keeps:

* `MovesOK`, `SignsOK`: a reservation only adds and a release only takes, at every place; stock leaves
  by hand at one place, or for a delivery where at least as much was kept and is given up;
* `CountOK`, `TakenOK`: what a delivery was asked for is what it still has to deliver and what has left;
  it takes of each listed allocation what is left or what is wanted, whichever is less;
* `LineOK`, `WithinOK`, `NeedOK`: all that a line of sales has is listed while more is wanted, so what
  is kept for it, with what is about to be reserved or less what is about to be given back, is within
  what it needs now and will need. This rests on the order's row, which sales hold
  (`LineStays`), and on the trigger's total, which is right there;
* `ShiftOK`: what a reallocation took from one place is what it is about to reserve at the other.

There is one lemma per kind of statement (those that only go on, `GoesOnBook`; listing, claiming,
locking and giving up an allocation, posting, reserving), and one per kind of
request for its commit: `MoveIsPosted`, `ReserveIsKept`, `ReleaseIsGivenBack`, `ReallocateIsShift`,
`CancelIsCancel`, `DeliveryIsDelivered`. The book adds up what is kept by line and by place, the code by
allocation; `SumOfGroups` (a sum is the sum of the sums of its groups) makes them agree. For
lines Inventory itself works on, `WithinOK` is false, and `StockBook` does not claim it (`Loose`).

### What is only model-checked

* Liveness (`EverySettled`, `StopCompletes`, `EveryEventDispatched`, `EveryDeliverySettled`,
  `EveryRunFinishes`, `EveryMailSettled`, `EveryRequestEnds`, `EveryMandateResolved`, `FollowsProvider`)
  is out of the prover's reach, and so is what is ENABLED.

Every other property of the passing runs is proved, the seven refinements among them.

## 6. What the models show of the code

Five runs end in a violation of what a comment of the code says; `PROJECT.json`, "findings",
quotes them.

* `workflow_sent`: an action that sends a message runs inside the run's transaction; a later
  action that throws rolls back everything but the message.
* `mail_lost`: a lost answer puts a sent message back in the queue with its content erased.
* `stock_totals`: the trigger that keeps a reservation's totals reads its sums before it waits.
* `stock_count`: a posting looks for an active count before it waits for the balance, and starting a
  count waits for no posting: counted stock moves. What remains true is proved (`OnlyEarlier`): only a
  transaction that had looked before the count began moves it.
* `months_order`: closing a month reads the earlier ones and reopening one reads the later ones, but
  each locks its own only; both can commit, and a closed month follows an open one.

Other behaviour that the models contain, or name as excluded, and that no property denies. Where
a comment of the repository says otherwise, it is quoted:

* A batch of jobs that takes longer than its lease is run again by another worker: nothing renews a
  lease, and the result of `completeJob` is not looked at inside the handler's transaction, so both
  commit (`Overrun = TRUE`; the comment at `worker.js:115-117` says otherwise).
* A job may be claimed more often than `max_attempts` when workers die with it: a reclaim counts
  an attempt but never compares it.
* The kill switch is read before the claim; deliveries claimed at that moment still leave.
* A redelivery, or a call by an automation, that commits between the prune statement's snapshot and
  its delete is lost with the event. Migration 0192 (line 38) has events pruned once none of their
  deliveries is still to be sent; the contract calls such a delivery late, and only
  those are lost.
* A pass of the web process can find nothing because it starts before the request that queued
  the message has committed, or because another request's commit consumed the flag; the message then
  waits for a worker, although the header of `outbox.js` (lines 16-17) has it sent as soon as the
  request commits.
* A run whose commit went through but whose answer was lost ends up recorded as failed.
* Inventory's reallocation asks nothing of the order line and can leave a closed line holding
  stock; such lines are `Shared` in the model and `Loose` in `StockBook`.
* Requests take locks in different orders, so some end in PostgreSQL's deadlock error; they
  roll back whole, and nothing tries them again. In Accounting these are the poster of a sale
  and the retry of its posting, and a draft that holds the number and waits for its month while the year
  is closed.
* A posting takes no lock on the month that would keep a review from starting: it may commit into
  a month in review, which the header of `period-close.js` (line 15) excludes. The close itself waits
  for it, so `SnapshotStands` holds.
* A posting that was dismissed is found again by every scan.
* A year with an open adjustment period cannot be closed: the closing entry takes the first open
  period of its date, and standard periods come first (`core.js:151`).
* A reopening that waits for the year to be closed goes on with the year's status it read before
  (`period-close.js:276-289`), and reopens a month of a closed year; lines 10-11 of the header say that
  none is.
* A checkout to be cancelled whose subscription was fetched as unpaid, then paid, and whose event
  was processed before the closing statement (`checkout.js:405`) ends as cancelled with a running
  subscription on nobody's list: it is charged, and only the report of the next charge, if it comes,
  brings it up again. `checkout.js` says that it cannot be charged (lines 11-13 and 90) and must never
  stand (line 275). `EveryMandateResolved` sets aside exactly these (`overtaken`), and holds for all
  others without a further charge.
* An event whose target was looked up before its checkout was adopted is dropped
  (`webhooks.js:275-279`), and a fetch from before a change may be applied after the event that told
  of it. The company's status is then the old one until the next refresh, a day later at most. That
  refresh is also what `FollowsProvider` rests on: it would mend what a missing watermark broke as well,
  so the property says that no order of reports is wrong for good, not that the watermark is needed.
* `finalizeCancellation` and `failCancellation` ask whether a cancellation is pending, not of which
  subscription (`subscriptions.js:214`, `225`). An answer that is written down only after that
  subscription ended, another was paid and was itself to be cancelled announces the end of the new one,
  whatever the provider says of it. The model excludes it by time: a request is aborted after
  `RAZORPAY_REQUEST_TIMEOUT_MS`. Without that (`CancelPaidSubscription` free of the other's job)
  `KeepsPlan` fails.
* A cancellation that reads `failed` may have been accepted: its answers were lost, or a retry met
  a charge in trouble. The plan then ends with the period although the company reads otherwise.
* `applyCheckoutEntityInTx` does not ask whether the session is still the one it was called for: a
  subscription that ended meanwhile can be adopted by a stale answer, and stays until the refresh.

## 7. What is not modelled

`PROJECT.json` lists every component with the reason. In short: presentation, reports and
files (no state to interleave, or an external service); authentication, access and secrets (not
a matter of business data under concurrency); arithmetic of tax, payroll, depreciation and
valuation; the document modules, whose life cycles are single transactions under a row lock
and are of interest where they meet stock and the ledger. Within modelled components: audit
rows, counters shown to operators, the order within a batch, message contents, conditions
and templates of workflows, units of measure, batches and serial numbers of stock, the
completion of counts, transfers and quality holds; amounts and accounts (of the closing entry too: it
carries over entries), acknowledged warnings, adjustment periods, corrections, several sales in one day-end transaction and the
approval request beside a journal's status; seat changes, tax invoices, immediate cancellation by support (nothing
calls it), trials and Custom contracts, the owner test and dead letters of provider events, and a user's own
"Refresh status" beside the worker's.

The hazards in `PROJECT.json` are those of the modelled parts; what can go wrong in the parts that
come next is named with them in the plan.

## 8. Plan

The order is by what the rest of the system leans on.

1. *Done*: job queue, with its contract and proofs; event outbox and webhooks; workflow runs;
   mail; stock reservations, with `StockBook`; the ledger and its months, with `BooksContract`; the
   checkout and cancellation of a plan, with `PlanContract`.
2. `Idempotency`: begin, complete and replay in the caller's transaction, two requests with one
   key, rollback and lost answers. Property: an operation takes effect at most once per key, and
   every answer for a key is the same. Abstract specification: a function from keys to answers that
   only grows. Provable for every number of requests.
3. `Configuration`: versions with start and end, scheduling and cancelling. Abstract
   specification: a timeline; property: at every instant one value is in force, and cancelling
   restores the one before. `OneRequestPerTarget` and separation of duties in `Approvals`, and
   `Numbering` (no number twice in a period, none skipped but by a rollback), are of the same size.
4. `Scheduler` over the job queue's key rule: one job per company and period, whatever
   schedulers run; what a missed day costs.
5. `Settlement`: payments and credit notes allocated to open items, within what is outstanding.
6. `PosCheckout`: lease, payment and sweep over the reservations of `StockReservations`.
7. Completion of counts and transfers in `StockReservations`.

*Theorems.* With each new module: its types, its safety properties and that it implements its
abstract specification. Beyond that, `NeedOK` for the lines of Inventory once a reallocation asks
what the order still needs; it is false of the code as it is.
