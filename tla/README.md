# Formal model of KS OS

This directory holds TLA+ modules that model the parts of the platform in
`src/` whose correctness depends on what several actors do in what order, TLC
configurations that check them on small instances, and proofs, checked by
TLAPS, of theorems for instances of every size.

## 1. The system

KS OS is a TypeScript monorepo: a booking, point-of-sale, CRM and website
platform for small businesses, run by an agency for many tenants over one
PostgreSQL database.

| Component | State | Operations | Hard behaviour |
|---|---|---|---|
| Site-job queue and worker (`apps/site-worker`, `packages/site-jobs`, `modules/sites/site-job*.ts`) | `site_jobs`, `site_job_attempts`; per process: `activeJobs`, abort signals, draining flag | enqueue, cancel, retry; claim, start, heartbeat, progress, complete, fail, cancel; recovery; shutdown | leases that lapse under a working process, takeover, READ COMMITTED claims, crashes, cancellation racing completion |
| Generation runs (`postgres-generation-executor.ts`, `site-generation.service.ts`, `packages/site-generation`) | `site_generation_runs` beside the job | begin, stages, complete, fail, cancel, retry, reconcile | two records in separate transactions, crash between them |
| Workspace provisioning (`modules/provisioning`, `unified-provisioning-executor.ts`) | provisioning runs and stages | start, advance, finalize, retry | partial failure, retry of finished stages |
| Site publication (`site-publication.service.ts`, `postgres-publication-executor.ts`) | deployments, releases, domains | publish, supersede, roll back | one live release per site |
| Quality gates, review, blueprints, knowledge, templates (`modules/sites`) | versioned documents, runs | edit, submit, approve, check | stale versions |
| Bookings and holds (`modules/bookings`, `routes/public/booking.ts`) | appointments, holds, occupied ranges | hold, release, book, reschedule, cancel | concurrent bookings of a slot, expiry of holds |
| Online payments (`webhooks/stripe`, `integrations/stripe`, `payments`) | payment attempts, payments, refunds, disputes, payouts | checkout session, webhook, refund | duplicated and reordered webhooks, external calls that survive a rollback |
| Conversations, email, SMS, push, calls | outbox rows, messages, call sessions | send, retry, delivery webhook | reordered delivery reports, retries |
| Point of sale, invoices | tenders, stock, invoices | sell, refund, reserve, pay | stock at its limit |
| Authentication, team, CRM, reporting, operations | single rows | create, change, read | little |
| Web application and public renderer (`apps/web`, `apps/sites`) | none of its own | rendering | none |

`PROJECT.json` lists every component with its status, and every hazard found at
the line where it bites. Paths below are relative to `src/`; in the table,
`modules/` and `routes/` stand for `apps/api/src/modules` and `apps/api/src/routes`.

### How the parts interact

Everything meets in PostgreSQL. No component calls another through memory: the
API, the site workers and the payment webhooks are separate request handlers
and processes that read and write the same rows, in READ COMMITTED
transactions, with row locks, advisory locks, `SKIP LOCKED` claims, unique
indexes and triggers to order them. The external systems (Stripe, mail, SMS and
voice providers, GitHub and the hosting provider) are called from inside those
handlers and call back through webhooks, late, twice, or in another order.

- The agency's API inserts, cancels and retries rows of `site_jobs`; worker
  processes poll the table, lease a row, run the handler of its type and write
  the outcome. Generation, publication, quality and provisioning are handlers
  of that queue, and each keeps a record of its own beside its job.
- Visitors hold and book slots; staff book, block, move and change the status
  of appointments; customers move and cancel their own; Stripe's webhooks
  confirm and cancel them. All four write `appointments`, and a trigger that
  every insert and update of it passes keeps the calendar consistent.
- Payments, refunds and checkout sessions exist twice: at Stripe and in the
  tables. Webhooks carry the one to the other.
- Booking services queue and withdraw emails in the transaction that changes an
  appointment; those about a booking that is confirmed as it is made are queued
  after its transaction. A worker on a timer checks them against the appointment
  and sends them.

### What makes each component correct

- **Site-job queue.** A lease, its token and its attempt row say the same thing
  at all times; a worker that lost its lease changes nothing; a job never uses
  more attempts than allowed and is never left in the queue with none; a
  cancellation is carried out and every job ends, whatever workers do; one job
  of a tenant runs at a time.
- **Generation runs, provisioning.** The run and its job end alike; a crash
  between the two commits is repaired; a stale worker cannot end a run another
  worker has taken over.
- **Publication.** A site has one live release; a publication that fails or is
  superseded leaves the earlier one live.
- **Bookings.** No two appointments share a staff member or a resource at a
  time; a hold that has not run out keeps its slot and becomes one appointment
  at most; a customer changes the appointment shown, not a later one; a status
  that is final stays.
- **Payments.** One appointment is not paid twice, and an event that comes late
  neither reopens nor pays a cancelled one; refunds never exceed the payment; the
  status of a payment never goes back, in whatever order events come.
- **Messages, calls, outbox.** A message is sent once unless something that is
  known to have happened may cost a second; what it tells the customer was true;
  delivery reports do not move a status back; nothing waits for ever.
- **Point of sale, invoices.** Stock sold is stock reserved; tenders add up to
  the total; an invoice is paid once.

## 2. Plan

| Order | Module | Stands for | State |
|---|---|---|---|
| 1 | `JobContract`, `SiteJobs` | the job queue over its abstract life cycle | done, proved |
| 2 | `Slots`, `ExclusiveCalendar`, `Bookings` | holds and appointments over an abstract calendar | done, proved |
| 3 | `PaymentLedger`, `BookingPayments` | checkout sessions, attempts and payments and their webhooks, over the appointment's status | done, proved |
| 4 | `Receivables`, `Invoices` | invoices, allocations, refunds and their webhooks | done, proved |
| 5 | `GenerationRequest`, `GenerationRuns` | the generation run, its draft and its workspace beside the job | done, proved |
| 6 | `PinnedReview`, `SiteReview` | content changes, quality audits and review cycles of a draft | done, proved |
| 7 | `EmailOutbox` | emails about an appointment, their workers, the provider's events, the owner's retries | done, proved |
| 8 | `Conversations` | SMS outbox, inbound and outbound messages of a conversation | open |
| 9 | `PointOfSale` | tenders, stock reservation, returns | open |
| 10 | `SitePublication` | deployments and the one live release of a site, once the code can reach it | open |

Each component module has an `MC` module with the constants of its runs and a
proof module, and all but `EmailOutbox` have an abstract specification of what
they promise. `SumTheorems` holds the laws of sums that the proofs share. The
components meet in shared rows, and a module that needs another's row takes the
part of it that the code reads: `BookingPayments` has the status of the
appointment that `Bookings` places on the calendar, `EmailOutbox` its status and
start, `GenerationRuns` has of the
job of `SiteJobs` who holds it and how it ended, and `SiteReview` begins with the
draft that `GenerationRuns` ends with.

## 3. The job queue: `SiteJobs`

### Correspondence

| In the module | In the code |
|---|---|
| `job[j]` | a row of `site_jobs`: status, token digest, owner, `lease_expires_at` as ticks from now, `available_at <= now()`, counters, progress |
| `attempt[j][n]` | the row of `site_job_attempts` for attempt `n` |
| `exec[j][n]` | one call of `SiteWorker.processJob`: the await it stands at, and the reason its `AbortSignal` fired |
| `active[w]`, `mode[w]`, `poll[w]` | the worker's `activeJobs` map, its draining flag, and how far `runOnce` has come |
| `claimTx[w]` | the row locked by a claim whose transaction has not committed |
| `Enqueue`, `CancelJob`, `RetryJob` | `SiteJobEnqueueService.enqueue`, `SiteJobService.cancel`, `retry` |
| `BeginPoll` … `EndPoll` | `runOnce`: two recovery statements, then claims while slots are free |
| `Start` … `FailLosesLease` | `processJob` from `start` to `complete`, `cancelLeased` or `handleFailure` and `fail` |
| `Heartbeat`, `HeartbeatFails` | `sendHeartbeat` on its interval |
| `Shutdown`, `Stop`, `PollFails`, `DatabaseError` | `shutdown`, a crash or exit, statements that fail |

An action is one transaction or one stretch of the event loop between two
awaits. The claim alone is two actions, since another process can change the
table between its snapshot and its commit; other statements on a locked row
wait (`~Locked(j)`), and `SKIP LOCKED` statements pass over it.

Tokens are random in the code; here a token is the number of the attempt it was
drawn for. A crash while a commit is being acknowledged is a commit followed by
`Stop`. Only the expiry of a lease is timed: `now()` is one instant in every
transaction but the claim, where a lease that ages right after the commit
stands for a slow one. Event rows, audit entries, failure texts and the
`available_at` order among jobs of equal priority are left out (which of them is
claimed is not determined). A heartbeat that comes while `handleFailure` awaits
changes nothing that is read again, and is left out with it. Jobs whose
`generation_run` must be reconciled on recovery
(`reconcileTerminalGenerationRun`) are the subject of `GenerationRuns`.

### Runs

| Run | Instance | Question and answer |
|---|---|---|
| `queue` | 1 job of 2 attempts, workers `w1` (may crash, drain, lose the database) and `w2`, leases of 2 ticks so that they can be renewed | row, lease, ledger, history, budget and progress agree; the picked row of a claim is current; only the call whose token is on the row renews, reports or ends the lease before it lapses; `JobContract` is implemented; a cancellation request is always carried out, even if handlers never end; while calls go on and handlers end, every job ends |
| `tenant_race` | 2 jobs of a tenant, 2 workers | **violated**: each claim's snapshot lacks the other's lease |

The bounds: what can go wrong with a job goes wrong between two calls for it,
so two workers and two attempts reach every order of takeover, late answer,
cancellation and recovery; a tick is enough to lapse, two let a heartbeat come
before the lapse. That a manual retry may raise the budget beyond what the job
was created with is left to the proofs, which hold for every budget. Jobs meet
only in the tenant rule and in the slots, so `tenant_race` has two.
Leases are the only unbounded clock and `LeaseTicks` bounds it; `AttemptLimit`
is the schema's own bound (25).

### Fairness

`FairSpec` assumes that time passes (`LeaseAges`, `BecomesDue`), that the poll
loop of a worker outside `Unreliable` goes on (its timer is re-armed after every
poll, also one that failed), and strong fairness of a claim's commit: a claim
whose locked row blocks others is not rolled back every time it is tried. Nothing
is assumed of unreliable workers, nor, for `CancellationResolves`, of handlers: a
handler may ignore its signal for ever. `JobsSettle` has in addition the premise
`CallsGoOn`, that calls go on and handlers end, since a heartbeat renews the lease
of a handler that does not. The run needs `LeaseTicks >= 2`, or no heartbeat could
ever keep a lease alive and it would show nothing.

## 4. Bookings: `Slots`, `ExclusiveCalendar`, `Bookings`

### Correspondence

| In the module | In the code |
|---|---|
| `Slot`, `Clash` | staff member, resource and occupied range; the overlap test of `enforce_appointment_occupancy` |
| `appt[a]` | a row of `appointments`: status, slot, `booking_hold_id` |
| `hold[h]` | a row of `booking_holds`; `live` is `expires_at > now()`, which the status follows late or never |
| `req[c]` | what a visitor's booking, a staff request, a webhook or a customer's page has read and not yet written |
| `Admits` | the occupancy trigger, with the hold that the transaction validated spared, and judged by its own `now()` (`past`) |
| `Available` | `calculateAvailability` for one slot |
| `CreateHold`, `ReturnHold`, `ReleaseHold`, `RunOut` | `createHold` with a new key and with a used one, `releaseHold`, the clock |
| `BeginBooking`, `CommitBooking` | `POST /:subdomain/bookings`: through `validateHoldForBooking`, and from `create_public_booking` to the commit with `consumeHold` |
| `ManualBooking`, `BlockTime`, `Unblock` | `createManualBooking`, `createBlockedTime`, `removeBlockedTime` |
| `ReadStatus`, `WriteStatus`; `ReadReschedule`, `WriteReschedule` | `updateBookingStatus`, `cancelBooking`, `rescheduleBooking`: the checks, and the repository's update of the row as it is by then |
| `PaymentSucceeds`, `SessionExpires` | the two webhooks that write `appointments` |
| `View`, `CustomerReschedule`, `CustomerCancel` | `CustomerBookingManagementService`, with the version compared under the row lock |

A transaction that takes its locks before it reads is one action; one that acts
on what it read earlier is a read, which leaves a request, and a write. Every
write passes the trigger, which takes the advisory locks of staff member and
resource and reads the calendar last, so it is indivisible.

Appointments made by the public page are named by their idempotency key, under
whose unique index and advisory lock one row can exist; a replay is answered from
that row and changes nothing. `version` is abstracted to whether the customer's
copy is `fresh`: every update of a row ends that. The checks of the code that only refuse (opening
hours, time off, notice, entitlement, limits on reschedules) are `GiveUp`: a
request may end without effect at any point. Overlap checks that look at less
than the trigger does (in `create_public_booking`, `conflictingHold`, the manual
booking) refuse nothing the trigger would let through, and are left out. One
tenant is modelled, since every statement but the sweep of holds names its
tenant. Left out: the checkout at the till (`pos.service.ts`, which gives an
appointment another idempotency key), changes of `payment_status`
(`BookingPayments` has both), and the table that replays a customer's answered request.

### Runs

| Run | Instance | Question and answer |
|---|---|---|
| `calendar` | 1 staff member, 2 starts that overlap, 2 holds, 2 appointments, a visitor, a desk request | holds and appointments implement `ExclusiveCalendar`; a live hold keeps its slot and is honoured |
| `shared_resource` | 2 staff members and a resource they share, 1 hold, 2 appointments, 2 visitors, a desk request, a customer | the resource is never used twice, also by an appointment that is reopened; a hold becomes one appointment; the customer changes what was shown |

The bounds: exclusion is a relation between two entries, so two appointments,
or one and a hold, show every clash. In `calendar` two starts are one step apart
with `Duration = Buffer = 1`, so the buffer decides; in `shared_resource` an
appointment can move to the other staff member and clash over the resource. Ids are used once and run out, so the instances stop and deadlock is
not checked. Symmetry is used in these runs only; they check safety.

No fairness is stated: nothing in the bookings is promised to happen.

## 5. Online payments: `PaymentLedger`, `BookingPayments`

### Correspondence

| In the module | In the code |
|---|---|
| `appt[a]` | status and `payment_status` of an appointment whose payment is due online |
| `session[s]` | the checkout session at Stripe |
| `attempt[s]` | its row of `stripe_payment_attempts` |
| `payment[p]` | a row of `checkout_transactions`, of a session or of a checkout at the till |
| `processed` | the events whose row says PROCESSED |
| `call[d]` | a call of the webhook route: what it has read and not yet written |
| `desk[k]` | a staff request that has read a status and not yet written one |
| `CreateSession`, `RecordSession` | `createBookingPaymentSession` up to Stripe's answer, and its row |
| `CustomerPays` … `SessionExpires` | Stripe (external) |
| `Receive`, `SeeAppointment`, `HandleFailed`, `HandleExpired`, `HandleLate`, `HandlePaid`, `Dismiss`, `Abandon` | `StripeWebhookService.processEvent`: reads without a lock, then one transaction, then the event row |
| `CustomerCancel`, `ReadStatus`, `WriteStatus` | the customer's page and the staff desk |
| `TillCheckout`, `RefundAtOnce`, `RefundReported` | `completeCheckout`, `createRefund`, the refund webhook |

A webhook call may be doubled, may come at any time after its event until one
is answered, and may die after any step. Marking the event row after the commit
is part of the action that commits, with the choice that the process dies first.
Checked in and in service count as CONFIRMED and a no-show as CANCELLED, since no
statement here tells them apart; refunds are events as far as this module goes
(`Invoices` has them step by step); the version a customer's cancellation compares
is left out, so the model allows more cancellations than the code. A session
created at Stripe whose insert fails is one that stays `created` and expires.

### Runs

| Run | Instance | Question and answer |
|---|---|---|
| `payments` | 1 appointment, 2 sessions, 1 till, 2 webhook calls at once, 1 staff request | the ledger is kept: one standing payment, recorded once, of a session that was paid; `payment_status` agrees with it; a cancelled appointment is not brought back; every outcome arrives |
| `late_payment` | the same without the till | **violated**: a payment captured after an earlier session's expiry cancelled the appointment leaves no record |

Payments of different appointments share nothing, so one is enough; two sessions
and a till are the ways to pay it twice; two calls are two deliveries of one
event or the events of two sessions.

**Fairness.** Calls end (`WF` of `Abandon`: a call does not hang for ever).
Stripe calls again until it is answered, and the calls for one session do not
fail every time at the same step: `SF` of `Receive`, `SeeAppointment` and
`Conclude` for each session. Nothing is assumed of customers, staff or banks.

## 6. Invoices and refunds: `Receivables`, `Invoices`

### Correspondence

| In the module | In the code |
|---|---|
| `invoice[i]`, `allocated[p]` | `invoices`, `invoice_payment_allocations` |
| `payment[p]`, `reversed[p]` | `checkout_transactions`, and the sum of `checkout_payment_reversals` |
| `row[r]`, `request[p]` | `stripe_refunds`, and a `createRefund` under way, which holds the payment's lock while it asks Stripe |
| `sent`, `processed`, `call[d]` | Stripe's refund events, the event rows that say PROCESSED, and the webhook calls |
| `Net`, `Paid`, `Due` | the views `invoice_allocation_balances` and `invoice_balances` |
| `Create` … `Reverse` | `InvoiceService` and `InvoicePaymentService` |
| `BeginRefund`, `AskStripe`, `EndRefund`, `LoseRefund` | `createRefund` |
| `Receive`, `Write`, `Commit`, `Ignore`, `Abandon` | the webhook's refund events |

The invoice operations lock the invoice and then the payment before they read, and
triggers repeat their checks, so each is one action. The webhook reads without a
lock, writes and commits; between write and commit `MayLock` and `MayRefer` say
who waits: `FOR UPDATE` of the payment waits for a new row that refers to it, and
the refund trigger takes `FOR UPDATE` only when the payment is allocated. A
refund row without Stripe's id is in no sum and counts as absent. Stripe (external)
creates a refund PENDING or SUCCEEDED, settles a pending one, and gives back
no more than it captured. Idempotency keys name the payments, so a key used again
changes nothing; payments are recorded before their refunds.

### Runs

| Run | Instance | Question and answer |
|---|---|---|
| `invoices` | 1 invoice, 1 payment online and 1 offline, 2 refunds that together cover the payment, 2 webhook calls | the money held for an invoice is within its total and none is held for a void one; REFUNDED means that everything was given back; `Receivables` is implemented; a refund Stripe made reaches the books |
| `overpaid_race` | the same with two totals | **violated**: a refund event that arrives late sets a refund back to PENDING, and the invoice reports more paid than its total |

Invoices share nothing but payments, and a payment belongs to one invoice at most,
so one invoice shows what there is. `HeldWithinTotal` counts the money that
moved; `NoOverpayment` counts what the rows say, which is where the race shows.

**Fairness.** Requests and calls end (`WF` of `LoseRefund` and `Abandon`); Stripe
repeats an event until it is answered and the calls for a refund do not all fail:
while events of it wait again and again (`Awaited`), a call for it commits.

## 7. Generation: `GenerationRequest`, `GenerationRuns`

### Correspondence

| In the module | In the code |
|---|---|
| `job` | the row of `site_jobs`: who holds it (`used` is the attempt), how it ended; queued, delayed and scheduled are PENDING, dead-lettered is FAILED |
| `run`, `version`, `pages` | `site_generation_runs.status`, the draft's generation status, the completed page runs |
| `workspace` | the provisioning run that waits for the site |
| `exec[a]` | attempt `a`'s execution of the handler: the next of its transactions |
| `request[q]` | an API call between its two transactions |
| `BeginRun` … `Finalize` | `generateSite`: `beginRun`, `updateProgress`, `persistPage`, `completeRun`, `finalizeProvisionedWorkspace` |
| `Stop`, `FailRun`, `FailWorkspace` | the abort or error, `failGenerationRun`, `failProvisionedWorkspace` |
| `Report…` | `complete`, `cancelLeased`, `fail` of the queue, the last with `reconcileTerminalGenerationRun` |
| `DeadLetter`, `CancelExpired` | the two recovery statements |
| `CancelJob` and `CancelRun`; `RetryRead` and `RetryWrite`; `RetryJob`; `Look` | `cancel`, `retry`, the job's own `retry`, `reconcileTerminalGenerationRuns` |

Two executions may run at once: the lease is asked for only by `updateProgress`
and by the reports, so a stale attempt writes pages, completes or fails the run
until it notices. The triggers' table of transitions (`MayBecome`) is what keeps
those writes apart. Several updates of a status in one transaction are one. A
lease that expired and was not yet claimed, and a shutdown, are `Crash`.

### Run

`generation`: 2 pages, 2 attempts and a 3rd by manual retry, one API call at a
time. A completed job has a completed run with every page; run and draft never
disagree about completion; a READY workspace has a reviewable draft; a job that
fails takes its run along in the same step; the run implements
`GenerationRequest` (a site is delivered once, whole, and stays); and no run is left
working for ever beside a job that goes on. Three attempts are a live one, a stale
one, and one that a retry starts while both exist.

**Fairness.** A worker polls (`WF` of `Poll`, which lets a lease expire only when
its holder is gone), an execution goes on (`WF` of `Execute`; it may also fail or
crash), a call that has begun ends. Nobody need look, cancel or retry.

## 8. Review of a draft: `PinnedReview`, `SiteReview`

### Correspondence

| In the module | In the code |
|---|---|
| `version`, `genRun` | status, generation status and content digest of the draft; status and output digest of its run |
| `cycles` | `site_review_cycles` of the draft, by revision |
| `audit[q]` | `PostgresQualityExecutor`, between loading the draft and its end |
| `call[c]` | an API call: what it has read; `commit` is a change of the content that has locked the version and not committed |
| `Accepts`, `Moves` | the triggers `ks_validate_site_review_cycle` and `ks_validate_site_review_transition` |
| `StudioRead`, `StudioWrite`, `StudioCommit` | `persistDesignChange` |
| `PageRead`, `PageWrite`, `PageCommit` | `updatePage` and the operations that share its rules |
| `AuditBegin`, `Promote`, `Finalize`, `AuditStops` | `loadRun`, the promotion in `finaliseRun`, `finalizeProvisionedWorkspace`, every other end |
| `OpenRead`/`OpenWrite`, `PolicyRead`/`PolicyWrite`, `MoveRead`/`MoveWrite` | `createCycle`, `updateCycle`, `transition` with the agency's and the client's decisions |

The services read, check and then write in transactions of their own, and compare
no digest; the triggers see the row and the version as they are by then. Contents
are numbered in the order they are made. The facts, comments, change requests
and participants a decision also asks for are taken to be in order, and the reads
of a cycle and of its readiness are one. A design's reapplication after
generation is taken as done. A unique index makes concurrent creations of one
revision serial. The regeneration that a review can ask for is left out: its
transaction writes the draft's digest before it supersedes the review, which the
trigger refuses.

### Runs

| Run | Instance | Question and answer |
|---|---|---|
| `review` | 2 API calls and an audit at once, 2 contents, 2 review cycles | every decision falls while the draft has the content the review pins; an approval finds the draft as it must be although it was asked for earlier; `PinnedReview` is implemented: pinned once, the client before the agency wherever the client must agree, one review open |
| `stale_audit` | 1 call, 1 audit, 2 contents | **violated**: a page saved during an audit is promoted on the evidence about the content before it |

Two calls make every race of a decision with a change or another decision; two
contents are one that is pinned and one that is not; the second cycle is the one
that supersedes. Of the three ways to close a review the calls ask for SUPERSEDED,
which is open from every status; the proofs have all three (`Targets`). Two audits of one draft differ from one after the other only in
who promotes, which the update's condition decides. No fairness is stated:
people need not decide.

## 9. Emails: `EmailOutbox`

### Correspondence

| In the module | In the code |
|---|---|
| `outbox[e]` | a row of `email_outbox`; `e` is its idempotency key, `time` the start its text states, `known` that `provider_message_id` is stored |
| `appointment` | status and start of the appointment, read by the check before a send |
| `notifying` | the emails that `notifyPublicBookingConfirmed`, run outside a transaction, has yet to queue |
| `issues`, `suppressed` | the open `operations_issues` of these emails; whose address, the customer's or the staff's, has a row in `email_suppressions` |
| `work[w]` | what one iteration of `processOutbox` holds in memory: the row it claimed, `attempt_count` as it was then, the next step |
| `operator` | an owner's retry between reading the issue and queueing the row |
| `sends`, `excuses` | history: the requests the provider accepted, and what happened that may cost one more |
| `UpdateBookingStatus`, `CancelBooking`, `RescheduleBooking`, `CustomerReschedule` | the booking services' transactions, with the emails they queue (`Queued`) and withdraw (`Withdrawn`) |
| `NotifyConfirmed` | the emails of a booking that staff made (`booking.service.ts:299`) or a visitor who need not pay (`routes/public/booking.ts:428`), queued after its transaction |
| `Recover`, `Claim`, `CheckAppointment`, `CheckStatus`, `Send`, `RecordSent`, `RecordFailure`, `Report` | `processOutbox`, statement by statement |
| `Throw`, `Crash` | an error before the send, and the end of the process at any point |
| `ReceiveEvent` | the provider's webhook, with the table of priorities |
| `ReadIssue`, `RetryIssue`, `CloseIssue` | `OperationsService` |

Emails are named by their keys, since the key decides whether a second enqueue
writes a row: a staff reschedule's is the new start, a customer's the change. The
worker's check compares the start only where the template data carries it as an
ISO time (`email-safety.ts:451`), so the emails that need a confirmed appointment
are of two kinds. What goes to the customer carries it (`Dated`): one reminder
stands for the confirmation and the reminders, one email for those of each
reschedule, as the hours before the start differ in nothing that is modelled. The
notices to the owner and the staff member, `business-booking-confirmed` and
`business-booking-rescheduled:`, carry it as text only (`Noted`, `NotedMove`).
Both are withdrawn by a reschedule. The keys of a cancellation, the customer's and
the staff's, are one: the start of a cancelled appointment does not change.

After a booking made in one go its emails are queued outside its transaction, with
the start that was read then. `Init` begins with that read; a reschedule between
the booking and the read is left out, since all that follows uses the new start.
`EmailService.retryDeadLetter` is not modelled: nothing but a test calls it. A
batch of n rows is n workers that claimed together. No
clock is modelled: a row may be due, a lease may have lapsed and an appointment
may have begun whenever the code looks. That the provider drops a repeated
idempotency key is not relied on: `sends` counts requests. An event that comes
twice, too late, or before the message id is stored changes nothing and is no
action. The services' transactions are single actions; their races are those of
`Bookings`.

### Run

`outbox`: 2 workers, two starts, one customer change, any number of reschedules, 2
faults, 2 attempts, and one of the eight emails at a time, chosen by which is
queued first. What is sent stood since its worker claimed it, at its start where
it carries one, and a notice to staff while the appointment was confirmed; that
such a notice states the current start is not claimed and not so (section 11). The
provider is asked once for an
email and once more only for a named cause; an outcome is replaced only by the
provider, by the owner or by a worker that already held the row; and
nothing waits for ever.

Emails meet only in the workers, in the suppression and in the appointment, so
one is followed at a time; `MaxEmails` counts one that is about to be queued after
its booking as well. A worker that lost its row and one that took it are
the two workers; two faults are a lapse and a lost answer, or a retry after
either; reschedules go away and come back as often as they like. The appointment may end and every
row be settled, so deadlock is not checked.

**Fairness.** `scripts/workers/run-communications-cycle.mjs` runs the worker on a
timer: while rows can be recovered or claimed some are (`WF` of `Recover` and of
`Claim`, over all emails together), and a claimed email is worked off (`WF` of `Proceed`) unless its
process dies, which `MaxFaults` bounds. The script calls the automation and
report workers first and stops at the first call that fails, so the assumption
includes that these do not fail for ever. Nothing is assumed of the provider's
events, the owner, staff or customers.

## 10. Proofs

The theorems hold for every value of the constants under their named
assumptions and no others: `ConstantsAssumption` (`SiteJobs`),
`SlotsAssumption` and `ActorsAssumption` (bookings), `PaymentsAssumption`,
`InvoicesAssumption`, `GenerationAssumption`, `ReviewAssumption`,
`OutboxAssumption`, which say that null markers are not members of the sets they
extend, that actors of different kinds differ, and that limits are numbers within
the schema's bounds. `InvoicesAssumption` adds that amounts are positive and that
payments and refunds are finitely many, as rows are: otherwise a sum over them
says nothing. Each is evaluated by the runs.

**`SiteJobsProof`.** Many actions have few effects: whatever happens, the row and
ledger of one job change in one of thirteen ways, `RowStep`. `NextIsRowStep`
shows that each step of the system is a `RowStep` of every job;
`RowStepKeepsRow` that a `RowStep` keeps a consistent row consistent; and
`RowStepKeepsContract` that it is a step of `JobContract`. The inductive invariant
is `TypeOK /\ RowsOK /\ ClaimSeesCurrentRow`. The second conjunct collects what the
runs check of a row, strengthened by `RowNew` (a row not inserted has no
attempts and no progress); the third cannot be left out, as a claim commits
what it picked earlier and the ledger is kept only if the row is still that
one. From it: `TypeCorrect`, `QueueConsistent` (lease, ledger and history),
`AttemptsStartAfresh` (budget and progress), `ClaimsAreCurrent`,
`QueueImplementsContract`, and `TokensFence`, the action property, which needs in
addition that the holder of a token is the latest attempt.

`tenant_race` shows that two claims of one tenant may overlap;
`SerialClaimsKeepTenantsApart` shows that nothing else breaks the tenant rule: as
long as one claim at a time is between its snapshot and its commit, two jobs of a
tenant never run at once, whatever crashes, lapses and retries do. Of the thirteen
row steps only a claim gives a row a live lease, and no other step counts an
attempt (`RowStepGivesLease`, `AttemptsCountClaims`), so what a claim's snapshot
saw of the tenant still holds when it commits (`ClaimsFindTenantIdle`). The
premise is a property of the deployment, and one worker process meets it:
`OneWorkerKeepsTenantsApart`. TLC checked the same with one worker.

**`BookingsProof`.** The steps have five kinds of effect: on a hold, on a
request, the commit of a booking, a row inserted, a row changed
(`StepHasEffect`). Each keeps the inductive invariant `IInv`, which says of the
requests in flight what they rely on: what each has read is of rows that exist,
a validated hold is for the slot and not used by an appointment, bookings in
flight differ in key and hold (`BookingsApart`), and the hold of an appointment
is spent (`HoldsSpent`). Without the last two, `OneAppointmentPerHold` is not
inductive. Each effect is a step of `ExclusiveCalendar` or none
(`BookingsImplementCalendar`). That the calendar is exclusive is then proved
once, of the abstract steps (`CalendarStaysExclusive`), and gives
`NeverDoubleBooked` and `HeldSlotsKept` without another look at the code's
actions. `HoldsKeepTheirPromise` joins the latter with `HoldsHonoured`, which needs one more invariant, `HoldsMakeWay`: a hold that ran
out after a booking began still counts for its trigger, so the proof must show
that such a hold never clashed with the one it validated.
`CustomersChangeWhatTheySaw` rests on the conjunct of `IInv` for views that are
`fresh`, and `TypeCorrect` is a conjunct of it.

**`BookingPaymentsProof`.** Four actions write payments (`HandlePaid`,
`TillCheckout`, `RefundAtOnce`, `RefundReported`); of all others one lemma says that
they are quiet: no payment and no `payment_status` changes, no session that was
paid changes. The strengthening is that a PENDING appointment is unpaid
(`PendingIsUnpaid`): the webhook asks for PENDING and never looks at the
payments, so without it `OnePaymentPerAppointment` is not inductive. Staff who
write a status read earlier keep it, since the desk never writes PENDING.
`BooksAlwaysAgree` joins what the invariant says of sessions and of the flag.
`CapturesLeaveATrace` says what does hold where `late_payment` fails: a captured
session whose event is done with is on the books or its attempt is CANCELLED, so
that money nobody expects can be found. It needs that an attempt closed as FAILED
or EXPIRED is of a session that ended so, which no second call, cancellation or
abandoned call undoes (`Traced`).

**`SumTheorems`.** `SumFunctionOnSet` of the community modules is a recursive
function that takes its elements in an unknown order. The library's induction
theorem for finite sets takes an operator and cannot be used, so `SubsetInduction`
states induction over the subsets of a finite set with a set of subsets in place
of a predicate, and rests on the library's theorem that strict inclusion is
well founded. With it the recursion has one solution (`SolutionExists`,
`SolutionsAgree`), and the laws follow: `SumAdd`, `SumRemove`, `SumPointwise`,
`SumSubset`, `SumOneChanges`.

**`InvoicesProof`.** Staff look at rows and never at the money, and events that
come late or out of order make rows fall behind or go back. The inductive
invariant ties the two: Stripe gives back no more than it captured, counting what
it still may (`StripeIsHonest`); a row says only what Stripe once said
(`RowsAreTrue`); what a request has summed up under the payment's lock, and what a
call found fully refunded, was given back (`RequestsAreTrue`, `CallsAreTrue`). So
the rows of a payment never show less than what is left of it (`NetCoversKept`),
and an allocation that the rows allow the money allows too (`PaidCoversHeld`).
A step changes the books of an invoice in one of four ways, `Effect`: not at all,
its document is written, it takes a payment, part of a payment is given back.
Each action is shown to be one of them and to keep the truth; each of the four
keeps the order of the books (`EffectKeepsOrder`) and is a step of `Receivables`
(`EffectRefines`). From it: `MoneyAlwaysAccounted`, `InvoicesImplementReceivables`,
and `OverpaidOnlyWhileBehind`, the counterpart of `overpaid_race`: an invoice
reports more than its total only while the row of a refund that succeeded is
behind what Stripe said, and no order of requests brings it about alone.

**`GenerationRunsProof`.** The steps but `CompleteRun` are settled: a run that is
complete, its draft and its pages stay as they are. The inductive
invariant is that what an execution has seen is written (`SeenIsWritten`), that
one about to validate, finalize or report success has every page and, from
`finalize` on, a completed run (`Finishing`), that a complete run has all pages
and its draft's status (`Delivered`), and that a failed or cancelled run has
stopped its draft unless a call is on its way (`StoppedTogether`).
`LifecyclesAgree`, `CompletedJobHasSite` and `ReadyIsReviewable` follow;
`FailureIsCarried` is proved of each step that fails a job, and
`RunImplementsRequest` maps the completion to the delivery and all else to
pages, retries and stops.

**`SiteReviewProof`.** The services compare no digest, so the proof is about what
makes the triggers enough: every content is newer than all that is pinned
(`PinnedPast`), because the version has one writer at a time (`OneWriter`). A
call therefore either finds the draft as it read it or is refused, which is
`ReadyKept`: where the pinned content still is the draft's, a move whose
readiness was evaluated finds it in order. `InFlight` says that a call is about
a review that exists, so that the first review, which the audit opens, finds no
call under way. A step changes the content or, in one of three ways, the
reviews (`EveryStep`); `DecisionsArePinned` and `ApprovalsAreReady` follow by
cases of those ways, and `CyclesImplementReview` maps them to the steps of
`PinnedReview`.

**`EmailOutboxProof`.** No row has a lock or a token, so nothing in the state
says directly that an email is not sent twice. The invariant is a balance,
`Accounted`: the requests made for an email, the workers that may still ask for
it and the row if it may still be claimed are together at most one more than its
excuses. Each step that adds to one side adds to the other or takes from the
same: a claim turns the row into a worker, a send the worker into a request, and
a recovery that finds the worker alive is an excuse. It needs a lemma on the
number of workers that hold an email when one of them changes. `WorkOK` says that a
worker past its check held an email that the appointment warranted, as far as the
check looks: the start of a notice to staff is outside `OnlyWarrantedSent` too.
`NeverRepeatedUnprovoked`, `OnlyWarrantedSent` and `OutcomesStand` follow.

**Model-checked only.** Liveness under fairness and ENABLED are beyond this
prover: `CancellationResolves`, `JobsSettle`, `OutcomeArrives`,
`RefundReachesTheBooks`, `RunComesToRest`, `EmailsSettle`. Every invariant, action
property and refinement of the passing runs is a theorem. The properties of the
runs that expect a violation are not theorems, as the code does not have them;
three of them have a theorem about what the code does promise instead
(`SerialClaimsKeepTenantsApart`, `CapturesLeaveATrace`, `OverpaidOnlyWhileBehind`).

## 11. Where the code and its documents disagree

Four are runs with `expect` = `violation` and a finding in `PROJECT.json` that
quotes the line.

1. `tenant_race`: "one active job per tenant" holds of one worker process, not of two.
2. `late_payment`: a payment captured after expiration is neither re-booked nor
   refunded, nor on record.
3. `overpaid_race`: an invoice can report more paid than its total.
4. `stale_audit`: browser evidence counts for content saved after it was gathered.

Seen while modelling, without a run of their own:

- Queue. A shutdown during a poll does not stop that poll's leasing
  (`worker.ts:85`; the phase document has "1. stop leasing"). A worker may run one
  call more than it has slots after it reclaims its own job (`worker.ts:171`).
  `docs/phase-15-6a-site-worker-foundation.md` requires an unexpired lease of
  every processing mutation, and `fail`, `cancelLeased` and the cancel branch of
  `complete` do not look at `lease_expires_at`; the token fences all the same.
- Bookings. A status checked before the row is locked reopens a cancelled
  appointment (`booking.service.ts:578`; `booking.policies.ts`: terminal states are
  not reopened); the trigger still keeps it off a slot given away
  (`NoDoubleBooking`). A hold released after it was validated stays RELEASED though
  its appointment is made (`slot-holds-and-conflicts.md`: the transaction consumes
  the hold); it is still used once (`HoldsBookedOnce`).
- Payments. A second delivery at the same time sets an attempt from SUCCEEDED to
  CANCELLED (`docs/phase-5-3-online-payments-report.md:9`). An old session's expiry
  cancels an appointment that was paid meanwhile. Staff who confirm a PENDING
  booking make its later online payment a late one. `createRefund` never sets the
  appointment's `payment_status`. A session whose insert fails leaves a PENDING
  appointment that no expiry ends, and `async_payment_failed` leaves one as well. A
  card payment captured for an appointment that another till completed is refused
  after the money was taken (`pos.service.ts:210`).
- Invoices. Two partial refunds of an unallocated payment that race never mark it
  REFUNDED. A refund that timed out and is retried under a new key can be made
  twice. A dashboard refund of a payment not yet recorded is dropped as PROCESSED
  (`stripe-webhook.service.ts:239`). A cancelled refund stays PENDING for ever.
- Generation. A lease lost to another attempt marks the run CANCELLED though
  nobody cancelled it (`draft-first-orchestrator.ts:655`), or fails it under the
  live attempt. A crash between completing the run and finalizing leaves a
  workspace that is never READY. `failProvisionedWorkspace` writes whatever the
  provisioning run has become.
- Review. A studio edit with a review of any status is always refused by the
  trigger, though `docs/website-generation-v2.md:71` says that it reopens the
  review; a page saved under an open review is refused as well. A review created
  while a content change commits pins a digest that nothing can move any more. A
  provisioned or edited draft has status INTERNAL_REVIEW while a decision needs
  DRAFT. A crash between the promotion and the finalization is never made good.
  `updateCycle` may change the policy of a review that has left DRAFT
  (`site-review.service.ts:872`). `revokeWaiver` does not refresh the gate.
- Emails. A notice to staff carries no ISO start (`booking.service.ts:530-543`,
  `746-756`), so the check before the send does not compare it
  (`email-safety.ts:485`): one that is queued after its booking when the
  appointment has been moved already, or that failed, outlived the withdrawal and
  is retried by the owner, is sent with the old start. Two tests say in their
  titles that such an email is cancelled: "worker cancels stale or superseded
  appointment emails before sending" (`automated-email-lifecycle.test.ts:72`) and
  "appointment messages are cancelled when stale, superseded or inconsistent"
  (`email-safety.test.ts:144`); they look at emails that carry the start. A PENDING booking that is moved and then confirmed has two reminders
  for one start, under two keys. An appointment that staff move back to a start
  it had before gets no reminder: the key is taken by the row that was withdrawn
  (`booking.service.ts:760`). An event that comes before the message id is stored
  is marked processed and lost. A row claimed again after DELAYED is set to SENT,
  whatever the provider reported meanwhile. The address is compared with the
  suppressions when an email is queued and not before it is sent, for emails
  about appointments. A dead letter and its issue are two statements, and a crash
  between them leaves no issue. The SMS worker claims only PENDING rows and has
  no recovery, so a crash leaves a row PROCESSING (`sms.service.ts:32`), and it
  writes the outcome over a row that was withdrawn meanwhile.

## 12. Not modelled

- Publication: `publication-preconditions.ts:42` and the executor require a site
  version that is APPROVED or PUBLISHED. Nothing in this commit writes the first,
  and only a publication writes the second, so none gets past its preconditions.
- The SMS outbox, conversations and inbound email; point of sale and stock: the
  plan above, in its order.
- Calls, meetings and push: sessions mirrored from a voice provider, and
  notifications that may be lost.
- Provisioning before the site is generated: stages of single statements over
  their own rows, run by the queue.
- Blueprints, knowledge packs, templates and the design library: documents edited
  under a version check in a single statement.
- What a quality check, a generation stage or a template computes: analysis and
  production of page content. Waivers and the publication gate.
- Disputes, payouts and account events of Stripe: rows that mirror one event each.
- Authentication, team, CRM, reporting, automations: single-row writes and reads.
- The web application and the public renderer hold no state of the system.
- Deadlocks among PostgreSQL's own locks and the limit of the connection pool:
  the transactions of the models take their locks at once; a deadlock that
  PostgreSQL breaks is a call that is abandoned.
