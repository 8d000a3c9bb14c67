# Verification of hermes-proxy

hermes-proxy is a gateway in front of AI model providers: users buy balance or
subscriptions, call an OpenAI- or Anthropic-shaped API with their keys, and the
gateway chooses an upstream account, forwards the request and bills it. It runs as
several identical server processes over one PostgreSQL database and one Redis.
This directory holds TLA+ models of the parts in which those processes can get in
each other's way, their TLC runs, and machine-checked proofs. Paths are relative
to `src/backend/internal/`.

## 1. Inventory

| Part | State | Operations | Hard behaviour | What makes it correct |
|---|---|---|---|---|
| Payment orders (`service/payment_order*.go`) | `payment_orders` row: status, paid_at, trade number, updated_at | create, cancel, expire sweep, verify | none of these is a transaction; gateway calls lie between reads and writes | a payment is never lost, limits hold |
| Fulfilment (`service/payment_fulfillment.go`, webhook handler) | the status as a lock, audit rows as memory | notify, confirm, take, deliver, rebate, complete, fail, retry | duplicate notifications, retries after half a delivery, crashes | paid orders delivered exactly once |
| Redeem codes (`service/redeem_service.go`) | code row, Redis lock with TTL | create, redeem | expired lock, error after commit | a code credits once |
| Refunds (`service/payment_refund.go`) | status, balance, audit rows, the gateway's refund | request, prepare, execute, finalise | rollback that fails, lost answers, pending refunds | balance and gateway agree at rest |
| Affiliate ledger | rebate rows, frozen and available sums | accrue, thaw, transfer | thaw against transfer | no rebate is lost or doubled |
| Idempotent requests (`service/idempotency.go`) | a record per key: status, lock, expiry | execute, reclaim, clean up; system-operation lock with renewal | owner outlives its lock, cleanup under way | one execution per key |
| Batch image jobs (`service/batch_image_*.go`) | job row: status, provider name, retries, cost, deletion mark | submit, cancel, poll, index, settle, recover, delete | Submit against Cancel and recovery, settlement retries, lost commits | status, money and the provider's job agree |
| Balance hold (`repository/usage_billing_repo.go`) | balance, frozen balance, claims | reserve, capture, release | three claims that do not exclude each other | every hold is captured or released, once |
| Batch image queue and workers (`repository/batch_image_queue.go`, `service/batch_image_worker.go`) | ready list, delayed and active sets, inflight and lock keys | enqueue, reserve, requeue, acknowledge, mover, recovery of stale jobs | workers that die, keys that expire | an accepted job is processed to its end |
| Usage billing | dedup rows and archive, balances, quota cache | apply, flush | archive moves, dirty set lost | every request billed once |
| Concurrency slots | Redis sorted sets, wait counters, message queue locks | acquire, release, expire, restart cleanup | expiry of a slot in use, cleanup by another instance | never more holders than slots |
| Scheduler snapshot | outbox rows, watermark, cached buckets | enqueue, poll, rebuild | commit order against id order, rebuild against update | the cache catches up with the database |
| OAuth token refresh (`service/oauth_refresh_api.go`, `token_refresh_service.go`, `admin_account.go`) | credentials and status of the account row, local mutex, Redis lock | refresh in request, in background and by hand, edit, re-authorise | single-use refresh tokens, lock expiry, lost answers, whole-row writes | a usable token is in the row or on its way to it |
| OpenAI WebSocket pool | connections, leases, waiters | acquire, release, prewarm, evict | waiters against eviction | no connection leased twice |
| API-key auth cache, subscriptions | two cache levels, invalidation messages | read, update | stale cache entries | changes become visible |
| Request path, background services, administration | account records, tickers, single rows | | | see section 8 |

Every instance runs a batch image worker, a mover of delayed jobs, two recoveries and
a token refresh loop; they meet each other, and the requests of clients and
administrators, in the job and account rows and under Redis locks with a lifetime.
Payments call redeem codes (an order's balance is a code), subscriptions and the
affiliate ledger directly in-process; all of them meet the rest of the system only
in the database: the balance that payments credit and refunds deduct is the one
usage billing spends and batch images freeze. Handlers never call one another
across processes; they interact by reading rows that another handler wrote, and
through Redis keys. `PROJECT.json` lists, under `hazards`, where that goes wrong.

## 2. Modules

| Module | Models |
|---|---|
| `PaymentFulfillment` | orders, fulfilment and the redemption of their codes |
| `DeliveryContract` | what the payment service promises: only paid orders are delivered, each once |
| `PaymentRefund` | refunds of completed balance and subscription orders |
| `IdempotencyStore` | the idempotency record of one key and the statements on it |
| `Idempotency` | concurrent requests with that key; uses `IdempotencyStore` |
| `SystemOperationLock` | the lock of update, rollback and restart; uses `IdempotencyStore` |
| `BatchImageHold` | reserve, capture and release of a user's frozen balance, with their claims |
| `BatchImageJobs` | the life of batch image jobs: client, workers, recovery; uses `BatchImageHold` |
| `BatchImageQueue` | the Redis queue, the job lock and the worker loop |
| `WorkQueueContract` | what the callers of that queue rely on |
| `TokenRefresh` | the refresh of one OAuth account |
| `MC<module>` | the instance of a module for TLC: symmetry, where it is sound |
| `PaymentFulfillmentProofs` | the inductive invariant and the theorems from it; subscription days and the refinement of `DeliveryContract`; who works on RECHARGING orders |
| `PaymentRefundProofs` | the lock, the gateway's and the deductions' part of the refund invariant |
| `IdempotencyProofs` | answers, effects and owners of idempotent requests |
| `SystemOperationLockProofs` | exclusion and the lease of system operations |
| `BatchImageJobsProofs` | the inductive invariant of batch image jobs and the theorems from it |
| `BatchImageHoldProofs` | frozen balance, finality of completed jobs, the provider's jobs; what the history variables except |
| `BatchImageQueueProofs` | the queue's invariant and the refinement of `WorkQueueContract` |
| `TokenRefreshProofs` | the invariant of the token refresh; what holds without faults and edits |

### PaymentFulfillment

A *handler* is a request, a webhook or a sweep's turn at one order. It has a
program counter `pc` naming its next call, the operation `op` that decides what
happens at the end, the order `job` and one local result `flag` (the trade number
it read; whether the redemption succeeded). One action is one statement, Redis
command or gateway call, together with the local code around it; between any two of
them the other handlers move. Definitions carry the names of the functions they
translate. Every call can fail if its kind is in `Faults`, and an error takes the
path the code gives it, the swallowed errors included.

| Variables | In the code |
|---|---|
| `status`, `paidAt`, `tradeNo`, `age` | columns of `payment_orders`; `age` is `updated_at` of an expired order against the grace period: recent, old, or old and renewed by an update |
| `gateway`, `acked` | the gateway's view of the payment (none, open, closed, paid, mismatch) and whether its notification was answered with success |
| `code`, `lock` | the order's row in `redeem_codes`, the key `redeem:lock:<code>` |
| `credited`, `assigned`, `rebate`, `redeemRebate` | how often the balance, the days and the rebates were granted (`assigned`: never, once, more often) |
| `audit` | the audit rows that the code reads back |
| `unrecorded` | history: orders whose days were added while no audit row says so |

Abstractions, each with its reason:

* The amount, currency and merchant of a payment either match the order's snapshot
  or do not (`mismatch`); the code compares them with columns no handler changes
  (`pay_amount` is overwritten only within the tolerance), so the comparison and
  toPaid's compare-and-set are one step.
* The user can pay once the payment details were returned to him. An order whose
  creation failed was never shown to anyone.
* Every order's user has an inviter and rebates are enabled; without either the
  rebate step does nothing.
* `AssignOrExtendSubscription` is one call with three outcomes: it adds the days, fails
  before its write, or fails after it (the fault `after`: the re-read at
  `service/subscription_service.go:274` and `:423`, a lost commit at `:354`). `doSub` takes
  both errors for a failure and writes no `SUBSCRIPTION_ASSIGNED`. An assignment with no
  record puts its order into `unrecorded`, whichever of the two statements failed.
* A single update of the order (take-over, markCompleted, toPaid) that reports an error
  did not happen. Had it happened, markFailed would not touch the row (it accepts only
  RECHARGING ones), and a take-over or toPaid would leave it as a crash does.
* A pure read whose test the next compare-and-set repeats is one step with the
  start of the handler.
* The refund statuses are in `PaymentRefund`. Here an order stays COMPLETED;
  fulfilment refuses refund statuses and alreadyProcessed answers them with
  success, exactly as it treats COMPLETED.
* Rate limits only refuse; they are folded into the refusal of the lock.

### PaymentRefund

A handler is a record `h[p]`: next call, order, the status the plan read (`from`),
the amount, what it still has to take or give back (`take`) and `ok`, which says
which of the two rollbacks it is in. The gateway settles, refuses or postpones a
refund within what was paid (`settled`, `pending`); it may recognise a request it
has already executed, and its answer may be lost. `taken` is a history variable:
what the refunds of an order took from the balance or the subscription, net. Audit
rows are unique per order and action (`migrations/131_*.sql`), so later rows of an
action are dropped; `pendingOK` is the field of the one REFUND_PENDING row that
finalisation reads.

A subscription order (`orderType`) takes all its days back, whatever the amount:
`days` is what its subscription has left, in units of which the order bought `Amount`;
0 is expired and -1 revoked. A deduction that would end the subscription revokes it,
and what is revoked cannot be given back, so a rollback fails there without any call
failing. The plan may come from the cache and name a subscription that has ended. The
reading and writing of `ExtendSubscription` are one step: two calls for one order
exclude each other by REFUNDING, and purchases that extend the same subscription are
outside the model. `force` is the choice between refusing and taking nothing when the
user or the subscription is not found.

### IdempotencyStore, Idempotency and SystemOperationLock

`IdempotencyStore` holds the row of `idempotency_records` for one scope and key as
variables, one per column that a WHERE clause or a reader looks at, with one operator
per statement of `repository/idempotency_repo.go`. Time is explicit: `now`, and the
times in the row. `locked_until` NULL is time 0, which the two readers treat alike. A
deleted row's id is not used again, as with the table's sequence.

`Idempotency` is `IdempotencyCoordinator.Execute` (`service/idempotency.go`): a request
reads the clock once (`local.start`, from which its lock and expiry times follow), then
inserts, reads, reclaims, executes and marks, one action each. `payload` is the
request's fingerprint, `answer` the fingerprint whose result is stored, so that a
replayed result can be told from a foreign one. `effects`, `done`, `claims` and
`outlived` are history variables. A statement's error (`"store"`) may reach the request
although the statement was applied. Requests without a key are not protected by
anything and not modelled.

`SystemOperationLock` (`service/system_operation_lock_service.go`) uses the same row as
a lease: the fingerprint is the operation's id, and `renewAt` is the next tick of the
holder's renewal goroutine. A renewal is one statement at its tick.

The clock assumptions are guards of `Tick`. In `Idempotency`, the calls up to the claim
take less than `ProcessingTimeout`, and an operation ends before its record expires (a
day by default) unless `"slow"` is in `Faults`; then `outlived` is set and `OneOwner`
promises nothing more. In `SystemOperationLock`, the calls of Acquire and Release take
less than a renewal interval, renewals happen when they are due, and `"renew"` failures
leave one round before the lease ends, as the interval of a third of the lease intends.

### BatchImageHold and BatchImageJobs

`BatchImageHold` is the money of one user: `balance` and `frozen` are the columns of
`users`, `dedup` holds the claims of `usage_billing_dedup` (and of its archive, which
the code reads together with it). Each operator is one of the three transactions of
`repository/usage_billing_repo.go` and takes the answer its caller sees: success, a
commit whose answer is lost, a refusal by the state found, an error that changed
nothing. A release before its reserve moves no money and still leaves its claim, which
makes the job *burnt*: its hold can no longer be returned. `returned` is a history
variable.

In `BatchImageJobs` the job's columns are functions on `Jobs` (`status`, `named` for
`provider_job_name`, `hidden` for `user_deleted_at`, `retry`, `cost`), and every
concurrent call has a step: `submit[j]` (`batch_image_public.go`, in the order of its
calls), `cancel[j]`, `recover[j]` (`batch_image_billing_recovery.go`) and
`worker[w]`, which also keeps the status it read (`seen`). `CanTransition` is the
table of `service/batch_image.go`; a transition is one transaction and locks the row.
A worker's chain is `RunOnce`, `ProcessRead`, `ProviderRead`, `ProviderPoll`,
`Index`, `IndexEnds`, `SettleRead`, `SettleCapture`, `SettleMark`, with
`recordSettlementFailure` and `failExhaustedSettlement` on its error paths. The queue
is the set of queued jobs here; the next module shows how Redis keeps it. `upstream` is
the provider's batch: `"unreported"` is one that was created and runs although
`provider.Submit` answered with an error or without a name
(`service/batch_image_public.go:351-371`), so nobody knows it.

`doubt` and `stranded` are history variables that mark, job by job, the failures after
which the code cannot know the truth: a settlement interrupted between its capture and
the completed row, or a lock that expired under its worker (`doubt`); a crash, a lost
answer, a failed abort or a refused enqueue that leaves a job to nobody (`stranded`).
The properties make exceptions for jobs with a mark and for no other.

Abstractions: prices are the set `Costs`, one of them above the hold; the times after
which the recovery and a resubmission act are choices; the provider's formats,
downloads, the input files and usage log rows are left out, for none of them decides
about status or money.

### BatchImageQueue and WorkQueueContract

One action is one Lua script, command or pipeline of `repository/batch_image_queue.go`,
or one call of the processor; in between the other workers, the mover, the recovery and
the expiry of keys move. `ready`, `delayed`, `active` and `inflight` are the Redis
structures (a due time or a lease is a choice of when, so scores are left out),
`lock[j]` names the worker whose token the lock holds, `work[j]` the Process calls the
job still needs. Failures (a worker's death, a refused command, lost heartbeats, an
early expiry) use up `faults`. `lapsed` is a history variable: workers whose own lock
expired during their call. `WorkQueueContract` is the abstract queue: pending jobs,
the job each worker was given, finished jobs; `Contract` maps the union of the
structures to *pending*.

### TokenRefresh

The account's row is `token` (its credentials) and `status`. Tokens are numbered in the
order the provider issues them; `usable` are those it still accepts, `due` those
inside the refresh window. A process is a background loop or a request handler of an
instance, with its `step` and a record `local` of the variables the code keeps between
calls: the account it was given, the token it goes by, the token it received or found,
the status it read. `RefreshStep` is `RefreshIfNeeded` with what its background caller
does afterwards (`refreshWithRetry`, `SetError`); `AdminStep` is
`refreshSingleAccount`, `UpdateAccount` and `ApplyOAuthCredentials`, which write the
whole row without the lock. The Redis lock is a SETNX whose answer may be lost; when
Redis fails the code refreshes without it. Its release is a plain DEL, so a
call that outlives its lock deletes the next holder's, which `ReleaseRefreshLock`
models. The local mutex admits one call per instance. A refusal by the provider takes one
of three ways: a passing error is tried again; `invalid_grant` first re-reads the row
(`Recover`); the other final errors of `isNonRetryableRefreshError`
(`service/token_refresh_service.go:468-498`) are a verdict at once (`Condemn`), be they
about the token (`refresh_token_reused`) or not (`invalid_client`, `access_denied`), in
which case the provider still accepts it.

History variables: `unprotected` (calls without the lock, or whose lock expired or was
deleted), `lost` (tokens the provider took whose successor never arrived), `overwritten`
(used tokens an edit wrote back), `suspect` (a verdict may be wrong: the error said
nothing of the token; the successor was in the row and nobody looked or the read failed;
one of two racing calls had no lock; the row changed after the verdict, for which
`local.new` keeps the row's token at the time of the verdict).

Abstractions: only providers that rotate the token; one refresh window for loops and
requests; how often `refreshWithRetry` retries is a choice; the cache of access tokens
is left out, since refreshing never reads it.

## 3. Runs

| Run | Asks | Bounds | Distinct states |
|---|---|---|---|
| `FulfillBalance` | balance orders under every operation and failure: exclusion, exactly-once, payments kept, contract | 1 order, 2 handlers | 300 134 |
| `FulfillSub` | subscription days under crashes, failures, lost audit rows and assignments that err after their write | 1 order, 2 handlers | 137 320 |
| `FulfillLive` | every payment settles | 1 order, 2 handlers, no crash | 230 513 |
| `RefundRaces` | concurrent refunds, requests and spending, for both types of order | 1 order worth 2, 2 handlers | 1 962 658 |
| `RefundFinalize` | pending refunds and their finalisation; subscriptions that end; an order without a trade number | 2 orders worth 2, of any types, 1 handler | 932 237 |
| `IdemExecute` | requests with one key: exclusion, right answers, effects against claims | 3 requests, 2 payloads, 2 rows of the key, lock 1, expiry 2, clock to 3 | 335 996 |
| `SystemLock` | long operations under a renewed lease | 3 handlers, 1 operation id, lease 3, interval 1, expiry 4, clock to 6 | 8 903 |
| `BatchHold` | a job from Submit to settlement, with every operation and failure: status, money and provider agree | 1 job, 2 workers, hold 2, balance 1 or 2, cost 1 or 3, 2 retries | 549 090 |
| `BatchQueue` | jobs in Redis: none lost, one worker each, contract, all served | 2 jobs, 2 workers, 2 enqueues and 1 round each, 2 faults | 165 566 |
| `TokenRefresh` | one account on two instances: exclusion, no token forgotten, real verdicts, due tokens refreshed | 2 loops, 1 handler, 2 tokens before ageing stops, 2 faults | 170 161 |
| `RefundRetried`, `LeaseNotRenewed` | findings, section 6 | | |

Why the bounds are enough: orders of one user share nothing in `PaymentFulfillment`
but the pending limit, so one order shows every interaction except that limit. Two
handlers show every pairwise race; a third one adds only handlers that wait on the same
compare-and-set, and the theorems below hold for any number. The number of operations is
not bounded: handlers return and start again, and the counters stay finite because what
they count is guarded (that they do is what is checked). In `PaymentRefund` an order
worth 2 tells full from partial refunds, and two orders share one balance; a
subscription starts with what the order bought, which a refund revokes, or one day
more, which a refund leaves. In
`IdemExecute` the clock runs past the expiry of a first record, so that expired,
reclaimed, deleted and re-created records all occur with requests of every age;
`MaxRows` bounds the re-creations. In `SystemLock` the clock covers two leases, a crash
and a take-over after it; all operations share one id there because the code renews only
under the id the record was created with, which is the finding `LeaseNotRenewed`.

In `BatchHold` the job races itself: Submit, Cancel, recovery and two workers are five
concurrent calls on one row. Other jobs reach it only through the user's balance and
frozen balance, for which `Elsewhere` stands; a balance of 1 refuses the hold and a cost
of 3 exceeds it. Two retries give a settlement that fails once and one that is given
up. In `BatchQueue` two faults are enough for the longest chain of trouble
the code answers, a worker that dies after its lock was already lost; one round
makes a job pass through the delayed set, and two enqueues reach a job that is queued
or done. In `TokenRefresh` the handler shares an instance with one loop and competes
with the other, so that the mutex and the lock are both contended; token 1
is refreshed while a second token is issued by hand, by a re-authorisation or by the
other loop. The theorems need none of these bounds.

`CHECK_DEADLOCK` is off because the system does stop when every order or job is final
and nobody sends a request, and the models with a clock or a fault budget stop at its
bound.

What the main properties say beyond types:

* `SingleFulfiller`, `SingleRefunder`: RECHARGING and REFUNDING are locks.
* `ContractSpec` (payments): with "paid" read as *the gateway holds the right amount*
  and "delivered" as *balance credited or days added*, the service implements
  `DeliveryContract`. Expired locks, lost answers and retries are all in.
* `PaymentKept` (action property): no handler, acting on what it read earlier,
  moves a paid order out of the paid statuses.
* `CompletedIsDelivered`, `RebateOnce`, `AssignInv`, `AssignedOnce`: what a retry
  after half a delivery must neither skip nor repeat. The last two make an exception for
  orders in `unrecorded` and for no other.
* `PaymentSettles` (liveness): a payment ends COMPLETED, FAILED (the administrator's
  queue), or with an order that was expired beyond the grace period.
* `RefundedIsSettled`, `NoDoubleDeduction`, `FailedTakesNothing`, `RefundedStays`:
  the order's status, the balance and the gateway agree whenever nobody is at work.
  `RefundInv` is the inductive invariant behind them, checked where refunds are pending
  and finalised.
* `IdemInv`: the inductive invariant behind the next three.
* `OneOwner`, `EffectsBounded`: executions with one key exclude each other, and each
  effect uses up a claim of a new or expired key; retries of failures use the claim
  that the failure left unused.
* `AnswersMatch`: through replays, late owners and re-created records, a client only
  gets results of its own payload.
* `LockInv` (types, exclusion, and what a holder relies on: its record, its id, its
  lease and its next renewal), `LeaseCoversHolder`: the lease protects a system
  operation of any length.
* `FrozenIsHolds`, `ChargedWasHeld`, `ChargedOrReturned`: the frozen balance is the sum
  of the open holds; only a frozen hold is charged; no hold is both charged and returned
  unless the job is in `doubt`.
* `StatusMatchesMoney`, `CompletedStays`: completed means charged, failed or cancelled
  means not charged, and neither a late Submit nor a second worker takes a completed job
  back.
* `HoldOwnedOrBurnt`, `UnnamedIsStopped`: every open hold has somebody left to settle it.
  A job without a provider name in its row is never charged and ends failed or cancelled;
  a batch whose name Submit was told is about to be recorded or aborted, or the job is
  marked `stranded`; a batch it was not told of (`"unreported"`) never gets a name, so it
  runs unbilled.
* `RefusedIsQueued`, `OneProcessor`, `ContractSpec` (queue), `Served` (liveness): the key
  that refuses a second Enqueue never outlives the job's place in the queue; workers
  exclude each other; a job is dropped only by a worker that finished it.
* `RefreshersExclude`, `RowUsableOrOverwritten`, `ErrorIsReal`, `DueIsRefreshed`
  (liveness): a single-use token is neither used twice under the lock nor forgotten, an
  account is condemned only for a dead token, with the exceptions that `suspect` marks,
  and a token that is due does not stay.

## 4. Fairness

`FairSpec` assumes weak fairness of every running handler: a goroutine that has
started is scheduled and its calls end (with an error at worst). It does not assume
that anyone starts anything, with one exception: the gateway redelivers its
notification until it is answered with success, which is what
`handler/payment_webhook_handler.go` relies on when it answers errors with a
failure. That is strong fairness of `HandlePaymentNotification`, because a free
handler to receive it is there only again and again. No fairness is assumed for
users, administrators, the sweep, or the clock. `PaymentSettles` is checked without
crashes and without failing order or audit statements; section 6 says what happens
otherwise.

`BatchImageQueue.FairSpec`: every worker loop goes on (weak fairness of `RunOnce`), the
mover takes due jobs, the recovery takes active jobs that nobody has, and Redis expires
locks that nobody renews. `service/batch_image_worker_runtime.go` starts these loops
with the server and each of them runs on a timer. No fairness is assumed for Enqueue or
for any failure; failures are bounded, so `Served` says that a job is served once they
stop.

`TokenRefresh.FairSpec`: calls return and loops go on (weak fairness of every
`RefreshStep`), and Redis expires the lock. A process that waits for the local
mutex gets it in the end although others come and go: that is strong fairness of
`LocalLock`, which Go's `sync.Mutex` gives by handing itself to a waiter that has
waited for a millisecond. Passing failures end because faults are bounded. Nothing is
assumed of administrators or the provider.

## 5. Proofs

`PaymentFulfillmentProofs` proves, for every set of orders and handlers, every
selection of operations and failures and every limit:

* `TypeCorrect` (`TypeOK`), `Invariant` (`IInv`), `OneFulfiller`,
  `CompletionIsDelivery`, `RebatedOnce`, `PaymentsAreKept`, `BalanceCreditedOnce`,
  `PaymentFirst`, `AssignInvariant` and `DaysAreAddedOnce` (the last two with the
  exception of orders in `unrecorded`, and of nothing else);
* under `GrantsRecorded` (no subscription orders, or no failing audit statement and no
  assignment that fails after its write) `EveryGrantIsRecorded`, which says that the
  exception is empty, and `ContractHolds`, the refinement of `DeliveryContract`. Without
  it the days of an order can be added twice (section 6);
* under `HandlersFinish` (no crash, no failing statement on the order)
  `SomebodyRecharges`. Both halves are needed: with crashes alone, or with failing order
  statements alone, TLC finds an order that is RECHARGING with nobody at work.

`PaymentRefundProofs` proves, for any orders, handlers and amounts: `TypeCorrect` without
any condition; `OneRefunder`, `RefundedSettled` and `RefundedForGood` under `Serial`, with
every kind of failure; `Refunds` (`RefundInv`), `DeductedOnce` and `GivenBack` under
`Trusted`. `Serial` says that nobody finalises while another handler works: finalisation
takes no lock in the code, and two of them deduct twice. `Trusted` adds that audit rows
are written and read, that a failing call changed no subscription (the fault `after`), and
that a finalisation is not interrupted between deduction and new status: the code has no
record from which to continue it, and the run `RefundRetried` shows what a failed rollback
before it does. Where nobody finalises, every failure of an order's or user's statement,
of the gateway, and every crash is within `Trusted`.

`IdempotencyProofs` proves `Invariant` (`IdemInv`), `OneEffectPerClaim`,
`AnswersAreTrue`, `OwnersExclude` and, when operations are not slow,
`OwnersAlwaysExclude`, for any finite set of requests, any payloads, times and failures.
Effects and answers need no clock assumption: they hold however late an owner is. Only
the owner's part uses that a claim is made in time.

`SystemOperationLockProofs` proves `TypeCorrect`, and under `Renewable` `Exclusion`
(`LockInv`) and `LeaseKept`, for any number of handlers. `Renewable`: no operation
outlasts its first lease, or two renewal rounds fit into a lease and all operations share
the record's id. The code renews every third of a lease but at most once a second
(`service/system_operation_lock_service.go:46-66`), so two rounds fit for every lease of
two seconds or more; the default is thirty. The shared id is what the code lacks
(`LeaseNotRenewed`). An interval of 2 in a lease of 3 violates `LockInv`, so the first
half is needed as well.

The argument for payments. `SingleFulfiller` is not inductive: a step that takes an order must
know that nobody holds it, which is `HeldIsRecharging` (who fulfils an order finds
it RECHARGING, and the take-over accepts only PAID and FAILED), which in turn needs
that a redemption by hand never reaches the calls of a fulfilment
(`RedeemCallsOnly`). These three are `LockInv`. `PaidInv` says where a status can
have come from: PAID, RECHARGING and COMPLETED only from a payment the gateway
holds; FAILED from one too, unless the creation failed, which needs that only one
handler is still creating the order (`OneCreator`) and that nobody could pay yet.
`DeliveryInv` says what each call of a fulfilment relies on; `CreditedOnce`, its
core, does not use the redeem lock at all: the guarded update of the code is enough,
so losing the lock is harmless. `RebateInv` ties the rebate to its audit row.
`AssignInv` is the subtle one: days that were added are on record, or the order is
RECHARGING and its holder is about to write the record, so nobody can take it
before, or it is one of the `unrecorded` orders. A step adds days only to an order
without days or puts it into `unrecorded`, and only `doSub` and `writeAuditAssigned` add
to that set, each by a failure that `GrantsRecorded` rules out. `IInv` is the conjunction
of types, lock, payment, delivery and rebate parts; `AssignInv` is kept on top of it.
Every step lemma has one case per action; each of the theorems follows with one temporal
step.

`RechargingIsWorkedOn` needs to know more about the calls than `IInv`: each call that a
fulfilment can reach ends in another one or in a status other than RECHARGING, so the
handler that took the order stays its worker until it has written one.

The argument for refunds. A handler is *busy* while it goes by the status it set or read.
`HandlerInv` says which operation makes which call, `LockInv` that an order has one busy
handler at most, which still finds its status there, `GatewayInv` that what the gateway
settled and holds pending stays within what was paid, that a pending refund still brings
its amount, and that a refunded order has it. `DeductionInv` accounts for what was taken:
never more than the order brought; of an order that may be refunded and that nobody is
busy with (`OrderTaken`), nothing, or a failed rollback is on record, which makes the next
attempt take nothing; of a busy handler between deduction and rollback (`HandlerTaken`),
what it will give back, unless a revoked subscription makes that impossible. Each call
moves an amount between the two, and a handler may only return after it turned its part
into the order's. That is where the code reads audit rows to know what an earlier attempt
took, and why `Trusted` is needed.

The argument for idempotency. `EffectsBounded` needs `ClaimsInv`: effects, plus
requests that may still execute, plus one if the record holds a failure, never exceed
the claims; a retry moves the last term into the second one, which needs that only
requests that saw a failure aim at a retry. `AnswersMatch` needs `AnswersInv`: a
request's row id is at most the present one, and where they are equal the request's
payload is the row's fingerprint, so a mark by id alone cannot store a foreign answer;
a re-created record has a larger id. `OneOwner` follows from `OwnerInv`: an owner that
is in time holds the row, with its id, a processing status and the expiry of its own
claim, and a request that read this processing row and now aims at it did so before the
owner's lock ran out. So no insert, reclaim or cleanup can take the row from it.

The argument for the system lock. `HolderInv`: the holder's record is the one it claimed,
in processing and with a lease that has not ended; a claim is made within a renewal
interval of its start; and the next renewal comes before the lease ends (or, where no
operation is long, the operation does). A lease runs from the start of Acquire and its
first renewal comes less than two intervals later, which is why two must fit; `Tick`
cannot pass a renewal that is due, and a reclaim needs a lease that ended, so it finds no
holder. Without the shared id the renewal changes no row, and the step fails.

`BatchImageJobsProofs` proves `TypeCorrect`, `Invariance` (`IInv`), `OnlyHeldCharged`,
`NeverBoth`, `RowMatchesMoney` and `HoldsAreOwned`, for any finite set of jobs of one
user, any workers, amounts, number of retries, operations and failures;
`BatchImageHoldProofs` adds `FrozenAccounted`, `CompletedIsFinal` and `RunningIsNamed`,
and says what the exceptions for marked jobs cost. `ExactWhenWhole`: where settlements run
to their end (`SettlesWhole`: no lost answer, failing statement, crash or expired lock)
row and money agree for every job, although the queue and the provider fail.
`NoneStranded`: where calls and answers arrive (`HandsOver`: no lost answer or crash, no
failing queue or provider) no hold is left to nobody and no provider's job is forgotten,
although statements fail and locks expire. Both follow from the marks staying empty.
`RunningIsNamed` (`UnnamedIsStopped`) is inductive with two facts more (`NameInv`): who
polls, indexes or settles a job has seen its name, and after an error of the provider
Submit goes only through its releases, never to the name.

The argument for batch images. Capture does not ask for the claim of the hold, and
capture and release do not exclude each other in the database; what does is the order of
calls, and `IInv` follows it. `HeldFirst`: Submit reserves before it leaves `created`, so
every later status implies a hold. `BeforeName`: until Submit has stored the provider's
name no worker takes the job further, so releases by Submit, Cancel and recovery act on
a job that is early or ended. `WorkerKnows`: what a worker concluded from its read still
holds at its next call, some of it whatever happens (failed and completed are final) and
some only while its lock is its own. `MoneyMatches` ties row and claims: a captured job
is settled or about to be marked; a returned one has failed or was never named.
`OwnerKept` is the conservation of responsibility: each step that gives up a job with an
open hold hands it to the queue or to the recovery, or leaves a mark. Each part needs the
others: that an acknowledged job was settled is `WorkerKnows`, which is what lets
`OwnerKept` survive `Ack`. `FrozenAccounted` counts the claims: each transaction adds
exactly one element to one of the three sets and moves one hold.

`BatchImageQueueProofs` proves `TypeCorrect`, `Invariance` (`IInv`), `NoneStranded`,
`Exclusion` and `ContractHolds`. The inductive part beyond types is short: a job with an
inflight key is in a structure, a worker between SETNX and release whose lock did not
expire still holds it, and who acknowledges has a finished job. For the refinement every
step is a step of the contract or leaves the union of the structures and the workers'
jobs as they are; a recovery or a mover only moves a job between structures.

`TokenRefreshProofs` proves `TypeCorrect`, `Invariance` (`IInv`), `Exclusion`,
`NeverForgotten` and `VerdictsAreReal`, for any number of instances, loops and handlers.
`Protection`: a process in a call holds the lock or is on record as unprotected, and the
local mutex admits one call per instance; this gives exclusion. `Tokens`: a token on its
way to the row is usable, known to nobody else and not in the row, and a token that
`invalid_grant` refused is dead for good, as is one condemned without a mark, which was
also the row's at its verdict; so whoever used up the row's token brings its successor,
which is `RowUsableOrOverwritten`. `Verdicts`: who has judged a token dead cannot face a
protected call that brings its successor, because that call's read and write lie inside
the lock the judge had, unless a mark says otherwise; hence an error status without a
mark stays real. `SafeWhenUndisturbed`
shows that the exceptions come from faults, edits and manual refreshes only: without
them (`Undisturbed`; re-authorisations stay) one call at a time uses a token, the row's
token works or its successor is on its way, and the account is never given up. It needs
more than empty marks: that nobody asks the provider with a dead token, which follows
because whoever re-reads the row under the lock finds no one replacing its token.

Left to TLC: the liveness properties `PaymentSettles`, `Served` and `DueIsRefreshed`,
which need fairness and ENABLED, out of the prover's reach. Every invariant and action
property of the passing runs is proved, each under the condition named above.

## 6. Findings

Two disagreements between the code and its own comments or tests have a run each:

* `RefundRetried`: a refund that kept the balance (failed rollback) and is retried is
  deducted again when the retry is pending at the gateway and finalised.
* `LeaseNotRenewed`: a reclaimed lock record keeps the first operation's id, so later
  operations do not renew it and lose the lock after one lease.

Behaviours met while modelling that no text of the repository speaks against. Those in
a model are named there or excepted by a history variable:

* Verifying an order expired long ago stores the trade number, which renews `updated_at`
  (`age`), and the order is then paid as if within the grace period.
* The days of a subscription are added twice after an unwritten audit row and a failing
  rebate, and, with a working audit log, after an assignment that fails although its write
  was committed: `doSub` returns the error before it writes the row, markFailed hands the
  order to a retry, and the retry finds no record. `unrecorded` excepts these orders.
* A `provider.Submit` that fails, or answers without a name, after the provider created
  the batch leaves it running: the hold is released, the job fails, and nobody can
  follow, stop or bill the batch (`"unreported"`).
* A final refresh error other than `invalid_grant` condemns the account without the second
  read that looks for a lost race (`service/oauth_refresh_api.go:133`,
  `service/token_refresh_service.go:312`): `refresh_token_reused` after another call has
  stored the successor, `invalid_client` or `access_denied` with a token that works
  (`suspect`).
* Two requests that saw the same expired success both execute, the second one over the
  fresh success of the first: `TryReclaim` compares nothing but the expiry the record
  had. `EffectsBounded` counts a claim for each.
* Concurrent creations exceed the limits on pending orders and on the daily amount, which
  are read before the insert.
* A crash after taking an order leaves it RECHARGING, a crash during a refund leaves it
  REFUNDING, and no later operation accepts either; between PAID and the take-over, an
  administrator's retry is the way out.
* `confirmPayment` answers an order it cannot read with success, so the gateway stops
  redelivering. `PaymentSettles` assumes readable orders.
* Two concurrent finalisations of a pending refund both deduct.
* `ExtendSubscription` and `RevokeSubscription` can report an error after their write
  (a failing re-read, a failing invalidation of a cache). ExecuteRefund then restores
  the order with the days gone and nothing on record, and the next attempt takes days
  again. The fault `after` is this case; the passing runs leave it out, because
  `FailedTakesNothing` and `NoDoubleDeduction` fail with it.
* A finalisation that plans with a cached subscription which has ended meanwhile cannot
  shorten it and answers an error; the order stays REFUND_PENDING until the cache
  forgets it.
* A Cancel that read the row before Submit named the provider's job cancels it and gives
  the hold back while the provider works on it.
* A Cancel between the creation of a batch job and its reservation claims the release
  while there is nothing to return; the hold made afterwards is *burnt* and stays frozen.
* A settlement whose capture committed without an answer on its last attempt is given up:
  the hold is released after it was captured (`doubt`).
* A batch submission whose reservation or naming committed without an answer, or that
  died before Enqueue, is left to nobody (`stranded`): the recovery looks only at rows
  that are created or uploading and have no provider name.
* A worker whose lock expired reads `settling` as done and acknowledges the job another
  worker is about to settle; the job leaves the queue unsettled (`doubt`).
* An edit of an account writes back the credentials it read, over a token refreshed
  meanwhile (`overwritten`, `service/admin_account.go:326`).
* The refresh lock is deleted without a token comparison, so a call that outlives
  its lock removes the next one's; `SetError` overrules a re-authorisation that came
  between the verdict and the write (`suspect`).
* `persistAccountCredentials` has no second copy: a rotated token that cannot be stored
  is gone (`lost`).

## 7. Plan

In this order; each module comes with its runs, mutants and, where marked, proofs.

1. `UsageBilling` with proofs: the dedup claim against the move of claims to the archive,
   balance and subscription charges, the quota flusher against resets. It would share the
   balance with `BatchImageHold`.
2. `ConcurrencySlots`: sorted sets with expiry and process prefixes, wait counters, the
   restart cleanup, `user_msg_queue_service.go`.
3. `SchedulerOutbox`: commit order against id order, watermark, rebuild; eventual
   freshness.
4. The access-token cache on top of `TokenRefresh` (`CheckTokenVersion`, then write).
5. WebSocket pool, auth cache invalidation, affiliate ledger.

## 8. Not modelled

* The gateways' protocols (adapters around HTTP; their outcomes are external
  definitions), amounts and fees, the daily limit, the choice of the provider instance,
  e-mails; `total_recharged`. Restoring a revoked subscription by hand.
* Redemption by hand accrues a rebate of its own; the model counts it
  (`redeemRebate`) and no property is about it, as no text says which of the two is right.
* Of batch images: the provider's formats, downloads, input files and their cleanup,
  prices, usage log rows, lists and queries.
* Of the token refresh: the cache of access tokens and `CheckTokenVersion`, separate
  windows of loops and requests, the pause of an account after exhausted retries, the
  markers of Antigravity accounts, shadow accounts, privacy settings, imports from other
  installations, providers that keep the refresh token.
* Of idempotency: requests without a key, hashing, truncated responses.
* Usage billing, concurrency slots, scheduler snapshot, WebSocket pool, auth cache and
  affiliate ledger: section 7.
* The request path (translation of API dialects and streams, account scoring and failover
  heuristics, which keep no protocol state of their own beyond slots, billing and
  snapshots); administration, authentication and settings (single-row CRUD), generated
  code, migrations and the front end.
