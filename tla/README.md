# ai-credits: TLA+ models, checks and proofs

ai-credits is a Go library that keeps prepaid credits for applications that
resell LLM calls. An application reserves credits before a call, settles the
actual cost after it, and runs a few maintenance loops; payments and Stripe
webhooks bring credits in. Everything lives in one SQLite database that several
processes may share.

This directory holds TLA+ modules that model the library, TLC configurations
that check them on small instances, and TLAPS proofs of the main results for
every instance. `PROJECT.json` lists the runs, the lines of code behind every
definition, and what was found.

## The system

| part | state | operations | interacts with |
|---|---|---|---|
| ledger (`credits/ledger.go`) | `credit_accounts` (materialized balances), `credit_transactions` (append-only, UNIQUE idempotency key) | `Grant`, `Refund`, `GrantTx`, `RefundTx`, `Balance` | everything that moves credits |
| reservations (`reservation.go`) | `credit_reservations` | `Reserve`, `Settle`, `Release` | ledger, in the same transaction |
| reconcile (`reconcile.go`) | none (a scan in memory) | `Reconcile` = expire stale holds one by one, then report drift | reservations and ledger, concurrently with everything |
| settlement outbox (`settlement.go`) | `settlement_outbox` | `EnqueueSettlement`, `SettleViaOutbox`, `ProcessSettlementOutbox` | reservations, pricing, usage audit; no transaction around them |
| usage audit (`usage.go`, `validate.go`) | `llm_usage`, one row per request | `RecordUsage`, `RecordUsageRetry` | written after a settle |
| pricing (`pricing.go`) | price table, fixed at start | `Cost`, `Credits`, `EstimateMax` | sizes reserves and charges |
| monthly grants, subscriptions (`monthly.go`, `subscription.go`) | `subscriptions` | `EnsureMonthlyGrant`, `SetSubscription`, `CancelSubscription` | ledger |
| payments core (`payments/payments.go`) | `payment_purchases`, `payment_events` (inbox with leases), `payment_subscriptions` | `CreatePurchase`, `Receive`, `ProcessPending`, `ApplySubscription`, `GrantSubscriptionPeriod`, `Reconcile` | ledger, in one transaction per event |
| payments worker (`payments/worker.go`) | back-off | `Run`, dead-letter alarm | payments core |
| Stripe adapter (`stripe/stripe.go`) | none | `Checkout`, `HandleWebhook` | payments core, Stripe |
| BYOK store (`byokstore.go`) | `byok_credentials` with version and previous key | `Put`, `Get`, `Delete` | relay |
| BYOK relay and capture (`byokrelay.go`, `byokcapture.go`) | bounded capture buffer per response | `ServeHTTP`, usage recording | store, usage audit |
| migrations (`migrations.go`, `schema.go`) | schema version | `EnsureSchema` | all tables, at start |

What is hard here: the transactions are short and serialized (`BEGIN
IMMEDIATE`), but `Reconcile`, `SettleViaOutbox`, `ProcessSettlementOutbox`,
`EnsureMonthlyGrant`, `processOne`, the handlers of invoices, `CredentialStore.Put`
and `EnsureSchema` consist of several of them and act on what an earlier one
read; processes crash between them; webhooks and requests are delivered twice
and out of order; timeouts (reservation, outbox, meter) race each other and late
answers; answers are cut anywhere by the network; 64-bit arithmetic wraps
around.

What makes each part correct:

* ledger: balance = sum of rows; a key pays once; debts have a cause.
* reservations: a hold is taken only from credits that are there and ends
  exactly once, for exactly the captured cost; a closed one is final.
* reconcile: stale holds, and only those, are given back, once, eventually.
* outbox and audit: what the rows say of a request agrees with what was charged,
  a write is missing only where it was lost; nothing stays held.
* pricing: charges are exact, an estimate covers its call, and a usage is refused
  exactly when its cost cannot be represented.
* monthly grants: one per user and month, there when the call returns.
* payments: a payment grants once, reversals never exceed it, an accepted event
  is applied eventually.
* Stripe subscriptions: the stored state follows the newest event, an invoice
  grants once, and what Stripe was told is done is done.
* BYOK store: a rotation keeps the previous key for those who need it, a deleted
  key is gone; relay: a call that reports usage leaves one row with exactly that
  usage. Migrations: no version is skipped, a running process has its schema.

## Modules

| module | models | notes |
|---|---|---|
| `Escrow` | what the credit service promises | abstract: transfers, holds, ends of holds |
| `Credits` | ledger, reservations, reconcile | the core; one action per transaction |
| `CreditsImpl` | the refinement mapping from `Credits` to `Escrow` | |
| `Settlement` | outbox, workers, sweeper, usage audit, crashes | extends `Credits` |
| `Entitlements` | subscriptions and the monthly grant | extends `Credits` |
| `Pricing` | the pricing engine over wrapping integers | |
| `Payments` | purchases, the event inbox, webhook requests and workers | extends `Credits` |
| `StripeEvents` | what package stripe reads out of a webhook event | pure operators |
| `Subscriptions` | Stripe subscriptions and invoices, from the webhook to the grant | extends `Credits`, uses `StripeEvents` |
| `ByokStore` | the table of users' own keys: Put, Get, Delete | |
| `ByokRelay` | relayed calls, the capture of their answers, `llm_usage` | extends `ByokStore` |
| `Migrations` | `EnsureSchema` by several processes and releases | |
| `Sums` | sums over sequences (SQL's `SUM`) | recursive function, no RECURSIVE operator |
| `CreditsProofs`, `SettlementProofs`, `EntitlementsProofs`, `PricingProofs`, `PaymentsProofs`, `SubscriptionsProofs`, `ByokProofs`, `MigrationsProofs` | theorems | one module per component |
| `MC...` | constants of the small instances | |

**Credits.** `accounts`, `ledger` and `reservations` are the three tables, by
user, by position and by request id; `recon[r]` is what a running `Reconcile` of
loop `r` holds in memory. `Grant`, `Refund`, `Reserve`, `Settle` and `Release`
are one transaction each and one action each; an error return leaves the tables
as they are and is therefore a guard. `Reconcile` is `expireStale` (the scan),
`expireOne` per row and `detectDrift`; `Abort` is a run that returns on an error
of one row or dies with its process. Time is the `age` of open reservations,
advanced by `Tick` and cut off one tick beyond the timeout. Idempotency keys are
values of one set, with `ReserveKey(q)` for `"resv:" + request_id`, so that a
caller's key can collide with a derived one as it can in the table.

**Settlement.** A worker is one execution of a metered call by the application:
reserve, enqueue, call the provider, settle through the outbox. Two workers may
execute the same request (a retry after a timeout or a crash). Every SQL
statement of `SettleViaOutbox` and `ProcessSettlementOutbox` that writes is an
action. `Crash` forgets a worker or a sweeper at any point; `Busy` is any of
their writes (`Settle`, `Release`, the updates of the row) that fails with the
table unchanged, after which the code goes on as its error handling says.
`RecordUsage` may leave no row without any fault, because `validateUsage` refuses
usage that `Settle` never looks at. `lost` is history, read by no action: which
writes of which request were not made, so that the properties can excuse a missing
row or an open hold by the loss of that very write and by nothing else. The usage
that a worker records carries the request id of its call.

**Entitlements.** `EnsureMonthlyGrant` is three steps, as in the code: gate,
clock, grant. `subs` is the status column of the subscriptions table; the stored
plan is left out, because `EnsureMonthlyGrant` takes the plan from its caller and
nothing else reads it.

**Pricing.** Integers wrap at `MaxInt`, division truncates; the guards against
overflow and negative factors are those of the code. The machine estimates a call,
then charges any usage for it, negative counts included.

**Payments.** `purchases` and `inbox` (by provider and event id) are the tables, `procs[w]` what a webhook
request or a worker loop has in memory: the rest of its batch, the event it has
claimed and the purchase as it read it. `Facts` is what providers send; a
handler may receive any of them at any time and again. Every statement of
`ProcessPending` and `processOne` outside the final transaction is an action;
with a `*credits.Service` ledger (`kind = "service"`) the grant or refund and the
two updates are one action, with another ledger two. A lease is a flag that may
run out at any moment: thirty seconds pass whenever they like, for a process that
is dead or only slow. `RecordConflict` is the failing update of the purchase:
`fail` is called before the deferred rollback there, so its own update cannot
get the write lock and the event keeps its lease. `Busy` also covers an update of
`fail` that fails by itself: its error is ignored, and the loop goes on to
`checkDeadLetter` with the event still leased. `stale` is history, read by no
action. The facts of the runs are Stripe events as `mapEvent` maps them: a
checkout that is not paid gives none, a dispute finds its purchase on the charge.

**StripeEvents, Subscriptions.** An event is a record with the fields the code
reads: its own metadata, the metadata quoted from the subscription, the three
places of the subscription id, billing reason and period. `subs` is
`payment_subscriptions`; a row is the event that wrote it, with `terms` for
period, trial and cancellation. A webhook with a subscription event is one action,
because it is one statement; one with an invoice is two, the read of the stored
subscription (`ReadSubscription`, whose error the code ignores) and the write
(`handleInvoiceFailed`, `handleInvoicePaid`), so that other requests come between
them. `acked` are the events whose 2xx reply reached Stripe; a reply may get lost,
and Stripe may deliver any event again at any time, acknowledged or not.

**ByokStore.** A sealed key is a record of the sealing key, the owner (the
additional data of the cipher), the plain key and a nonce; an instance opens what
was sealed with its own key. `Put` is its three statements, and its reads may
fail silently. `history`, `disturbed` (owners whose writes overlapped or whose
reads failed) and `revoked` are history, read by no action.

**ByokRelay.** An answer is a sequence of lines with a size, the places where
`data:` begins, and the usage it reports. `Write` is modelled piece by piece: a
piece is what one call has of one line, `head` says that it begins the call, and
pieces are cut in every way. `stream`, `body`, `buf` and `usage` are the fields of
`usageRW`, the buffers by their length. A line or a body that lost a piece is
taken to be no JSON. `validateUsage` refuses a call without a model, with a
negative count or with an identifier (`longest`) beyond `MaxIdentifier`: the call
is relayed and no row is written. `MeterTimesOut` is the end of the ten seconds of `meterCtx`;
`HangUp` is the panic with which `ReverseProxy` leaves `ServeHTTP` when the client
or the provider hangs up, past `finish`.

**Migrations.** The schema is a set of tables, columns and indexes, `Adds[v]` what
migration `v` adds to it. A process reads the version, applies one migration per
transaction and then runs the statements of `schemaSQL` one by one, in their
`Order` and outside any transaction, so that it may die and others may write
between any two of them. A second process that applies the same migration fails on the primary key of the version
table and has to be started again.

Definitions named after a slip (for instance `StillReservedAssumed`, introduced
as "Mutant") are not part of the model: each states a plausible bug in the
definition that follows it, with which some run's property must fail.

## Runs

Run one with `tlc -config <cfg> <module>`; the module is that of the run in
`PROJECT.json`. All check for deadlock except byok and every_call_metered, whose
workload is bounded and is worked off.

| run | cfg | shows |
|---|---|---|
| credits | `MCCredits` | two users, two requests, two Reconcile loops with stale scans, a colliding key, amounts that callers get wrong (0), costs of zero, at and beyond the reserve: no drift, holds returned once, keys pay once, debts explained, closed is final, no early expiry, the inductive invariant, refinement of `Escrow`, and every hold ends, despite an aborted run |
| settlement | `MCSettlement` | two executions of one request with different costs, sweeper, Reconcile, refused audit rows and one fault anywhere: outbox, audit row and charge agree, a row that no sweeper lists again has its hold closed, a capture lacks a row only where that very write was lost; and even if Reconcile never runs the sweeper gives back the hold behind a pending row, unless its own `Settle` or `Release` failed |
| pricing | `MCPricing` | all usages of four kinds of tokens, negative counts included, under four pricing files: a usage is priced exactly when its cost can be represented, exact charges, covering estimates |
| entitlements | `MCEntitlements` | two users, two callers and three plans race with subscription changes over a month boundary: one grant per user and month, a call that returns has its grant |
| payments | `MCPayments` | a payment, a partial refund and a dispute of one purchase, three deliveries, one fault, both kinds of ledger: an applied event is booked; with the service's own ledger reversals add up unless a process wrote from an outdated read |
| payments_queue | `MCPaymentsQueue` | two events about one payment, reused event ids, an unknown purchase that fails at the head of the queue, a payment that two purchases claim, a webhook request that hangs for ever: a payment grants once, to the buyer; an event that can be applied is applied, or it or an event that is not behind it is reported as a dead letter, unless a payment is contested |
| subscriptions | `MCSubscriptions` | events about a subscription and its invoices in any order, overlapping, repeated, with one fault: the newest event wins, an invoice grants once, an acknowledged invoice that names user and plan is granted, and retries bring everything to take effect |
| byok | `MCByok` | overlapping rotations and deletions of two users' keys by instances with an old and a new sealing key; calls with one request id, calls whose usage is refused, answers in any pieces, at and beyond the limit, one fault: rotations chain, a deleted key is gone, a rotation keeps the instances served that opened the key before it, a row is what its own answer reports, and is there if the call was quick |
| migrations | `MCMigrations` | three processes of two releases on databases of every age, one left by a start that died among them, with two crashes between any two transactions or statements: no gap in the versions, a running process has its schema, processes of the newest release come to run |

Three runs check a sentence of the documentation against the code and find a
counterexample:

| run | the documentation | the code |
|---|---|---|
| served_is_charged | "a restart resumes it instead of dropping the charge" (`README.md:141`) | the outbox stores no usage and is never settled from; after a crash the hold is returned and the served call is free |
| reversals | "Refunds and disputes reverse the original grant" (`docs/payments.md:26`) | two processes that read the purchase before either has written it reverse more than the grant |
| every_call_metered | "auto-meters every upstream call into `llm_usage`" (`README.md:32`) | the ten seconds for recording begin before the call is proxied: a call that takes longer is not recorded |

Further departures met while modelling, which the models keep as the code has
them and the properties step around:

* `Settle` draws an overage that the balance does not cover
  (`docs/architecture.md:183` has it fail); `DebtIsExplained` counts it.
* A row left pending stays pending when its reservation was closed first, by the
  worker that crashed or by `Reconcile` (`README.md:138` has the sweeper retry or
  expire anything left pending), and takes its place in the limit of every later
  sweep. Such rows may starve the rows behind them for ever: `SweepEndsHolds`
  leaves that case to `Reconcile` (`Starved`).
* A dead letter is reported but stays at the head of the queue, and
  `ProcessPending` returns at the first error (`payments/worker.go:46`): events
  behind one that always fails wait for ever. `AppliedOrReported` says what holds.
  An event whose payment belongs to another purchase is not even reported, however
  often it was tried (`payments/worker.go:25` has `DeadLetter` called then): its
  row stays processing when `checkDeadLetter` looks for failed ones (`Contested`).
* With a ledger that is not the service's, a crash between a refund and the write
  of `reversed_credits`, followed by another reversal of the purchase, takes back
  more than was granted (`docs/payments.md:44` calls the replay safe).
  `ReversalsAddUp` is therefore about the service's own ledger.
* `Reserve` returns a closed reservation where `docs/architecture.md:157` has it
  fail (`StartCall`); rounding up wraps around within one divisor of the largest
  integer, where a usage is free (`pricing.go:113` says "ceil"; `Roundable` excludes
  it).
* A call of `EnsureMonthlyGrant` grants to a user who was cancelled after the gate
  was read, over the turn of the month even the new month's credits
  (`docs/architecture.md:193` has only active plans receive them). What the code
  does guarantee of the gate is its guard, and no property repeats it.
* `invoice.paid` or `invoice.payment_failed` of a subscription that is not stored
  yet, or cannot be read, is acknowledged and lost unless it names user and plan
  (`SelfContained`); an error of `ApplySubscription` for a failed payment is
  ignored. Of two subscription events of one second the first to arrive stays.
  A failed payment writes back the user and plan it read, with its own time, and
  without trial and cancellation: a change of plan that came in between is
  overwritten, an older one that arrives later dropped (`docs/payments.md:40` has
  plan changes tracked). `NewestEventWins` binds the row only to subscription events.
* A provider that reports two payments for one purchase may have both granted
  when they are processed at once (the purchase's `payment_id` is read before the
  transaction); of a payment that is reported for two purchases only the first to
  be booked brings credits. `PurchasesGrantOnce` and `AppliedIsBooked` say what
  holds in spite of both.
* Overlapping Puts of one key, or a read that fails in one, lose the previous key
  or repeat a version; a Delete during a Put leaves the deleted key as the
  previous one (`disturbed`, `revoked`). An instance that is served by the previous
  key loses it at the next rotation.
* A stream that the request did not ask for, and a JSON answer that contains
  `data:`, are captured or not depending on where the network cuts them; the last
  line of a stream counts only with its line feed (`Reports`). Of two calls with
  one request id chosen by the client, one is recorded.
* Of two processes that start at once on an old database one fails: the error of
  `applyMigration` for a version that exists is not what
  `isMigrationAlreadyApplied` looks for. Started again, it runs (`EveryoneStarts`).

### Bounds

Two requests and two users are enough for every pair of operations on one or on
different rows; two Reconcile loops for two stale scans of one row; `Timeout = 1`
for reservations below, at and beyond the timeout. Grants and refunds are
bounded by the number of keys, reservations by the number of requests, so the
ledger is finite without a bound of its own. `MaxAborts` and `MaxFaults` bound
failures: one, at every point. The settlement run has one request, so that two
executions of it, the sweeper and Reconcile fit; nothing starves in it. In
`Payments` three deliveries allow a payment with two reversals, an event and its
repetition, or a failing event with two payments behind it; payments_queue has no
faults of its own, because a webhook request that hangs while its lease runs out
plays the crash, and one buyer (the proof covers any number). In `Pricing`, `MaxInt = 63` with prices "per
4 tokens" puts the overflow guards, the wrap-around and both roundings within
reach of small token counts, and a count of -1 the guards against negative
factors. Costs include 0 and values above the reserve.
`Subscriptions` has one subscription, since nothing relates two of them, and two
requests with invoices, enough for two that resolved different plans. In
`ByokRelay`, `Workloads` splits the work: many Puts without calls, or two calls
with two Puts, or a call that is not valid; three Puts (`MaxPuts`) let two overlap
and one follow, `MaxIdentifier` is one byte short of one call's id, and a capture
limit (`MaxCapture`) of three bytes has lines below, at and beyond it in every
cut. In `Migrations` two processes of the newest release race for one
migration while an older release also starts; the three migrations are those of
the code.

### Fairness

`FairSpec` assumes that time passes (`WF(Tick)`) and that each loop keeps
calling `Reconcile` (`WF(Reconcile(r))`), which the library asks of the
application. `SettlementFairSpec` assumes the same of the sweeper's timer, and
that a worker that has begun to settle goes on unless it crashes (a goroutine is
not suspended forever); of `Reconcile` it assumes nothing. `PaymentsFairSpec` assumes
that worker loops go on (`Worker.Run` polls until it is cancelled) and that leases
run out, each by itself; webhook requests may hang. `SubscriptionsFairSpec` assumes that Stripe
delivers some event it holds no acknowledgement for as long as there is one and a
server takes it (strong fairness: a server may be busy now and then), and that a
request that has begun ends; not that any one event is preferred. In `Migrations`
`FairSpec` has a process that stopped or failed started again, as the supervisor
of a service does, and a start go on. Nothing is assumed about the provider, about retries by
the application or about faults.

## Proofs

`tlapm <module>.tla` checks the proofs of a module. They hold for every value of
the constants that satisfies the assumptions named below, which say no more than
what the tables' columns and the callers' types guarantee; TLC evaluates them in
every run. TLC checked each inductive invariant on the instances of the runs
before it was proved. `Inv` below is always the strengthening, and every theorem
of a module follows from it.

| module | invariant | theorems (property) |
|---|---|---|
| `CreditsProofs` | `AccountingInv` | `TypeCorrect` (`TypeOK`), `AccountingCorrect` (`AccountingInv`), `NeverDrifts` (`NoDrift`), `HoldsReturnedOnce` (`ReservationsBalance`), `DebtExplained` (`DebtIsExplained`), `KeysArePaidOnce` (`KeysPayOnce`), `ClosedStaysClosed` (`ClosedIsFinal`), `ExpiryIsNeverEarly` (`NeverExpiredEarly`), `ServiceIsEscrow` (`ImplementsEscrow`) |
| `SettlementProofs` | `SettlementInv` | `SettlementCorrect`, `SettlementImplementsCredits`, `SettlementIsEscrow` (`ImplementsEscrow`), `SettlementTypeCorrect` (`SettlementTypeOK`), `SettledIsCaptured` (`SettledMeansCaptured`), `AuditIsTrue` (`AuditMatchesCharge`), `FinishedHoldsAreClosed` (`FinishedIsClosed`), `CaptureIsTraced` (`CaptureLeavesATrace`), `SweepIsNeverEarly` (`NeverSweptEarly`) |
| `PricingProofs` | `PricingInv` | `PricingCorrect`, `ChargesAreExact` (`ChargeIsExact`), `ReserveCoversCall` (`EstimateCovers`) |
| `EntitlementsProofs` | `EntitlementsInv` | `GrantsCorrect`, `MonthIsPaidOnce` (`MonthlyOnce`), `CallersHaveTheGrant` (`CallersAreGranted`) |
| `PaymentsProofs` | `PaymentsInv` | `PaymentsCorrect`, `PaymentsTypeCorrect` (`PaymentsTypeOK`), `PurchaseIsGrantedOnce` (`PurchasesGrantOnce`), `AppliedStaysBooked` (`AppliedIsBooked`), `ReversalsAgree` (`ReversalsAddUp`) |
| `SubscriptionsProofs` | `SubscriptionsInv` | `SubscriptionsCorrect`, `NewestWins` (`NewestEventWins`), `AcknowledgedIsGranted` (`AckedIsGranted`), `InvoiceIsPaidOnce` (`InvoicesGrantOnce`) |
| `ByokProofs` | `StoreInv`, `RelayInv` | `ByokCorrect`, `ChainHolds` (`RotationsChain`), `RevokedStaysGone` (`RevokedIsGone`), `GraceHolds` (`RotationKeepsServing`), `RelayTypeCorrect` (`RelayTypeOK`), `RecordedStaysTheirs` (`RecordedIsTheirs`), `CallsAreMetered` (`MeteredInTime`) |
| `MigrationsProofs` | `MigrationsInv` | `VersionsStaySound` (`VersionsAreSound`), `RunningIsComplete` (`RunningHasSchema`) |

**Credits** (any users, requests, keys, integer amounts and costs, timeout and
Reconcile loops; `AmountsAssumption`, `TimeAssumption`, `NullAssumption`). That a
hold is returned once cannot be seen from the ledger alone, because `expireOne`
writes what a scan read earlier. `AccountingInv` says in `SnapshotsHold` that a
snapshot's user and amount are those of the row and that an open row in a
snapshot is older than the timeout; in `HoldsAreFunded` that the user of a hold
has an account, so that the UPDATE of `writeReturn` finds a row and ledger and
balance move together; in `NothingOwedBefore` that no row refers to a request
before it is reserved; and in `DebtsAreDebits` that refunds and overages are never
positive, so that the guard of the debit (a balance of at least zero) is enough to
keep the debt explained. The step proof reduces every operation to one of three
shapes: booking a row together with the balance (`Booked`), closing a reservation
with the adjustment its outcome asks for (`Closes`), and leaving the money alone.
The refinement maps the same shapes to `Transfer`, `Hold` and `End`; it needs one
more fact, `OpenIsUncharged`, because an expiry leaves `captured` as it finds it.
`KeysPayOnce` is inductive by itself. Sums over the ledger are a recursive
function, `Total`; what appending one element adds to it is proved by the
least-number principle.

**Settlement** (any workers, sweepers, threshold, limit and faults;
`OutboxAssumption`). Every step of a worker, a sweeper, Reconcile or the clock is
a step of `Credits` or leaves its tables alone (`CreditsStep`), so the
specification implements `Credits`, and through it `Escrow`; the invariants of the
ledger come for free. What the outbox and the audit row say is not inductive: a
worker writes them after the settle, and others act in between. `WorkersKnow` says
what a worker may still rely on at each statement (its row exists; the call was
served; the reservation is captured, at its cost; the hold has ended, or its close
was lost, before the row is marked), `SweepersKnow` the same of a
sweeper and the rows it listed. They stay true because a captured reservation
never changes, ages only grow and rows are never deleted.

**Pricing** (any prices, also negative ones, any pricing file, any width of
integers; `PricingAssumption`, `PricesAssumption`). The invariant says only that
estimate and charge are those of the call. The work is in the lemmas: the overflow
guard of a product is exact (`FactorGuard`), a usage is priced exactly when it has
a price: no negative factor and no sum that overflows (`CostMeans`, `PricedMeans`), rounding up is exact where the sum with the divisor fits
(`IntDivCeilExact`) and monotone (`CeilMonotone`), two roundings overshoot by less
than a credit and a micro-unit (`TwoRoundings`), and the margin of a half never
loses what a rounding gained (`MarginCovers`).

**Entitlements** (any users, callers, plans and months; `MonthlyKeysAssumption`:
the derived keys are keys of the ledger). Every row is the grant of a month that
has begun (`RowsAreMonthly`), which with the UNIQUE key bounds a user's rows by the
months; `CallsKnow` says what a call may still rely on when it grants: an amount
above zero and a month that has begun.

**Payments** (any facts, providers, purchases, processes and faults, both kinds of
ledger; `PaymentsAssumption`, `PaymentKeysAssumption`). A process applies an event
to the purchase as it read it, possibly long ago and while others apply other
events. `ProcsKnow` says what is still true of the read: user, credits and amount
are those of the row, and the reversed credits that it shows have been taken back.
`EventsKnow` says what the use of a reversal's key implies, because a duplicate
counts as success: that this event's reversal is in the ledger. `RecordedIsTaken`
bounds the recorded reversals by what the ledger took, with equality for the
service's ledger until a process writes from an outdated read. Sums over chosen
keys of the ledger (`KeySum`) rest on the lemmas about `Total`.

**Subscriptions** (any events, requests, deliveries and faults;
`SubscriptionsAssumption`, `SubscriptionKeysAssumption`). `StoredIsNamed` says that
the user and the plan of a row come from events that name this subscription,
`RequestsKnow` the same of what a request resolved before others wrote, and
`GrantsAreInvoices` of every row of the ledger. User and plan may come from two
different events, since a failed payment stores what it resolved; therefore the
two witnesses in `InvoicesGrantOnce`.

**ByokStore, ByokRelay** (any owners, instances, sealing keys, Puts, calls,
answers, capture limit and faults; `StoreAssumption`, `RelayAssumption`: an answer
is a sequence of lines of at least one byte, all but the last with a line feed).
None of the store's properties is inductive, because a Put writes what it read
earlier. `StoreInv` adds `ReadsAreCurrent` (of an owner who is not disturbed one
Put at most is under way, and what it has read is still so) and
`KeysStayWithOwner` (what the rows and the Puts under way hold is sealed for their
owner, has been sealed before, and is not revoked); the nonce that every sealing
draws makes the next one a new value. `VersionsCount` bounds a version by the
number of Puts that are over, overlapping ones included. For the relay, `IsAt`
says where a copy is in its answer, `LineIsKept` and `BodyIsKept` that a buffer
has everything of a line or body that is not too long, however it was cut, and
`UsageIsLast` that the usage seen so far is the last one among the lines read. One
lemma, `CapturedPiece`, shows that the capture of any piece keeps them; when the
answer is over they say that what `finish` sees is what the answer reports
(`SeenIsReported`).

**Migrations** (any processes, releases and migrations; `MigrationsAssumption`,
`DatabasesAssumption`). The strengthening is `StartsLagBehind`: what a process is
about to add has all its predecessors in the table, because the version it read
can only have grown. A version that is not there yet is therefore the next one,
and the others fail on the primary key. A process that runs the statements
of `schemaSQL` has all versions of its release in the table, so that they find
everything that the migrations add, whoever added it.

Only model-checked: liveness (`HoldsEnd`, `SweepEndsHolds`, `AppliedOrReported`,
`EventsTakeEffect`, `EveryoneStarts`), which the proof system does not reach, and
the three sentences of the documentation that the code refutes.

## Not modelled

* Wrap-around of 64-bit balances: balances are mathematical integers.
* What `validateUsage` looks for, beyond that it may refuse (in `Settlement`) and
  the model, the negative count and the length (in `ByokRelay`); formatting,
  logging, metadata columns, timestamps other than ages.
* Callers that open the database without `_txlock=immediate`: transactions are
  atomic and serialized here.
* Overflow of the product of credits and refunded amount in `processOne`.
* `Payments.Reconcile`, `Configured`, `GetVersion` and other functions that only
  read and report.
* `Checkout` of the Stripe adapter (a `CreatePurchase`, which is modelled, and a
  request to Stripe), signatures, JSON, HTTP headers, paths and the rewriting of
  the request body by the relay: I/O without state.
* The cipher of the BYOK store, beyond which key opens what.
* The back-off of the payments worker: a round may begin at any time.
* A JSON text that stays valid although the capture dropped a piece of it.
* The wall clock of `ProcessSettlementOutbox` (`time.Now`) and `Config.Now` are
  one clock here.

## Plan

Every safety invariant and action property that a run checks is proved. What is
left:

1. `Entitlements`, `Payments` and `Subscriptions` take only the steps of the
   ledger: each of their writes to it is a step of an instance of `Credits` whose
   `Amounts` are all the integers (they grant plan and purchase amounts, which
   are constants of their own and not members of `Amounts`).
2. Lemmas behind the liveness properties that are safety: that a hold which is
   never settled stays visible to every later scan, and that a received event
   stays in the queue until it is applied.
