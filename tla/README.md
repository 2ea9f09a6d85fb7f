# Payment gateway: TLA+ models and proofs

TLA+ modules for the payment gateway in this repository, TLC configurations
that check them on small instances, and TLAPS proofs of the main results for
every value of the constants. `PROJECT.json` holds the machine-readable side:
components, runs, mutants, the map from definitions to source lines, findings,
hazards and theorems.

    tlc -workers 2 -config CreateAndSettle.cfg MCSettlement   # one run
    tlapm PaymentService_proofs.tla                           # one proof module

## 1. The system

The gateway is a set of Rust services over one PostgreSQL database, Kafka and
Redis. The paths below are relative to `src/crates/`.

| Component | State | Operations | Interacts with |
|---|---|---|---|
| payment service (`payment-service`) | `payments`, `refunds`, `ledger_entries`, `outbox_events` | create, capture, refund, cancel | fraud service and acquirer by HTTP; the other services through the tables |
| ledger writer (`payment-service/src/ledger.rs`) | `ledger_entries`: balances and hash chain | record_capture, record_fee, record_refund | runs inside the payment service's transactions |
| outbox worker (`outbox-worker`) | leases and counters in `outbox_events` | reclaim, claim, publish, record | Kafka |
| webhook service (`webhook-service`) | consumer offset, `processed_events`, `webhook_deliveries` | consume, persist, lease, post, record | Kafka, merchants' endpoints |
| settlement worker (`settlement-worker`) | `settlements`, `merchant_balances`, the status of `payments` | nightly batch, one transaction per merchant | `payments`, `outbox_events` |
| acquirer router (`acquirer-router`) | a circuit breaker per acquirer | charge with fail-over, capture, refund | acquirers |
| API gateway (`api-gateway`) | Redis idempotency entries, rate counters | limit, authenticate, look up and mark the key, proxy, record | every service |
| merchant service (`merchant-service`) | `merchants`, `webhook_endpoints`, `audit_log` | create, update, rotate key, register endpoint | behind the gateway, whose authentication reads `merchants` |
| reconciliation service (`reconciliation-service`) | `reconciliation_runs`, `reconciliation_mismatches` | run_daily | reads `payments`, asks the provider |
| ledger service (`ledger-service`) | `processed_events` | consume payment events | Kafka |
| order, vault, fraud services | their own tables, velocity counters | CRUD, expiry, tokenise, score | HTTP, tables |

What is hard here:

* Handlers of the payment service wait for the fraud service and for the acquirer
  between transactions. Any other request may run there; the HTTP client gives up
  after 15 s, the server drops the handler after 30 s, a client may disconnect and
  the process may die, while the acquirer still carries out what it was asked.
* The outbox worker and the webhook schedulers share work through leases that are
  timestamps: a lease may run out under a holder that is merely slow, and both
  write their outcome without asking who holds the lease by then.
* Kafka redelivers. The consumer relies on `processed_events`.
* Settlement runs on live rows, possibly in several instances.
* Breakers are told of calls that were admitted in another state.
* Ledger rows of one merchant are written by transactions that do not lock each other
  out, at READ COMMITTED; each reads the balance and the last hash before it inserts, and
  dates its rows by the clock of its own process.
* The gateway looks an idempotency key up and marks it in two Redis commands; the mark
  and the handler that set it run against the same 30 seconds.
* A reconciliation run compares two lists read one after the other while both change.

What makes each component correct is stated in section 3. The complete list of
hazards, each at its source line, is under `hazards` in `PROJECT.json`.

## 2. Modules

| Module | Models | Uses |
|---|---|---|
| `PaymentStatus` | transition table, refund limit, fee formula | |
| `Sums` | the sum of a column over the rows of a table | |
| `PaymentService` | the four operations of the payment service with ledger and outbox | extends `PaymentStatus`, `Sums` |
| `Settlement` | the settlement worker beside the payment service | extends `PaymentService` |
| `Reconciliation` | the reconciliation run beside both | extends `Settlement` |
| `Journal` | abstract: a transaction's double entries are booked together, once, for good | extends `PaymentStatus` |
| `LedgerChain` | the ledger writer, statement by statement | extends `PaymentStatus`, `Sums`; instantiates `Journal` |
| `AtLeastOnce` | abstract: events are accepted, handed over at least once, written off only after that | |
| `OutboxWorker` | the polling workers, their leases, the broker | instantiates `AtLeastOnce` |
| `AcquirerRouter` | router and circuit breakers | |
| `WebhookService` | consumer and retry schedulers | |
| `MerchantService` | the merchant service and the version trigger | |
| `Gateway` | the API gateway in front of the merchant service | extends `MerchantService` |
| `MC...` | instances for TLC, and the statements of the documents that the code does not keep | extend the module of that name |
| `..._proofs` | theorems | extend the module of that name |
| `BackOffice_proofs` | theorems on settlement and reconciliation | extends `Reconciliation`, `PaymentService_proofs` |

`SumOf` of `Sums` counts units: the sum of a function `w` is the number of pairs `<<x, i>>`
with `i \in 1..w[x]`. This is a definition without recursion, so that what sums do can be
proved from the library's theorems on cardinality; `SumIsSum` in `MCPaymentService` has TLC
compare it with the recursive sum of the community modules. Amounts are never negative, so a
balance is the difference of two sums, credits and debits (`Balance` of `LedgerChain`).

### PaymentService

A request is a process; a create request names the payment it creates and a refund
request the refund. `pc` says where its handler waits, `acq` what the acquirer did
with its call, `reply` what the client was told. A transaction that holds the row
lock (`SELECT ... FOR UPDATE`), or whose first write is the row's, is one action:
nothing another request does can be observed between its statements. Each external
call separates two actions.

| Code | Actions |
|---|---|
| `create_payment` | `InsertPayment`, `ReplayPayment`, `FraudBlocked`, `FraudPassed`, `ChargeApproved`, `ChargeUnrecorded`, `ChargeFailed` |
| `capture_payment` | `StartCapture`, `CaptureApproved`, `CaptureFailed` |
| `create_refund` | `CreateRefund`, `RefundSucceeded`, `RefundAnnounced`, `RefundFailed` |
| `cancel_payment` | `CancelPayment` |
| refusals, dropped handlers, crashes | `Reject`, `Abandon` |
| the acquirer (external) | `AcquirerAccepts`, `AcquirerRefuses`, also after the caller has given up |

Not modelled, because it changes no state: requests that validation refuses before
the first statement, and the read-only endpoints. The fraud verdict is a free
choice. (As the code stands the verdict `blocked` is never seen, because the fraud
service wraps its answer in `data`; `FraudBlocked` stays as the branch that is
there.) The ledger is a set of debit/credit pairs; a pair's `by` keeps the pairs of
different requests apart.

`ReferenceFkDeferrable` chooses the schema of the ledger. Migration 008 creates
`ledger_entries.reference_entry_id` as a plain foreign key; the debit row is inserted first and
names the credit row, so every transaction with a ledger pair is refused (`FALSE`; run
`StrictForeignKey` is the finding). `docs/ledger.md` describes a deferred key (`TRUE`), without
which nothing is ever captured and the rest of the service could not be examined. The theorems
hold for both.

### Settlement

`SysSpec` is the payment service with any number of settlement workers on the same
table. `todo` is the merchant list a batch read at its start. `SKIP LOCKED` is the
choice of any part of the due rows. `covers` of a settlement is history.

### Reconciliation

`OfficeSpec` adds one reconciliation run to `SysSpec`. `Business` is any step of the other
services; it dates charges by the provider's clock (`createdAt`) and captures by the payment
service's (`capturedAt`), each of which may be off the run's own `clock` by up to `Skew`. A run
is taken to be short against a tick of `clock`. The run is
`StartRun` (the row of the run), `ReadPayments`, `FetchCharges`, one `RecordMismatch` per
statement and `CompleteRun`; `EndRun` is an error, which marks the run failed, or the end of
the process, which leaves it running. `Reverse` is a charge that fails at the provider later.
`FetchCharges` yields the newest `PageLimit` charges or, like the code for a missing key or
an error body, none. Runs share nothing they write, so one at a time is followed.
`byChargeId` says whether `acquirer_reference` is what the list is indexed by, the id of a
charge. It is chosen at the start and never changes. The Stripe adapter stores the id of the
payment intent (`stripe-adapter/src/lib.rs:115`), so for the code as it is the value is `FALSE`;
`TRUE` is kept to examine the comparison that follows the lookup. All
payments are taken to be charged with Stripe; the UPI branch reads no list at all.

### LedgerChain and Journal

A transaction is the capture or the refund of a payment of one merchant. For each pair of
`write_double_entry` it takes `ReadBalance` (the time and the credited account's sum),
`ReadHash`, `InsertDebit`, `InsertCredit`; then `Commit`, or `Rollback` at any point, after
which it may be made again. Statements see what is committed and what their own transaction
wrote. The row's hash covers its id and the hash before it, so `prev` names a row; `depth` is
history. `now` is the `Utc::now()` of whichever replica runs the transaction: `ReadBalance`
takes any time at all, earlier than, equal to or later than those in the table. `ORDER BY
created_at DESC LIMIT 1` may return any row with the latest `created_at`, both rows of a pair
among them: `PrevHashes` is the set of these. `overlapped` and `behind` are history: the
transactions that were open while another committed, and those that dated a row no later than
one they saw. Both rows of a pair carry the balance of the account that the pair credits; the
debit row, which belongs to the other account, has it twice (`ledger.rs:213-214`). The
refinement mapping takes the credit rows of `book` for the journal, which is the abstraction
that `PaymentService` and `Settlement` are written against.

### OutboxWorker and AtLeastOnce

One `run_once` is `Reclaim`, `Claim`, then for each event of the batch
`BrokerAppends`, `SendSucceeds` or `SendFails` in any order, then `Record`. A lock
is free, held or stale; `LeaseAges` may come at any time. `Crash` is a dying process
and also a failing statement, after which `run_once` starts over. The refinement
mapping takes `inserted` for the accepted events and the rows with `published` for
those written off.

### AcquirerRouter

`Filter` looks at one breaker at a time; `Try` is `allow_request`, which releases the breaker's
mutex when it returns, and `Call` the call of the adapter, so that a breaker may open between
the two. `strays` is history: the callers that were there when it did. `ReplyOk`,
`ReplyDeclined`, `ReplyError` end it. `capture` and `refund` share their code and are the
operation `direct`. `streak` is history: what was really recorded in a row. The crate is a
library that the payment service does not link yet: it reaches its acquirer by HTTP.

### WebhookService

One consumer (one partition, one member of the group at a time) and any number of
schedulers. The endpoints are split by what they are registered for: `Subscribers`
for the real event types, `CatchAll` for the type `""`, which is what the consumer
reads from payloads without `event_type`. Failing statements and crashes share the
bound `MaxFaults`. The scheduler's 20 concurrent tasks are the tasks of a batch in
any order. `cutShort` is history: messages given up at a failing statement or a stop of the
consumer. Reaching the attempt limit runs a statement that names a column
(`dead_lettered_at`) no migration creates; it has no effect on the row.

### Gateway and MerchantService

A request is a process: `pc` is the gateway's handler, `served` the service's, which runs on
when the gateway has given up. `left` counts down what the handler has of its 30 s and `ttl`
what Redis has of an entry's; `Tick` moves both, drops handlers and expires entries.

| Code | Actions |
|---|---|
| `rate_limit_middleware`, malformed headers, failing queries | `Refuse` |
| `auth_middleware` | `Authenticate`, `Unauthorized` |
| `idempotency_middleware` | `Replay`, `LookupMisses`, `Mark`, `MarkFails`, and its last part in `Relay` and `BadGateway` |
| `proxy_request` | `Relay`, `BadGateway` |
| `TimeoutLayer`, disconnects, crashes | `Tick`, `Abandon` |
| `create_merchant` | `CreateMerchant` |
| `update_merchant` | `UpdateMerchant`, with the trigger as `Bumped` |
| `rotate_api_key` | `RotateKey`, `AuditRotation` |
| `register_webhook` | `RegisterWebhook` |
| error answers | `ServiceFails` |

A key that is rotated away stops its bearer at `Authenticate` (`InForce`); a request past
that point goes on. A Redis command is taken to have its effect while the handler that sent
it lives, or not at all; a command whose answer is lost is covered by `MarkFails` and by the
ignored errors in `KeepAnswer` and `DropMark`. Clients are taken to name their own merchant
in the path. `raced` and `lapsed` are history: keys that were marked while they
held a value, and keys whose record of a success is gone.

## 3. What the runs check

Passing runs (distinct states in brackets):

| Run | Shows |
|---|---|
| `CreateAndSettle` [650 604] | Two creates on one key, a capture, a refund and a cancellation, two merchants, two settlement workers. `SingleChargePerKey`: one charge per key. `CapturedIsCharged`: no failed, late or lost reply is booked as money. `SettledOnce`; `PaidWithinCaptures`: a merchant gets at most its captures less the fees, and one unit for each settlement whose f64 fee falls short; `SettledIsStable`, and the worker's types (`pending` never negative). |
| `CaptureRefundRace` [111 568] | Two captures, two refunds and a cancellation on one payment, full and partial; and two creates by themselves. `LedgerMatchesPayments`, `OutboxMatchesPayments`: the three tables tell one story. `RefundWithinCaptured`, `PayableMatchesRows` (what the ledger owes is what the row says, and the acquirer paid back no more), `ToldIsTrue`, `CapturedIsStable`: nothing un-captures a payment. `EveryRequestAnswered`: no wait is for ever. |
| `Ledger` [819 156] | Captures and refunds of two payments, each with its pairs, dated by clocks that may be behind. `ImplementsJournal`; `ChainIsRooted`: no row hangs on one that was rolled back; `RowsPaired`; `ForksExplained`: the chain forks where transactions overlapped, where one dated a row no later than one it saw, or where the equal timestamps of a pair are confused, and nowhere else. `SerialBalancesExact`: where no other transaction committed meanwhile, both rows of a pair have the exact balance of the credited account, whatever the clocks show. |
| `BackOffice` [1 365 838] | Two payments, one settlement worker, one run after another, clocks apart by up to a tick. `AlarmsAreExplained`: with charge ids, live traffic raises no false alarm; with the ids the adapter stores, a completed run reports every payment it checked as missing. `NothingOverlooked`: a completed run has reported every charge of its period that had failed before it began. |
| `Outbox` [21 256] | Two workers, two events. `ImplementsAtLeastOnce`, `PublishedIsFinal`, `AttemptsBounded`, `EventuallyResolved`. |
| `Breakers` [548 103] | Two callers, two acquirers. `OnlyStraysCall`: an acquirer whose breaker is open is called only by callers that were admitted before it opened and had not called yet, once by each. `EarnedTransitions`, `OnlyChargesFailOver`. |
| `Webhooks` [24 474] | One message, an endpoint of each kind, two schedulers. `OnlyCutShortIsLost`: a message behind the committed offset has its rows unless a failing statement or a stop cut it short. `OneRowPerEndpoint`, `SuccessIsReceived`, `SuccessIsFinal`, `AttemptsLimited`, `EveryDeliveryResolved`. |
| `Gateway` [461 666] | Two updates and a rotation of one merchant, or a registration and one of them, with and without a common key; the second update may be a retry of the first. `OneAtATime`: handlers wait together under one key only once the key was raced for. `OneSuccessPerKey`, `CompletedIsStable`: records of success are kept. `ReplayIsEarned`: "completed" tells of some request that succeeded under the key, and the one it answers is not carried out. `VersionSpentOnce`: optimistic locking holds among updates and against rotations. `KeyIsReleased`: no key stays in flight for ever. |

Runs that TLC refutes: each states what a document or a test of the repository says,
and the finding in `PROJECT.json` quotes it.

| Run | What the code does instead |
|---|---|
| `StrictForeignKey` | With the migrated key an approved charge cannot be recorded. |
| `RetriedRefund` | A refund retried under its key is carried out again. |
| `FailedRefund` | A refused refund leaves `refunded_amount` raised. |
| `WebhookLost` | A message is marked as processed before its rows exist; if the next statement fails it is skipped for good. |

Three passing runs stand beside documents that say otherwise; these are findings, too. Their
properties state what the code does.

| Run, property | Document |
|---|---|
| `BackOffice`, `AlarmsAreExplained` | `docs/reconciliation.md:8` has transactions correlated with payments. A payment intent's id is looked up among charge ids, so nothing is ever matched. |
| `Gateway`, `ReplayIsEarned` | `docs/idempotency.md:18` has another payload under a used key refused with 400. No payload is compared: another operation under the key is answered 200 `completed` and not carried out. |
| `Ledger`, `SerialBalancesExact` | `docs/ledger.md:38-44` has captures debit `merchant_payable` and credit `gateway_float`, refunds the reverse. The code has it the other way round (`DebitAccount`, `CreditAccount`). |

### Further observations

Behaviours of the models, and of the code they translate, that no run singles out. They
limit how the properties above may be stated.

* The failure write of a create whose payment was cancelled meanwhile turns `cancelled` into
  `failed` (`orchestrator.rs:283`, `FailPayment`): terminal statuses are final for the state
  machine, not for the row. `OutboxMatchesPayments` therefore has no "only if" for
  `payment.cancelled`.
* Racing captures all call the acquirer before the lock (`orchestrator.rs:333`, `StartCapture`);
  one is recorded.
* Another amount under a used create key is answered with the old payment (`db.rs:29`,
  `ReplayPayment`).
* A charge that the acquirer takes while the payment is cancelled, or answers too late, is not
  reversed and not booked (`ChargeUnrecorded`, `ChargeFailed`). `CapturedIsCharged` has no
  converse.
* The capture amount is booked but not sent to the acquirer, and not bounded by the authorized
  amount (`orchestrator.rs:348`, `CaptureAmount`).
* `refund.succeeded` is written by a transaction after the one that marks the refund
  (`orchestrator.rs:484`, `RefundAnnounced`); a dropped handler leaves it out.
* An outbox event whose attempts are used up is never claimed again, also when the broker is
  back (`worker.rs:69`, `Claimable`); `EventuallyResolved` allows for it, as the repository's
  own test does.
* A settlement pays the captured amount whatever was refunded before (`settler.rs:62`, `Total`);
  `PaidWithinCaptures` is about captures only.
* A charge that timed out is sent to the next acquirer although the first may have taken it
  (`router.rs:83`, `ReplyError`).
* Two ledger transactions of a merchant may read one hash and one balance (`ledger.rs:262`,
  `ReadHash`): the chain is a tree, and `balance_after` of the later row misses the earlier one.
  Even alone, a transaction may hash onto the debit of the last pair, or onto an older row where
  the replicas' clocks differ. `ForksExplained` and `SerialBalancesExact` say when.
* A debit row has no balance of its own account: `balance_before` and `balance_after` are both
  the credited account's (`ledger.rs:213`, `InsertDebit`).
* The fee is an f64 product, truncated. It is not additive and not even superadditive: at 0.018
  the amounts 500 and 1000 have the fees 9 and 18, their sum 26, so that settling them together
  pays a unit more than the ledger's fee pairs leave (`settler.rs:91`, `Fee`, `Short`).
* Two requests may both miss the lookup and both pass (`idempotency.rs:60`, `LookupMisses`,
  `Mark`); the exception `raced` in the gateway's properties is this race. It lasts for the key:
  when one of the two is refused it deletes the other's mark (`DropMark`), and a third request
  passes the lookup while the other is still with its service.
* A retry of a completed request is answered with the record's value, `completed` or
  `in-flight`, and status 200 (`Replay`), not with the response of the first request.
* A broken connection deletes the mark although the service may go on (`BadGateway`), so
  `OneAtATime` is about handlers that still wait.
* `handlers.rs:120` of the merchant service advises "Refetch and retry", but `GET` returns no
  version.
* A rotation whose audit row fails has replaced the key and lost it (`RotateKey`,
  `ServiceFails`): `RotationsAudited` is about rotations that were answered with success.
* Reconciliation walks through our payments only (`reconciler.rs:125`): a charge we did not
  record is never found, although `docs/reconciliation.md:11` lists the phantom charge. The
  periods of two runs need not meet.
* Payloads carry no `event_type` (`orchestrator.rs:685`, `PayloadEventType`), so endpoints
  registered for a type get no delivery.

### Bounds

Two actors of each kind are enough to let one act on what the other has changed. In
`CaptureRefundRace` amounts 2 and 3 with a fee of one half give a fee that is exact for one and
truncated for the other, a partial capture and a capture above the authorized amount. In
`CreateAndSettle` the rate is 0.35 and the amounts are 80 and 100: in f64 the fees are 28 and 35
and that of 180 is 62, not 63, so a batch of both is short (`Short`); `PricedApart` gives the
two payments different amounts and captures and refunds them in full. `MaxFailedAttempts`,
`MaxAttempts` and the thresholds are 2: there is a first failure that is not the last.
`BatchSize` 1 with two rows makes the limit bite. One crash (`MaxCrashes`) or two faults
(`MaxFaults`) leave leases without their holder, and leases may expire any number of times
besides. The constraint `KeyedApart` keeps requests with a key out of the races of
`CaptureRefundRace` (creates under one key race with everything else in `CreateAndSettle`);
refunds that share a key are met in the run `RetriedRefund` and in the proofs, several webhook
messages in the proofs only. `InOrder` lets the first of two like requests come in first, which
loses nothing, as they differ in their names only.

In `Ledger` one payment is captured with a fee pair and the other, of amount 1, without
(`Priced`); at most `MaxRows` 6 rows exist at a time (`FewRows`), three pairs, which is enough
for two transactions and a third that hangs on either; `MaxClock` 3 lets each of three pairs be
earlier than, equal to or later than another. In `BackOffice` `MaxClock`, `Period` and `Skew` 1
put a charge before, in, at the edges of and after a period, and `PageLimit` 1 cuts a list of
two. In `Gateway` `HandlerTimeout` and `MarkTtl` are 2 and `CompletedTtl` is 3: a mark is met
fresh and about to expire, and a record outlives a handler; the two 30 s of the code make the
first two equal. `Grouped` admits three requests at most, a rotation with two updates, or two
with the registration.

Symmetry is used for the interchangeable requests, payments, workers, callers and
schedulers, and only in runs without liveness. The requests of an instance are finite, so
the payment service, the ledger, the back office and the gateway come to rest and
`CHECK_DEADLOCK FALSE` is set; so it is for the webhook runs, where every scheduler may have
panicked.

### Fairness

* `PaymentService`: weak fairness of each started handler. tokio polls it and the HTTP
  client's timeout ends every wait. Clients, acquirer and fraud service owe nothing.
* `OutboxWorker`: weak fairness of each worker (the poll loop never ends, a send ends
  within 10 s) and of the ageing of leases. Nothing is assumed of the broker.
* `WebhookService`: weak fairness of the consumer, the schedulers and the clock; nothing
  of the endpoints. A scheduler that panicked is gone: the property excepts the case
  that all are.
* `Gateway`: weak fairness of `Tick` alone. A service may hang and a handler may never be
  polled again; the timeout and the entry's time to live release the key.

## 4. What is proved

For every value of the constants that satisfies the named assumptions
(`FeeAssumption`: the fee is a fraction between 0 and 1, and only whole fees fall short;
`RequestAssumption`: requests
of different kinds are different; `AmountAssumption`: amounts are positive, as the
validation demands; `FkAssumption`; `OutboxAssumption`: finitely many workers; `RouterAssumption`;
`WebhookAssumption`: finitely many schedulers; `LedgerAssumption`; `TimingAssumption`: a mark
lives no shorter than a handler; `RequestsDisjoint`; `ReconciliationAssumption`).

**Payment service** (`PaymentService_proofs`). `Invariance` proves `IInv`, one lemma per
action. None of the properties is inductive alone, and `IInv` adds what they rest on:

* `RowInv`: while a create is between its insert and its answer, its row is `created` or
  `cancelled`. This is why the unchecked failure write never lands on a captured payment.
* `KeyInv`, the unique index; with "a charge was sent only for a row that exists" it gives
  `ChargeOnce`.
* `AmountInv`: `captured_amount` is set exactly while the payment counts as captured;
  hence `COALESCE(captured_amount, amount)` is the captured amount where it is used, and
  `NoOverRefund` follows.
* `CaptureInv`, `RefundInv`, `RequestInv`: what a waiting handler may rely on.

From it: `TypeCorrect`, `ChargeOnce`, `NoPhantomCapture`, `LedgerExact`, `NoOverRefund`,
`OutboxExact`, `RepliesHold`, `CaptureStable`.

The sums are a layer of their own. `MoneyInvariance` proves `MoneyInv`, which adds to `IInv`:

* `RefundedInv`: the refunded amount of a row is the sum of its refund pairs, and also the
  sum of the amounts of the refund requests accepted for it;
* `TraceInv`: the tables are finite, and a request that was not accepted has no pair and is
  in nobody's sum. This is why the pair and the request that a reservation adds are new, and
  each sum grows by exactly the amount; and finiteness of the tables need not be assumed of
  the constants.

`BooksBalance` (`PayableMatchesRows`) follows: the capture and the fee pair of a payment are
one each or none (`LedgerMatchesPayments`), and the refunds the acquirer carried out are some
of the accepted ones.

**Sums** (`Sums_proofs`). A sum is a natural number, adds up over disjoint sets
(`SumDisjoint`), grows by what is added (`SumAdd`) and is monotone (`SumMonotone`).
`SubsetInduction` is induction over a finite set with the property given as a set of sets,
which the provers can instantiate where the library's theorem with an operator parameter
cannot be used.

**Settlement** (`BackOffice_proofs`). `SysInvariance`: `IInv` survives the settlement
workers. `PaidOnce`: a payment is settled exactly when one settlement of its own merchant
covers it. `SettlementStable`. `PayInvariance` proves `PayInv` (`MoneyInv`, the worker's types,
`PaidWithinCaptures`); `SettlementTypes`, `NeverOverpaid` and `BooksBalanceBesideSettlement`
follow. The argument of `NeverOverpaid` is `NetBound`: without rounding errors, truncating the fee
once, on a total, takes at least as much as truncating it for every payment (`FeeOfSum`), by
induction over the payments of a batch; f64 takes a unit less of a total in `Short`, and the
settlements with such a total are counted (`ShortCount`). A batch adds to the settled payments
a set disjoint from them.

**Reconciliation** (`BackOffice_proofs`). `OfficeInvariance` proves `OfficeInv`: `IInv`,
`ChargedBefore` (a payment was charged for its amount, at a time not further ahead than `Skew`)
and `RunInv` (what a run has read and has still to record is explained, and what is
due is among it; or, looked up by the wrong ids, all it has read is missing). `NoFalseAlarm` and
`FailuresReported` follow. Payments only move among
statuses for which the expected charge status is the same while they count as captured; this
is why comparing an old status with a newer list does no harm. `ReconciliationOnlyReads` is a
refinement, `OfficeSpec => SysSpec`: what is proved of the payment service and the workers
holds beside reconciliation (`BackOfficeBooks`).

**Ledger writer** (`LedgerChain_proofs`). `LedgerInvariance` proves `LedgerInv`: what an open
transaction has inserted (`RowsInv`) and the hash it goes on from (`PrevInv`) rest on
committed rows or its own. `ChainSound`, `DoubleEntry`, and `LedgerRefines`, the
implementation of `Journal`. `LedgerTypes` adds the types and that there are finitely many
rows. Two more invariants are needed for what the reads at READ COMMITTED lead to:

* `ForkInv`, for `ForksAreExplained`. The rows need no order by commit, and nothing is assumed of
  the clocks: it is enough that while nobody else commits and its own clock is ahead of what it
  sees, all a transaction sees is older than its `now` but for the debit in hand, a row is never
  older than the one it is hashed onto (`Later`), and the place where it hangs its debit is taken
  only by transactions that overlapped or whose clock was behind (`Alone`, `Astray`).
* `BalanceInv`, for `SerialBalances`. While nobody else commits, the balance that was read is
  that of the rows that were there before the leg (`Prior`), and every row already written
  carries it (`Exact`). Times play no part in it.

**Gateway and merchant service** (`Gateway_proofs`). `GatewayInvariance` proves `GatewayInv`.
Its heart is `MarksHold`: while a handler waits under a key that nobody raced for, the key
holds its mark, and the mark has at least the time left that the handler has. `MarksExclude`,
`SucceedsOnce`, `ReplaysEarned`, `RecordsStable`, `OptimisticLocking`, `RotationsLogged`.

**Outbox worker** (`OutboxWorker_proofs`). `DeliveryInv` has two parts. `HandoverInv` (a
worker that holds an acknowledgement, and a row marked published, are about an event the
broker has) gives `Refinement`, the implementation of `AtLeastOnce`. `AttemptsInv` counts the
workers that hold an event (`Holders`) together with its failures, and gives
`RetriesBounded`. `PublishingIsFinal` is the action property.

**Webhook service** (`WebhookService_proofs`). `WebhookInvariance` proves `WebhookInv`:
`ConsumerInv` (the offsets are in order, and of the message in hand the rows to come are not
there) and `RowInv` (rows exist only for messages that were marked as processed, once
each), `TaskInv` (a task that was answered 2xx was received) and `LimitInv` (attempts and
leases counted together). `SuccessReceived`, `RowsSingle`, `RetriesLimited`, `SuccessKept`.
`NothingElseIsLost` adds that a message behind the next offset is marked or was cut short, and
that a marked one which was not has its rows but for those still to come.

**Router** (`AcquirerRouter_proofs`). `Counters` proves `BreakerInv`, which relates the
breaker's counters to `streak`; `BreakersEarnTheirState` follows. `OpenAcquirersRest` rests on
`StrayInv`: while a breaker is open, whoever it has admitted and has not called yet was admitted
before it opened, for `Try` admits nobody to an open breaker. `NoCallIsRepeated` follows from an
invariant on the acquirers a caller has tried.

The inductive invariants (`IInv`, `MoneyInv`, `PayInv`, `OfficeInv`, `LedgerInv`, `ForkInv`,
`BalanceInv`, `GatewayInv`, `DeliveryInv`, `WebhookInv`, `BreakerInv`), which contain the types
of their modules, and `RotationsAudited` are left to the proofs.

Only model-checked: liveness (`EveryRequestAnswered`, `EventuallyResolved`,
`EveryDeliveryResolved`, `KeyIsReleased`), which is beyond the prover. Every invariant and
every action property of a passing run, and both refinements, are theorems.

## 5. What is not modelled

* Order service: both handlers extract an `Extension<Uuid>` that no layer inserts, so every
  request is answered 500 before its first statement, and the expiry loop finds no order.
* Vault service: `tokenize` binds text to the enum column `card_brand`, so PostgreSQL refuses
  every insert and no token exists; the rest is encryption.
* Ledger service: it branches on `event_type`, which no payload has, and does nothing.
* Disputes, `record_settlement`, `mark_settled`, `events.rs`: never called.
* Fraud service: it scores and decides nothing; its verdict is a free choice in
  `PaymentService`. Its velocity counters are only input to the score.
* Adapters, cryptography, telemetry: formatting and I/O. What adapters may answer is a free
  choice in `AcquirerRouter`.
* The gateway's rate limiter is a free refusal: its cells bound a rate and no state.
* Requests of the payment service do not pass the modelled gateway: the payment service reads
  another idempotency header than the gateway, so the two gates do not interact.
* Currencies: a settlement adds up every currency and writes INR.
* Integer widths: amounts are `i64` and far from its limits. Of f64 arithmetic what matters
  below an `amount * FeeNum` of 2^51 is modelled: the rate and the product are rounded, and a
  product that should be whole may be truncated to the number before (`Short`, any set of such
  amounts). Larger amounts, where any product may be off by more, are left out.
* The payment service and the settlement worker each read `SYSTEM_FEE_PERCENTAGE`
  (`settlement-worker/src/main.rs:19`); one rate is taken to be configured for both.

## 6. Plan

Built, in this order: payment service, settlement, outbox worker, router, webhooks; then
ledger chain, merchant service and gateway, reconciliation, with their proofs; then the proofs
about forks, balances and sums. Left:

1. `EventPipeline`: payment service, outbox worker and webhook consumer composed, with an
   abstract specification "every announced event reaches the matching endpoints".
2. `PaymentService` over the gateway, with the payment service's own header.
