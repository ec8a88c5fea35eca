# A TLA+ model of the book store's order processing

The repository is an online book store of twelve Go processes (`src/backend/cmd/*`) behind an HTTP/GraphQL gateway.
This directory holds TLA+ modules that model its core, the **checkout saga**, the **stock** it sells and the **ledger**
it is paid through, the **event pipeline** (outbox, brokers, consumers, search index), and the concurrent parts of the services around
them; the TLC configurations that check the modules, and TLAPS proofs about them. `PROJECT.json` maps every definition to the lines it
models and lists the hazards of the code with the properties that watch them.

Contents: [1 Inventory](#1-inventory) · [2 Modules](#2-modules-and-how-they-correspond-to-the-code) ·
[3 Runs](#3-runs) · [4 Bounds](#4-bounds-and-why-they-are-enough) · [5 Fairness](#5-fairness) ·
[6 Proofs](#6-proofs) · [7 Findings](#7-findings) · [8 Not modelled](#8-what-is-not-modelled) · [9 Plan](#9-plan)

## 1 Inventory

Paths are under `src/backend/`. Every service has its own PostgreSQL schema; services call each other by gRPC
(1.5 s deadline per call, 2 s per gateway request) and publish events through a transactional outbox to RabbitMQ
or Kafka. Nothing is transactional across two services: that is what makes the system hard.

| Component | State | Operations | Talks to | What makes it correct |
|---|---|---|---|---|
| **Book Service** `internal/book` | `catalog.books` (stock), `catalog.stock_reservations` (reserved, committed, released), `catalog.outbox_events`, Redis cache | Create, Update, Delete, ReserveStock, CommitStock, ReleaseStock | called by Order Service and gateway; catalog events to Search | no copy lost or promised twice; calls repeatable; reservations only advance; every transaction ends |
| **Order Service** `internal/order` | `orders.orders` (six statuses), items, cart, outbox, Redis cart cache | CreateOrder, CancelOrder, PayOrder, cart operations, Reconcile (ticker), HandlePaymentEvent (consumer) | Book and Payment Services by gRPC; payment events; order events to Notification and Analytics | an order ends confirmed (paid, stock committed) or cancelled (stock back, money back), and always ends |
| **Payment Service** `internal/payment` | `payments.payments`, wallets, double-entry ledger, webhook inbox, reconciliations, outbox | CreatePayment (wallet, gateway), ProcessWebhook, ReconcilePendingPayments, RefundPayment, AdjustBalance | called by Order Service; VNPAY; payment events | at most one payment per order, charged once, refunded once; ledger balanced |
| **Auth Service** `internal/auth` | accounts, refresh-session families, OAuth identities, roles, outbox | register, login, refresh (rotation), logout, delete, assign roles | account events to the worker | a reused refresh token kills its family; the last super administrator stays |
| **User Service, worker** `internal/user`, `internal/worker` | profiles | create, update, delete | consumes account events | a profile exists exactly while its account does |
| **Notification** `internal/notification` | inbox, notifications, e-mail and push deliveries | consume, claim, send, retry, register devices | SMTP, FCM | each event notifies once; each delivery is sent or given up |
| **Outbox dispatcher** `internal/platform/outbox` | outbox rows with lease | claim, publish, mark, release | RabbitMQ, Kafka | at least once, in order per aggregate |
| **Consumers** `internal/messaging` | broker queues and offsets | handle, retry, dead-letter | all services | no event lost; poison events set aside |
| **Chat, presence** `internal/chat`, `internal/gateway/http/chat_realtime.go` | messages with sequence numbers, previews, Redis presence counter, socket table | send, edit, delete, read; register, unregister, broadcast | Redis pub/sub | sequence without gaps; deleted text not shown |
| **Comment, Search, Analytics** | comments; Elasticsearch index; one row per order (`analytics.order_lifecycle`), activity counters | CRUD; apply catalog events; apply order events, report | Kafka | newest version wins; counted once; a row does not depend on the order of handling |
| **Gateway** `internal/gateway` | activity buffer | translation of requests | everything | events are not silently lost |
| **Front ends** `src/storefront`, `src/admin-portal` | browser state | pages | gateway | not modelled |

**Hard behaviour.** (a) Several requests for one order (double clicks, retries with the same `Idempotency-Key`,
several Order Service replicas), the reconciler and the payment consumer all run the same saga code on one order
at once, and its only synchronisation is the compare-and-set in `UpdateOrderState`. (b) A gRPC call that
fails may have taken effect, or take effect later. (c) Compensation is itself made of calls that fail. (d) The
stock transactions take row locks in two orders. (e) A gateway answers minutes later.

## 2 Modules and how they correspond to the code

| Module | Models | Form |
|---|---|---|
| `OrderIds` | order identities, shared by value | constant `Orders` |
| `StockContract` | what `internal/book/adapter/postgres/repository.go` promises: each call one atomic step | abstract specification, properties of stock |
| `BookStock` | the same transactions statement by statement under READ COMMITTED with row locks | detailed specification; implements `StockContract` |
| `OrderPayment` | the Payment Service as seen by the saga: one payment per order | actions composed by `OrderSaga`; `PaymentSpec` is the abstract specification of `PaymentLedger` |
| `PaymentLedger` | `internal/payment`: wallets, ledger, webhook inbox, reconciler, refunds, statement by statement | detailed specification; implements `OrderPayment` |
| `OrderLifecycle` | what readers of orders and of order events may rely on | abstract specification |
| `OrderSaga` | `internal/order/application/service.go` with its repository; composes `StockContract` and `OrderPayment`; implements `OrderLifecycle` | detailed specification |
| `OutboxRelay` | `internal/platform/outbox/dispatcher.go`: leases, several dispatchers, a topic partition | extended by `CatalogFeed` and `ProfileSync` |
| `CatalogFeed` | catalog events from the stock transactions over Kafka to Elasticsearch | composes `OutboxRelay` with the Kafka consumer |
| `ProfileSync` | accounts, account events over RabbitMQ, profiles | composes `OutboxRelay` with the RabbitMQ consumer |
| `CartCache` | the versioned Redis cache of a cart, with singleflight and stampede lock | component |
| `RefreshSessions` | refresh-token families: rotation, reuse, logout | component |
| `RoleAdmin` | roles and permissions under the advisory lock | component |
| `NotificationDelivery` | e-mail and push deliveries, claims, outcomes, devices | component |
| `ChatConversation` | messages, edits, deletions and the preview of a conversation | component |
| `ChatHub` | the WebSocket hub: register, unregister, broadcast, presence counter | component |
| `OrderReadModel` | the analytics row of an order, column by column; an INSTANCE of `OrderLifecycle` says which events an order announces | component |
| `StockProofs`, `BookStockProofs`, `SagaProofs`, `LedgerProofs`, `EventProofs`, `AuthProofs`, `CartProofs`, `MessagingProofs` | theorems about the modules they extend | TLAPS, section 6 |
| `MCBookStock`, `MCOrderSaga`, `MCPaymentLedger`, `MCCatalogFeed`, `MCServices` | instances: symmetry, quantities, amounts, clocks; `MCServices` runs the components that share no state | for TLC |

```
OrderIds <- StockContract <- BookStock            (BookStock  => StockContract, property StockSpec)
   |             +------- <- OrderSaga            (OrderSaga  => OrderLifecycle, property LifecycleSpec)
   +-- OrderPayment ------------^
   |        ^--(INSTANCE)- PaymentLedger          (PaymentLedger => OrderPayment, property SagaPaymentSpec)
   +-- OrderLifecycle  (INSTANCE)-^

OutboxRelay <- CatalogFeed <- MCCatalogFeed
     ^-------- ProfileSync <- MCServices -> CartCache, RefreshSessions, RoleAdmin, NotificationDelivery,
                                            ChatConversation, ChatHub, OrderReadModel

proofs:  StockContract <- StockProofs <- BookStockProofs (-> BookStock), SagaProofs (-> OrderSaga)
         LedgerProofs -> PaymentLedger, with an INSTANCE of OrderPayment
         EventProofs -> CatalogFeed, ProfileSync        AuthProofs -> RefreshSessions, RoleAdmin
         CartProofs -> CartCache, OrderReadModel        MessagingProofs -> ChatHub, ChatConversation, NotificationDelivery
```

**Stock.** `listed` and `stock` are the rows of `catalog.books`, `resState` and `resQuantity` the rows of
`catalog.stock_reservations` (`"none"`: no row), `UNIQUE (order_id, book_id)` being the shape of the functions.
`supply` is a history variable: the copies the shop owns, set when a book is created or an administrator edits its
stock. `ReserveStock`, `CommitStock`, `ReleaseStock`, `CreateBook`, `UpdateBook`, `DeleteBook` are the repository's
methods. In `BookStock` a connection's record `tx[t]` says which statement comes next; `bookLock` and `resLock` own
the row locks; writes become visible in the step that commits. `ReserveLookup` is the unlocked first SELECT,
`ReserveLocked` the SELECT FOR UPDATE of the book with the second lookup and the stock check, `TransitionLocked`,
`ReleaseLockBook` and `TransitionCommit` the body of `transitionReservation`, `EditLocked`, `DeleteCheck` and
`EditCommit` an UPDATE or DELETE with its foreign-key check. `Abort` is a cancelled context or lost connection, and
`DeadlockVictim` is PostgreSQL's deadlock detector. A transaction's pc after it ended (`ok`, `refused`, `aborted`)
is the answer its caller gets.

**Saga.** One process per request (`Clients`) and per reconciler or event consumer (`Workers`). A process record
holds the call that comes next (`pc`), the order, the lines still to be done (`todo`), why stock is being released
(`mode`), the errors joined so far (`errs`), the status read before (`seen`) and the chosen provider (`via`).
Each action is one call of the Go function:

| Go | Actions |
|---|---|
| `CreateOrder`, `reserveOrder`, `releaseItems` | `CreateOrder`, `Reserve`, `Undo`, `Reject`, `Reserved`, `ClearOrderedCartItems` |
| `CancelOrder`, claim in `Reconcile` | `CancelOrder`, `Reconcile`, `Claim` |
| `PayOrder` | `PayOrder`, `BeginPayment`, `Charge`, `Debit`, `Lookup`, `Commit`, `Confirm`, decline via `Release`, `Close`, `RestoreCartItems` |
| `reconcilePaymentPending`, `HandlePaymentEvent` | `HandlePaymentEvent`, `Inspect`, then `Commit` or `Release` |
| `reconcileCompensation`, `compensatePaidOrder`, `releaseItemsStrict` | `Refund`, `Release`, `RestoreCartItems`, `Close` |
| `UpdateOrderState`, `BeginPayment` in `repository.go` | operator `UpdateOrderState` (compare-and-set, same status is success) with the outbox row in `events` |

`CallBookService` and `LosePayment` give every remote call its three outcomes: done and answered, refused, or failed
for the caller with the request put into `inflight`, where `Deliver` later carries it out or drops it. A failed
`UpdateOrderState` or cart write may have committed. `Crash` ends a process between any two calls; an expired request
deadline is the same thing, because every later call of the handler then fails at once. The order in which a map or a
cart is walked is left open (`\E b \in todo`). `Expire` and `GraceEnds` are the two time conditions of
`ListOrdersForReconciliation`; `Payments` is the rest of the Payment Service (webhook, reconciliation, wallet use).

The wallet charge is two steps, because `CreatePayment` looks for an existing payment *before* it locks the wallets
and compares the funds *before* the unique index on `order_id` can object; the interval is where two of the hazards are.
Amounts are counted in whole order totals, the cart in one value per order.

**Ledger.** `wallet` is `balance_cents` by owner, `ledger` the set of committed ledger transactions with their entries (a
function of owners), `status`, `via` and `announced` the payment row and its outbox event, `inbox` the webhook events
consumed, `gateway` what really happened to the buyer's money at VNPAY. A worker's record `tx[t]` is its open
transaction: which wallets it has still to lock (`todo`) and the balances it has read (`seen`), from which it writes absolute
numbers, as `updateWalletBalance` does. `walletLock` and `payLock` own the row locks; wallets are locked in the order
of `owner_id` by payments and adjustments and of `id` by refunds, as in the code, so that they can wait for each other in a
circle (`Abort` is also the deadlock detector). `Fee` is `feeCents` with its integer division, `Deltas` the map built at
the head of `CreatePayment`. The refinement `SagaView` maps wallets to whole order totals; every order of the instance has a
buyer of its own, who sells nothing, because `OrderPayment` counts one balance per order.

**Events.** A row of `outbox` is `free`, `held` (claimed less than a minute ago), `waiting` (backing off) or
`published`; its number in the sequence is its identity. `Claim` is the SELECT with its NOT EXISTS on the predecessor;
`Publish` may fail after the broker stored the record; `MarkPublished` and `ReleaseWithError` write by id alone, whoever
holds the lease by then; `Waited` lets a lease end at any moment. The Auth Service has a dispatcher of its own with
the same statements. `CatalogFeed` adds the rows of the catalogue (`shelf`), the payloads (`feed`, whose version is the
clock read before the row lock was granted), and the consumer: `Process`, `SetAside` (dead-letter topic),
`DeadLetterFails`, `Restart` at the committed offset; `index` is the document with the version Elasticsearch compares
(`external_gte`), and `ForgetDeletion` the minute after which Elasticsearch forgets the version of a deleted document.
`ProfileSync` adds accounts, the RabbitMQ deliveries with their attempts and dead letters, and the
profiles.

**Services.** `CartCache`: a reader's record says where in `loadCartCache` it is; `Leads` is singleflight (one leader per
replica and key), `stampede` the Redis lock, `since` (history) the newest change that had returned when the request began.
`RefreshSessions`: `rotation[q]` is an open transaction of `RotateRefreshSession`, `LockRow` its FOR UPDATE, and
`DetectReuse`/`RevokeFamily` the UPDATE of a family in its two parts: the rows its snapshot finds, and their
change after waiting for locks. `RoleAdmin`: `view[q]` is what a transaction has read; `AuthorizationLock` makes it the
only one. `NotificationDelivery`: `ClaimRetryable` counts the attempt, `Send` calls the provider, `RecordOutcome` writes by
id. `ChatConversation`: `FindMessage` reads without a lock, `UpdateMessage` and `SoftDeleteMessage` write. `ChatHub`:
`broadcasting` is the read lock of `clientsMu`, held while the Auth Service is asked about each socket. `OrderReadModel`:
`Announce` is `writeOrderEvent`, along the edges of `OrderLifecycle` and with any clock, since each replica reads its own before it has
the row; `Inserted` is the INSERT, `Fills` and `Sets` the columns `eventTimes` and `terminalEventTimes` give an event, and `Upsert` the
ON CONFLICT clause: state by the later clock (`last`, `at`), timestamps by COALESCE, `created` never changed. `overtaken` (history) is the
set of events handled after a later one.

These services share no state and no module with one another, so `MCServices` runs each in behaviours of its own (the variable
`service` picks one; the others stay as they start), with the instance of each in one configuration.

## 3 Runs

| Run | Configuration | Shows | Distinct states |
|---|---|---|---|
| `stock` | `BookStock.cfg` | `StockConserved`, `ReservedBooksListed`, `ReservationsOnlyAdvance`; `HonestAnswers`: a repeated reserve is never refused while the line is held, OK never said of a line not held; `StockSpec`: the transactions implement the atomic contract | 249,922 |
| `stock_live` | `BookStockLive.cfg` | `CallsReturn`: every transaction ends, also when a delete and a release wait for each other | 7,411 |
| `saga` | `OrderSagaFaults.cfg` | with a failure anywhere and two requests and a reconciler interleaved: `PaidBeforeConfirmed`, `CancelledHoldsNothing`, `RefundedBeforeClosed`, `CompensatedInCart`, and `LifecycleSpec` (status and announced events move only along the edges readers expect) | 1,017,392 |
| `saga_calm` | `OrderSagaCalm.cfg` | two orders compete for the last copy, no failures: an order at rest is wholly delivered (`ConfirmedIsDelivered`) or wholly undone (`CancelledIsUndone`); `NeverOversold` | 112,972 |
| `saga_live` | `OrderSagaLive.cfg` | `OrdersFinish`: every order is eventually confirmed or cancelled | 8,339 |
| `saga_retry` | `OrderSagaRetry.cfg` | **violated**: `ConfirmedStaysCommitted` | |
| `saga_decline` | `OrderSagaDecline.cfg` | **violated**: `CancelledKeepsNoMoney` | |
| `saga_stuck` | `OrderSagaStuck.cfg` | **violated**: `RefundedOrdersClose` | |
| `ledger` | `PaymentLedger.cfg` | two workers run any mix of adjustments, wallet and gateway payments, webhooks, reconciliation and refunds of two orders, and die anywhere: `TransactionsBalance`, `WalletsMatchLedger`, `NoOverdraft`, `PostedAsStatusSays`, `GatewayMoneyIsReal`, `ConsumedIsApplied`, and `SagaPaymentSpec`: the transactions implement the payment service of the saga | 416,241 |
| `catalog` | `CatalogFeed.cfg` | two dispatchers and a restarting consumer: `PublishedIsInTopic`, `NoOvertaking`, `IndexKeepsUp`, `SearchShowsCatalog` | 2,870,295 |
| `lost_record` | `CatalogLost.cfg` | **violated**: `CommittedIsProcessed` | |
| `services` | `Services.cfg` | eight components, one per behaviour: `FreshRead`, `OneActivePerFamily`, `ReuseEndsFamily`, `SuperAdminRemains`, `GainedFromActor`, `ProfilesFollowAccounts`, `SendsBounded`, `PreviewIsOfLast`, `NoSendOnClosed`, `ReadModelConverges` | 1,460,443 |

Each property of a passing run has a mutant in `PROJECT.json`: an operator defined just before the one it replaces
(`ReserveUnlocked` before `ReserveLocked`, and so on), which changes the code the way a plausible bug would and makes
TLC report that very property.

Deadlock checking is off in the saga's runs without wallet changes (once every order is confirmed or cancelled there is
nothing left to do) and in `ledger`, `catalog`, `lost_record` and `services` (once the keys, events, tokens and
messages of the instance are used up there is nothing left to do). What waits for a lock is never stuck in these: `Abort`,
`RotationFails` and `ChatTxFails` are always possible, as a cancelled context is in the code.

## 4 Bounds and why they are enough

* `stock`: two connections, two orders, one book, quantities up to 2, stock up to 2. Transactions on different books
  share no row, so one book holds every conflict; lock conflicts and cycles involve two transactions; two orders give a
  reservation to delete against and one to make; quantity 2 tells a copy from a line. Three connections are beyond the time
  limit and would add only convoys on the same lock.
* `saga`: one order, because orders of one shop meet only in the stock, which `saga_calm` covers with two; two books, so
  that calls can fail half way through the lines; two requests and one worker, the least in which every pair of
  handlers overlaps and a third takes over; `MaxFaults` 1. With one book two faults were explored as well (1.8 million
  states, no violation).
* `saga_calm`: two clients, one worker, two orders of one copy each, stock 0 or 1, wallets empty or ample. `PromptCalls`
  says that no timer runs out while a request is in progress (1.5 s calls against 30 s and 15 min), and `Overlapping`
  excludes a second `POST /orders` during another request, since `saga_retry` shows what that does. Wallets holding
  exactly one total are excluded because of `saga_decline`.
* `saga_live`: one request at a time and one failure. With two failures (run `saga_stuck`), or with a second concurrent
  request and one failure, an order may never finish. The model's sellers can always fund a refund; in the code a refund
  fails while a seller's wallet is short (`reversePaymentLedger`), and the compensation waits as long.
* `ledger`: two workers, two orders with different buyers, one seller of both, the platform selling part of the second
  itself; one top-up that pays the first order exactly and one withdrawal by the seller, which makes a refund fail. 15, 25 and 5 cents at 10%
  give fees that are rounded down and a fee of 0. Lock cycles and lost updates involve two transactions.
* `catalog`: two dispatchers, two books, two events (`MaxEvents`), three records in the partition (`MaxTopic`, so one event is published
  twice). Overtaking and a stale document need two events of one book; the loss of a record needs the one after it.
* `services`: the cart with three readers, two in one replica and one in another, one writer and two revisions; two readers, two writers
  and three revisions were explored apart (277,368 states, no violation). Sessions: three tokens (`Tokens`), two rotations. Roles:
  three people, two of them super administrators, one custom role, two transactions, assignments of up to two roles (`MaxRoles`,
  30 in the code). Profiles: one dispatcher, two accounts that use one e-mail address, three events, one retry (`MaxDeliveries`).
  Deliveries: one event, e-mail and one device, two workers, two attempts (`MaxAttempts`). Chat: two members, two
  transactions, two messages (`MaxMessages`), texts up to `MaxEdits`. Hub: three sockets of one user, one place in each
  channel (`SendBuffer`, 64 in the code). Report: every history of one order (up to five events), each event with one of three clocks (`Clocks`), so that clocks may rise, be equal or go back,
  handled in every order.
* The bounds in guards and types are `MaxQuantity`, `MaxStock`, `MaxBalance`, `MaxFaults`, `MaxEvents`, `MaxTopic`, `MaxRevision`,
  `MaxMessages`, `MaxEdits`, and the finite sets `Tokens`, `Sockets` and `Adjustments`; `MaxDeliveries`, `MaxAttempts`, `MaxRoles` and
  `SendBuffer` are limits of the code, made small.

`CancelledHoldsNothing` speaks of orders that have reached `stock_reserved`: before that the code releases with best
effort (`releaseItems`), so that one lost `ReleaseStock`, or a `ReserveStock` that arrives late, leaves a rejected
order holding stock. `saga_calm` checks the unrestricted statement where no call fails.

Some properties name what the code does not promise:

* `FreshRead` counts a change from the moment its writer has invalidated the cache. `RestoreCartItems` (a cancelled order gives its lines
  back) never does, although `src/backend/README.md:899` says that every change of the cart raises the version: the lines stay
  hidden until the next change or the TTL. An invalidation that fails is a warning in the code and is not promised either.
* `ReuseEndsFamily` leaves out a rotation that overlaps the detection of reuse: the UPDATE of the family does not see the
  replacement another transaction is inserting, which stays usable until it is rotated itself. `OneActivePerFamily` holds throughout.
* `ProfilesFollowAccounts` excepts accounts whose registration was handled, again or for the first time, after their deletion (history variable
  `late`): there is no tombstone, so the profile stays.
* `IndexKeepsUp` and `SearchShowsCatalog` except books whose deletion Elasticsearch has forgotten (`forgotten`): a copy of an
  older event published by a second dispatcher after the deletion, and handled more than a minute after it, makes the book searchable
  again. `SearchShowsCatalog` also speaks only of books whose versions follow their commits.
* `PreviewIsOfLast` says nothing of the preview of a deleted newest message: an edit that read the message before it was deleted
  writes its text over the preview.
* `ReadModelConverges` promises the newest of several events with equal clocks, and the right `created_at`, only for events that were not
  overtaken. Otherwise `created_at` is the clock of whichever event was handled first: nothing corrects it, and `OrderReport` selects by it and
  subtracts it from `confirmed_at`. The dispatcher keeps the order of first copies (`NoOvertaking`), but an event in the dead-letter topic
  is overtaken by its successors, whether or not it is published again.
  If the clocks themselves go back from one event to the next, the row keeps the older status for good.

## 5 Fairness

* `BookStock`: strong fairness of each transaction's next statement. PostgreSQL queues waiters of a row lock, so a
  transaction that can proceed again and again is not passed over for ever. Weak fairness of the deadlock detector, which
  runs after `deadlock_timeout`. Nothing makes callers call.
* `OrderSaga`: weak fairness of every process's next call (a goroutine runs, a call returns or times out); strong
  fairness of the reconciler for each order it lists (the ticker of `runReconciler` never stops, and orders are listed oldest first
  up to the batch size); time passes (`Expire`, `GraceEnds`); a gateway eventually settles a pending payment
  and an accepted refund. No fairness of customers, of lost calls, or of payment events: liveness does not rest on them.
* The other modules state no fairness: their properties are safety properties. `lost_record` is a safety counterexample.

## 6 Proofs

Every theorem below is about the specification TLC runs, for every value of the constants that the modules' assumptions
allow. Every safety invariant of every passing run is proved, and so are all four action properties and all three refinements;
two groups of theorems state hypotheses on the constants (`Calm`, `OneOrderEach`), explained below, which the instances of their runs satisfy. What is
left is liveness.

| Module | Theorem | States | Of |
|---|---|---|---|
| `StockProofs` | `StockSafety` | `StockTypeOK`, `StockConserved`, `ReservedBooksListed` | `StockSpec` |
| | `ReservationLife` | `ReservationsOnlyAdvance` | `StockSpec` |
| `BookStockProofs` | `TransactionsAreAtomic` | `StockSpec`: the transactions implement the atomic contract | `BookStock` |
| | `TransactionsConserve`, `TransactionsAdvance` | `StockConserved`, `ReservedBooksListed`; `ReservationsOnlyAdvance` | `BookStock` |
| | `AnswersAreHonest`, `TxTypes`, `TxSafety` | `HonestAnswers`; `TxTypeOK`; the invariant `TxInv` | `BookStock` |
| `SagaProofs` | `OnlyPaidOrdersConfirmed`, `CancelledOrdersHoldNothing`, `RefundComesFirst`, `CompensationRestoresCart` | `PaidBeforeConfirmed`, `CancelledHoldsNothing`, `RefundedBeforeClosed`, `CompensatedInCart` | `OrderSaga` |
| | `SagaConservesStock` | `StockConserved`, `ReservedBooksListed` | `OrderSaga` |
| | `SagaImplementsLifecycle` | `LifecycleSpec`: the saga implements `OrderLifecycle` | `OrderSaga` |
| | `SagaTyped`, `SagaSafety` | `SagaTypeOK`; the invariant `SagaInv` | `OrderSaga` |
| | `ConfirmedOrdersDelivered`, `CancelledOrdersUndone`, `ShopNeverOversold` | `ConfirmedIsDelivered`, `CancelledIsUndone`, `NeverOversold`, where `Calm` | `OrderSaga` |
| | `CalmSafety` | the invariant `CalmInv`, where `Calm` | `OrderSaga` |
| `LedgerProofs` | `EntriesBalance`, `BalancesMatchLedger`, `NobodyIsOverdrawn` | `TransactionsBalance`, `WalletsMatchLedger`, `NoOverdraft` | `PaymentLedger` |
| | `ChargedOnceRefundedOnce`, `GatewayIsAhead`, `EventsTakeEffect` | `PostedAsStatusSays`, `GatewayMoneyIsReal`, `ConsumedIsApplied` | `PaymentLedger` |
| | `LedgerImplementsPayments` | the ledger implements `OrderPayment` under the mapping `RowView` | `PaymentLedger` |
| | `LedgerImplementsBalances` | `SagaPaymentSpec`: it implements `OrderPayment` with balances, where `OneOrderEach` | `PaymentLedger` |
| | `LedgerTypes`, `LedgerSafety` | `LedgerTypeOK`; the invariant `LedgerInv` | `PaymentLedger` |
| `EventProofs` | `NoEventIsLost`, `EventsKeepTheirOrder` | `PublishedIsInTopic`, `NoOvertaking` | `CatalogFeed` |
| | `IndexNeverGoesBack`, `SearchConverges` | `IndexKeepsUp`, `SearchShowsCatalog` | `CatalogFeed` |
| | `CatalogTypes`, `CatalogSafety` | `CatalogTypeOK`; the invariant `CatalogInv` | `CatalogFeed` |
| | `ProfilesConverge`, `SyncSafety` | `ProfilesFollowAccounts`; the invariant `SyncInv` | `ProfileSync` |
| `AuthProofs` | `RotationKeepsOne`, `ReuseRevokesFamily`, `SessionSafety` | `OneActivePerFamily`; `ReuseEndsFamily`; the invariant `SessionInv` | `RefreshSessions` |
| | `SuperAdminKept`, `GrantsComeFromActor`, `RolesAreLocked` | `SuperAdminRemains`; `GainedFromActor`; the invariant `RoleInv` | `RoleAdmin` |
| `CartProofs` | `CartReadsAreFresh` | `FreshRead` | `CartCache` |
| | `ReportsConverge` | `ReadModelConverges` | `OrderReadModel` |
| `MessagingProofs` | `HubNeverSendsOnClosed`, `ConversationPreview`, `DeliveriesBounded` | `NoSendOnClosed`, `PreviewIsOfLast`, `SendsBounded` | `ChatHub`, `ChatConversation`, `NotificationDelivery` |

**Stock.** `StockInv` is the conjunction of the three properties: `StockConserved` is not inductive alone, since a
release adds to the stock of a book only if the book is still listed (`ReservedBooksListed`), and counting needs the
type invariant to know that the held copies of a book are a finite set. `HeldCopies(b)` has one element per copy; `LineCounts` says
that a line of quantity q contributes exactly q, `ReserveMoves` and `ReleaseMoves` that a reservation adds and a release removes
precisely one line.

**Stock transactions.** `TxInv` adds to `StockInv` the types of connections and locks and, for each transaction, `Secured(t)`: which
row locks it holds at its present statement, and that what its checks found under them (the book is listed, the stock suffices, there
is no reservation yet, the reservation is held) is still so. A step of another transaction cannot change those rows, for it would need
the same lock. Therefore the one step that makes writes visible is the step of the contract, and all others leave the contract's
variables alone: the refinement. What `StockProofs` shows then holds of the transactions with no further induction.

**Saga.** `SagaInv` is `CoreInv /\ HandlersOK`. `OrderOK(o)` says what is true of an order whoever works on it; `HandlerOK(r)` what a
handler knows at each of its calls: which lines it has reserved, committed or released so far, that the payment it goes by has
succeeded, why it is compensating. The knowledge is of a kind no other process can take away: `StockOnward`, `PaymentOnward` and
`StatusOnward` list what never goes back (a reservation, once made, exists; committed or released stays so; a paid payment stays paid
or is refunded; a status at or after `payment_pending` does not return), and each step is proved to satisfy them (`CoreStep`). So the proof treats one
handler's step at a time: what it does to the order, what it learns itself, and that the others' knowledge survives. Late deliveries and
crashes are steps like any other; the number of failures is not used. The same `CoreStep` carries the refinement of `OrderLifecycle`.
`CancelledHoldsNothing` depends on `Freed`, and on a compensation releasing every line before it closes (`"release" \notin r.errs`).

**The calm saga.** `SagaInv` cannot show that a confirmed order has all its copies or that a cancelled one has nothing: with failures
neither is so, and `saga_retry` and `saga_decline` show it even without. `Calm` names what excludes that, in constants only: no call
fails (`MaxFaults = 0`) and no timer runs out during a request (`PromptCalls`); no `POST /orders` begins while another request of its order is
in progress (`"create" \notin Overlapping`, the case of `saga_retry`); no wallet changes meanwhile or holds exactly one total, and an order has
one provider (the two ways into `saga_decline`: a decline on a second attempt after the first has been paid). Any number of clients, workers, orders,
books and cancellations, and overlapping payments of one order, remain. These are strong hypotheses: under them a paid order is always
confirmed, so that no refund ever happens, and what the three theorems say of refunds is that none is needed. `CalmInv` adds to `SagaInv` what an order is like at each status (`CalmOrder`: its
money never comes back from `succeeded`, and from `stock_reserved` to `confirmed` it holds every line unless it can never be paid), what a handler knows (`CalmHandler`: nothing
has failed, so it holds, has committed or has freed exactly the lines behind it), and who is at work (`CalmHandlers`: one request places an order, and as long as
it is pending that request goes on; whoever waits for a payment has somebody paying). The hard case is an order claimed for
cancellation while its request is still reserving: a line of a cancelled order may be held, but only by the request that will find out
and give it back (`WillUndo`, `Gone`), which is why `CancelledIsUndone` speaks of orders at rest. As in `CoreStep`, each handler's step is
shown to keep its own order and knowledge, to owe the others what `Owes` says, and to respect what those that pay (`BilledOnward`) and those that place
an order (`PlacedOnward`) rely on; `CalmStays` and `CalmMoves` then carry the invariant over. `NeverOversold` follows by counting: the copies
of the confirmed orders are a part of `HeldCopies(b)`, which `StockConserved` has taken off the shelf.

**Ledger.** First sums: `SumFunctionOnSet` is a fold over a finite set in an order chosen by CHOOSE. Its usual laws (one element
out, a changed entry, pointwise sums, images) need induction over a finite set, which the library states with an operator parameter. They are
proved here from the well-foundedness of strict inclusion on finite sets: `SetInduction` takes a smallest counterexample out
of a *set* of subsets, so that no operator parameter is needed. From them follow `FeeBounds` (a fee rounded down never exceeds its amount),
`DeltasBalance`, `AdjustBalances` and `ReversalBalances` (what is posted sums to zero), and `PostingKeepsBooks` (writing the
balance read plus the entry keeps wallet and ledger equal). `LedgerInv` is what the rows say (`BooksInv`) and what open
transactions know (`CallsInv`). Its heart is `ReadsHold`: a balance a transaction has read is the balance as long as it holds
the wallet's lock, so that an absolute write is not a lost update. `CallOK` says which payment row it has locked and in which
status, so that no second worker posts for the same order; `EntriesOK` that the ledger has one transaction per kind and reference.
`Frame(t)` and `CallsKept` say once and for all what a step of one worker leaves to the others.

`LedgerImplementsPayments` maps an order's abstract balance to 0 if its total has been taken from the buyer's wallet and to 1 if not.
It shows for all constants that payments of an order go through the steps the saga relies on: charged once, failed or succeeded for good, refunded once.
`LedgerImplementsBalances` is the mapping of the run `ledger`, the whole totals in the buyer's wallet. `OrderPayment` counts a balance for each order, and therefore it has
the hypothesis `OneOrderEach`: no two orders have one buyer, buyers are allocated nothing, and totals are positive (`CreatePayment` turns
others down, `service.go:124`). Its invariant is `PurseInv`: what a buyer has, with what the order took from him put back (`Purse`), and all that may still be
paid in are together no more than all top-ups, which bounds the balance; and the entries of a payment take from the buyers exactly what status and
provider say (`TakesTotal`), which makes a refund give back one total. Every step leaves all purses as they are or is an adjustment of one (`PurseMove`), and
moves one payment row at most (`RowsMove`, common to both mappings); `DivStep` says that one total more or less is a balance of one more or less.

**Events.** `ClaimsFollow` is the inductive strengthening for the outbox: what a dispatcher has claimed has its predecessors
published, for good, because `published` is final; and what it is about to mark is in the topic. Both outlast the
lease, and so another dispatcher with the same row changes nothing. `InOrder` is `NoOvertaking` in a form a step extends.
`CatalogInv` adds that the newest event of a book describes its row (`ShelfIsNewest`) and that a document is one of the book's events
(`DocumentsAreRecords`). `SyncInv` says in addition that a message that is neither queued nor discarded has had its effect (`SettledIsDone`).

**Services.** Sessions: a locked row is what its transaction read (`LockedRowsStay`), and a transaction that is alone in its family has seen all of it
(`AloneSeesAll`). Roles: under the advisory lock the one open view is the present state but for accounts registered since (`ViewsHold`).
Cart: under the current version there is nothing older than what was acknowledged, under versions to come nothing at all (`CurrentIsFresh`),
and each step of the version is one change of the cart (`VersionCounts`). Chat: the conversation row has
one holder, who writes the next number (`NextIsFree`). Hub: nothing leaves `clients` during a broadcast, and what is in `clients` is open.
Deliveries: each call of the provider, made or due, was counted when the row was claimed (`CallsAreCounted`).
Report: COALESCE keeps whichever timestamp comes first, so a column is independent of the order of handling only if one event sets it. That rests on the
order's life: each edge of `OrderLifecycle` raises `Rank` (`EdgesRise`), hence the statuses announced rise strictly (`StatusesRise`), and the statuses that fill in one
column, `confirmed` and `compensation_pending` for `payment_succeeded_at`, have one rank (`OneRankPerColumn`).

**Assumptions.** Those the modules name: `OrdersAssumption` (finitely many orders, at least one), `StockAssumption` (the bounds are natural numbers),
`TxAssumption` (there is a book; `Free` is no connection), `SagaAssumption`, `BalanceAssumption`, `LedgerAssumption` (finitely many owners and
adjustments; nobody is allocated part of his own order and the fee is between 0 and 100%, both checked by
`CreatePayment`, `service.go:137` and `150`), `RelayAssumption`, `WritersAssumption` and `SendersAssumption` (finitely many writers and workers, the attempts a natural
number), `ClockAssumption` (clocks are positive numbers, 0 standing for NULL), `AdminsAssumption`. Wallets, amounts and clocks are unbounded integers, BIGINT columns in the code.
`SuperAdminKept` has the hypothesis `FirstAdmins # {}`: migration 020 makes the oldest administrator a super administrator.

**Left to TLC.** Liveness (`CallsReturn`, `OrdersFinish`), which the provers do not handle under fairness. The four violated
properties, of course. Before each proof TLC checked the inductive invariant on the instance of the run: `SagaInv` on that of `saga`
(1,017,392 states), `CalmInv` on that of `saga_calm` (112,972) and on two others with a third client or a second worker, `LedgerInv` and `PurseInv` on that of
`ledger` (416,241).

## 7 Findings

1. **A repeated `POST /orders` undoes a confirmed order** (`saga_retry`; `service.go:333-339`). Two requests with one key both
   run `reserveOrder` on the pending order. The slower one finds, after the order has been paid and confirmed, that
   `pending -> stock_reserved` is refused, and releases all reservations; `transitionReservation` releases committed ones too. No call fails.
2. **A declined wallet payment cancels an order that is being paid** (`saga_decline`; `service.go:460-469`). The decline path
   does not ask whether a payment of the order exists; a gateway checkout created in the meantime is paid and never refunded.
3. **A compensation that is interrupted is never resumed** (`saga_stuck`; `service.go:145-147`, `507-523`). `compensatePaidOrder` refunds
   first and writes the status last; if the process dies in between, the order is `payment_pending` with a refunded payment, for which
   `reconcilePaymentPending` returns `ErrOrderState` on every pass.
4. **A Kafka record can be lost** (`lost_record`; `internal/messaging/kafka/consumer.go:104-112`). When the handler and the dead-letter
   publication both fail, the record is left uncommitted, but the loop polls the next record, whose commit passes the first.
   `src/backend/README.md:914-916` says that the offset is committed only after processing or a successful dead letter.

Seen while modelling, without a run of its own: a crash between INCR and EXPIRE leaves a presence key without a TTL
(`chat_realtime.go:265-267`); a delivery whose worker dies during its last attempt stays `sending` for ever, since only rows with
attempts left are claimed; an answer "invalid registration" that arrives late disables a device that has registered a new token
meanwhile (`DisableInstallation`); a gateway refund that is accepted and then turned down leaves the payment `refund_pending`;
the order report counts a payment as succeeded when an order is claimed for compensation, even if it was cancelled or expired
before any payment (`eventTimes`, `internal/analytics/adapter/postgres/repository.go:334-335`), so that the success rate of payments
(line 311) can exceed 100%, and its `failure_stage`, which keeps the first value handled, calls such an order `stock_commit`; an account that takes over the
e-mail address of a deleted one gets its profile only after the old profile is gone, and may reach the dead-letter queue first.

## 8 What is not modelled

Prices of the order (integers added up, no control depends on them), pagination and reads, request validation, formatting of events,
logging, tracing; the second unique index (buyer, idempotency key). A provider that is not configured is answered `FailedPrecondition`,
which the Order Service takes for a declined payment; the model has configured providers only. The adjusted wallet is never a system
wallet (`LedgerAssumption`). Components left out are in `PROJECT.json`, each with its reason: comments, the activity tracker,
the book cache (the scheme of `CartCache` again), reindexing, OAuth transactions, and one-statement updates of one row such as a profile's
fields or a notification's read mark.

The map covers a small share of the repository's lines, and faithful modelling cannot make it a large one: of the 47,000 lines counted,
most are generated (gqlgen, protobuf and swagger output alone are over 20,000), the two Vue front ends, and translation between HTTP,
GraphQL, gRPC and the application services, with configuration, logging and telemetry. They hold no state that outlives a request. The
state of the system changes in the services' repositories and application services, the dispatchers, the consumers, the caches and the hub; these are
what the modules model.

## 9 Plan

Done: every module of section 2, every run of section 3, every theorem of section 6.

What could come next: the cart's and the hub's components with more than one user at a time in one model, a second component for the book cache
(the scheme of `CartCache` with another key), and comments, whose reply and hide meet in no transaction.
