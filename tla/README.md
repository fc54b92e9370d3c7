# Formal models of the seat booking system

TLA+ modules that model the behaviour of this repository, TLC configurations
that check them on small instances, and proofs (TLAPS) that the core of it is
correct for instances of any size. Line numbers refer to the source as it is
beside this directory.

## The system

| Part | State it keeps | Operations | Talks to |
|---|---|---|---|
| **order-service**, orders (`order.service.ts`) | PostgreSQL: `seats`, `orders`, `payments` | `createOrder` (one SERIALIZABLE transaction, then a message it does not wait for), the reads by id, `findWithPayment` (two plain queries), `updatePaymentStatus` (called by nobody) | queue; called through the gateway by the web pages |
| **order-service**, webhooks (`webhook.service.ts`) | the same tables, `webhook_logs`; MongoDB `audit_payments` | `processWebhook` (one SERIALIZABLE transaction, then an audit entry) | called by the payment gateway |
| **order-service**, database connections (`app.module.ts`) | a pool of PostgreSQL clients, of the driver's size and without a limit on waiting | taken and given back by every query runner, transaction and query | PostgreSQL |
| **order-service**, producer (`sqs-producer.service.ts`) | messages under way, in memory | `sendPaymentProcessingMessage` | SQS FIFO queue |
| **payment-service** (`sqs-consumer.service.ts`, `payment-gateway.service.ts`) | the message in hand | receive, call the gateway with retries, delete the message | queue, payment gateway |
| **mock-payment-gateway** | payments under way, as timers in memory | `POST /pay`, the webhook it posts later | order-service |
| **web, seat list** (`SeatList.tsx`) | the list fetched when mounted, the selected seat, the dialog | pick, confirm, cancel | gateway → order-service |
| **web, payment page** (`PaymentProgressView.tsx`) | React state, one timer reference, one abort flag | poll, retry, back | gateway → order-service |
| **web, session and routes** (`App.tsx`, `ProtectedRoute.tsx`, `SignInView.tsx`, `Layout.tsx`) | Clerk's session, the tab's history | the redirects of the routes, the links, logout | Clerk, React Router |
| **api-gateway** (`main.ts`) | none | refuses requests without a valid token, forwards the others with the user's id | Clerk, order-service |
| shared types, entities, logging, errors, set-up scripts | none of their own | | |

An order is made by `createOrder`, which reserves the seat. Its message goes
through the queue to payment-service, which asks the gateway for the payment and
deletes the message. The gateway later posts a webhook; `processWebhook`
confirms the order and books the seat, or fails the order and frees the seat.
The payment page polls the order until then.

### What is hard about it, and what must hold

* **Seats and orders** are different tables written by different handlers that
  run concurrently, over row locks and snapshots. A seat must have one live
  order at most, and the tables must agree after every interleaving, failed
  statement, lost commit acknowledgement and crash.
* **Webhooks** are delivered again, reordered and may contradict each other. An
  order must be settled once, and the answers that make a sender give up (200 and
  409) must not be given to an outcome the order still waits for, only when the
  order is settled or not there, or the payload settles nothing.
* **The audit** is written after the commit, in another database, from values
  read before. It must be true.
* **The pipeline** crosses three services and a queue with at-least-once
  delivery. Payments of an account must keep their order, messages must not be
  lost, repeated payments must be owed to a fault, and if only the queue and the
  payment service fail, every order must be paid in the end but for those whose
  webhook PostgreSQL aborts because of another transaction: nobody sends it again.
* **The pages** work on answers that are old, torn (two queries) or out of
  order, with timers, effects and clicks in between; and the user goes back,
  reloads or signs out while answers are under way. An order must be the clicking
  user's, and a page must not show what is true of another order.
* **Connections** are few. A request keeps its client while it waits for rows and
  for the audit, so the pool and the row locks together could stop everything.

`PROJECT.json` lists every hazard at its line with the properties that cover it.

## Modules

| Module | What it is |
|---|---|
| `SeatBooking` | The abstract promise: a seat has at most one holder, an order is settled once. |
| `OrderTransactions` | `createOrder` and `processWebhook` as concurrent transactions; implements `SeatBooking`. |
| `OrderTransactionsProofs` | The inductive invariant and the safety theorems. |
| `OrderTransactionsRefinement` | The proof that `OrderTransactions` implements `SeatBooking`, that answers are justified, and that what is settled stays. |
| `PaymentPipeline` | Message, queue, consumers, gateway, webhook; composes `SeatBooking`, whose actions are the transactions of order-service. |
| `OrderServicePool` | The pool of PostgreSQL clients under the transactions of `OrderTransactions` (which it extends) and the reads beside them. |
| `OrderServicePoolProofs` | The proof that the requests under the pool are those of `OrderTransactions`, and the pool's own invariants. |
| `PaymentStatusUpdate` | `updatePaymentStatus`, statement by statement at READ COMMITTED, beside bookings and webhooks; implements `SeatBooking` while its callers settle PENDING orders only. |
| `SeatSelection` | The seat list and the booking dialog of several users; composes `SeatBooking`. |
| `PaymentPage` | The abstract promise of the payment page: a spinner, then the outcome, which only Retry takes back. |
| `PaymentProgress` | The payment page and the two queries behind its polls; implements `PaymentPage`. |
| `WebSession` | One browser tab: session, history, mounted page, confirmations under way, and the identity they are stored with; its payment page implements `PaymentPage` while it has one order. |
| `PaymentPipelineProofs`, `PaymentProgressProofs`, `PaymentStatusUpdateProofs`, `SeatSelectionProofs`, `WebSessionProofs` | The inductive invariants and safety theorems of these five. |
| `MCOrderTransactions`, `MCPaymentPipeline` | Symmetry sets for TLC; `MCOrderTransactions` also bounds the inputs that are odd. |
| `MCOrderServicePool` | The initial states of `OrderServicePool` worth checking. |
| `OrderClaims`, `PipelineClaims`, `ProgressClaims`, `SessionClaims` | Sentences of the documentation the code does not keep. |

Definitions whose comment begins with "A faulty variant" are not part of any
specification. Each is a plausible bug; replacing the definition that follows it
by the variant makes TLC report the property it is paired with.

### OrderTransactions

One action is one statement of a handler with the code up to the next one. An
element of `Orders` is one `createOrder` call and the row it inserts; an element
of `Deliveries` is one delivery of a webhook, with any payload, so duplicates
and contradictions are instances. PostgreSQL is modelled from how the code uses
it: the first statement takes the snapshot (`CreateBegin`, `HookBegin`), `SELECT
… FOR UPDATE` waits for the row (`SeatFree`, `OrderFree`), and locking a row that
was changed since the snapshot fails (`stale`, `Serialization`). Uncommitted
writes are invisible to others, so the writes of a transaction and its COMMIT
are one action. Aborts that PostgreSQL adds for other reasons are failing
statements (`StatementFails`).

`createOrder`: `CreateBegin` → `CreateSeatNotFound` | `CreateConflict` |
`CreateLockSeat` → `CreateCommit`. `processWebhook`: `HookAlreadyProcessed` |
`HookOrderNotFound` | `HookBegin` → `HookConflict` | `HookLockOrder` →
`HookLockSeat` → `HookCommit` → `HookAudit`. The faults are: a statement fails,
the acknowledgement of a COMMIT is lost, the audit database fails, the service
dies. The branch for a missing seat (webhook.service.ts:113) is left out: an
order's seat exists, and seats are never deleted. `PROCESSING` and `EXPIRED`
are statuses of the type that no code assigns.

### OrderServicePool

Every request waits for a client (`Connect`), uses it and gives it back.
`createOrder` and `processWebhook` take theirs before the first statement and
keep it to the end: `Carry` is a step of `OrderTransactions` with a client in
hand, and `GiveBack` the `finally` block (for `createOrder`, the one of TypeORM's
`dataSource.transaction`). A plain query takes a client for itself, so
`getOrderStatus` asks twice. `StartRefused` is `START TRANSACTION` failing on a
connection that lives on: webhook.service.ts:54 is outside the `try`, so that
client is `leaked`; a connection that breaks is replaced by the driver and is no
loss. The pool is modelled from how `app.module.ts` configures it, i.e. not at
all: pg's defaults apply (10 clients, no limit on waiting), which the instance
cuts down to two, fewer than the requests. Any free client may go to any waiting
request; the driver's queue is one of these orders. What the pool does to the
requests is therefore a matter of *when* they take their steps, and of the two
steps in which it lets them down: a refused start is a failed statement of
`OrderTransactions`, a crash its `Crash`. `TransactionsKept` says so: it is the
specification of `OrderTransactions`, as a property of the service with its pool.

### PaymentStatusUpdate

`updatePaymentStatus` is in `IOrderService` and nothing calls it, so this module
says what it would do rather than what the program does. Its transaction runs at
READ COMMITTED: a statement waits for locks and then sees the newest row. `call`
is what it is called with, `writes` the rows written and not yet committed, `met`
the order's status at the moment it was locked (read and not looked at).
`CreateOrder` and `ProcessWebhook` are single steps with the row locks in their
guards. A call for a settled order is possible and is what
`SeatsSafeIfPending` warns of: without its antecedent TLC finds a seat on sale
while another order has it. `BookingsKeptIfPending` is the refinement under the
same condition: up to the step in which a call first meets a settled order, the
steps are steps of `SeatBooking`. It is stated as an action property because it
ends with that step.

### PaymentPipeline

`outbox` holds the messages order-service is still sending; `queue` the
messages not deleted; `receiver` who holds a valid receipt. A received message
hides the later ones of its account. `consumer[c]` is the program counter of
`consumeMessages`/`processMessage`, with the attempt number of the gateway's
client. `running` counts the gateway's payments of an order. Time is modelled
where the code relies on it: a visibility timeout (30 s) cannot pass while the
consumer is calling if all its attempts take less (`secondsCalling`: three calls of
5 s and waits of 1 s and 2 s are 18 s); a deletion has no timeout and may outlast it (`AckSlow`).
The transactions of order-service are single steps here, which
`OrderTransactionsRefinement` justifies, but for one thing that a single step would
hide: `processWebhook` is SERIALIZABLE, reads `payments` by `order_id`, which has
no index (webhook.service.ts:139), and writes, so PostgreSQL may abort it because
of another webhook or booking under way, also of another order (40001). That is no
fault, so `WebhookAborted` is not counted as one and is possible whenever another
transaction may be under way (`Overlapped`). The handler answers 500, the gateway
logs it and does not send again (app.service.ts:83), and the order stays PENDING
unless it is paid a second time. The history variable `aborted` remembers these
orders, and `NothingForgotten` and `EveryOrderIsPaid` except them by name. A
booking that is aborted leaves no order and is a step that did not happen. A send is one action from the call to
the queue's answer. The deduplication window (5 min) is taken to cover the
repetitions of a send, which are those of the client library.

### SeatSelection

A visit is one mounting of the page. `seats` is the list as it was when fetched;
`waitsFor` stands for `isBooking`. A reload may come at any moment: the answer
to the request under way then reaches nobody. `ConnectionLost` shows the error
while the request goes on. A confirmation
may end in an error for many reasons, and they are told apart by what they leave
behind. `Refuse` (the seat is taken), `Reject` (gateway refusals, proxy errors
before order-service, failed transactions) and `CreateOrderAborted` (PostgreSQL
aborts the SERIALIZABLE transaction because of another one, which is no fault and
not counted) make no order. `CreateOrderUnacknowledged` makes one: the COMMIT takes
effect and its acknowledgement is lost (order.service.ts:59-123), or the process
dies before it answers, and the gateway turns that into an error (main.ts:73). The
page cannot tell; `reply = "errorAfterCommit"` is there to speak of it. Labels and colours are left out. The list is fetched from the bookings;
that the status column says the same is `SeatStatusDerived`, below.

### WebSession

One tab with its history (`history`, `at`), of which every entry keeps its
`location.state`, over a reload as well. `App` is the component the routes render
for a session and an entry; `Render` mounts it anew if it is another component
and keeps its state if it is the same, which is how React treats the element of a
route. `redirectsTo` is where `<Navigate>` or the payment page's effect sends the
tab. `SignOut` is also the end of the session by other means (expiry, another
tab); `Load` is any full page load, which ends all that JavaScript had under way
while requests already sent go on at the server. `handleConfirmBooking` →
`SendOrder` (after `getToken`) → `CreateOrder` or `Refuse` → `Answered` is one
confirmation, with the user free to move in between. Requests without a token
are refused by `clerkAuthMiddleware`; those with one carry its subject as user
and account. Polling is reduced to polls under way for each order (`polls`) and
the outcome shown (`isComplete` or `error`); the details are `PaymentProgress`,
and `PageKeepsPromise` says that both are the page of `PaymentPage`.
Left out: the sign-up page Clerk hosts, and the header's dropdown.

### PaymentProgress

The effects of the page run some time after the render that changed a
dependency; timers and answers come in between. A *loop* is one run of the
polling effect: its immediate poll and its chain of polls, of which each arms
the timer of the next. The reference to the timer and the abort flag are shared
by all loops. A poll reads the order, then the payment, then its answer arrives,
each at a moment of its own. Deviating detail: a click is handled when the
effects of earlier renders have run, as React does; `getToken` is taken to keep
its identity, as Clerk's hook provides. The double mounting of development mode
is not modelled.

`PaymentPage` is the page as the user is meant to see it. `fate` is the order's
status; `shown` is `card` with its two spinners taken for one; `open` is whether
the page is mounted. `Settle` is the webhook, `Show` the answer that ends the
spinner, `Retry` the click, `Leave` the unmount. Everything else the page does
(effects, timers, failing and late polls, the transition after Back) must leave
the three alone.

## What is checked

The runs that pass:

| Run | Instance | Shows |
|---|---|---|
| `BookingSafety` | 1 seat, 2 orders, 3 deliveries, 3 webhooks; statement, commit, audit faults and crashes | `TypeOK`, `SeatLedger`, `Settlement`, `AuditTruthful`, the inductive invariant `IInv`, `AnswersJustified`, `SettledForGood`, `Promise` (refinement) |
| `BookingLiveness` (`OrderServicePool`) | 1 seat, 2 orders, 2 deliveries, 1 read, 2 clients; all faults, refused starts | `PoolTypeOK`, `ClientsReturned`, `WaitsEnd`, `TransactionsKept` (refinement), `EveryRequestServed` |
| `PaymentStatus` (`PaymentStatusUpdate`) | 1 seat, 2 orders, 3 calls that may fail | `TypeOK`, `PaymentAgrees`, `SeatsSafeIfPending`, `OverwritesWhatItMet`, `BookingsKeptIfPending` (refinement) |
| `PipelineSafety` | 3 seats, 3 orders, 2 accounts, 2 consumers, 2 attempts, 2 faults of any kind | `TypeOK`, `AccountSerial`, `DeletedIsCharged`, `RepeatsNeedFaults` |
| `PipelineLiveness` | 2 seats, 2 orders, 1 account, 2 consumers, 3 faults of queue and payment service; aborted webhooks | `NothingForgotten`, `EveryOrderIsPaid`, `EveryMessageIsConsumed` |
| `Progress` | 1 retry (two loops), 1 failing poll | `TypeOK`, `ShownIsTrue`, `NeverStalls`, `QuietAfterLeaving`, `Promise` (refinement), `SettledIsShown` |
| `Selection` | 2 users, 2 seats, 2 requests, 2 visits, 1 fault of four kinds; aborted bookings | `TypeOK`, `PageKnowsItsOrders`, `ConfirmationEnds` |
| `WebSession` | 2 users, 2 orders, 2 history entries, 1 page load | `TypeOK`, `IdentityKept`, `FreshPageIsTrue`, `PageKeepsPromise` (refinement), `RedirectOnce`, `RedirectsEnd` |

Why the bounds are enough. *Booking*: conflicts are about one seat, so one is
the hardest number; two orders give races and, after a failed payment, a second
sale of the seat; three deliveries give a duplicate and a contradicting one. At
most one input is odd (a booking of a seat that does not exist, a webhook with
the status PENDING): each is refused on its own, whatever the others do. The
theorems then cover every number of each, and every input. *Pool*: five requests for two clients,
so that three wait while two hold; a leak leaves one client for all, a second
leak none. `MCOrderServicePool` fixes what the pool does not depend on: both
bookings are for the seat, the first delivery fails the first order, the second
one is its duplicate or settles either order, and the read has two queries.
*Payment status*: two orders of one seat are a sale and a second sale; three calls
are two that contradict each other and one late. *Pipeline*: two accounts and three
orders give an account with two messages beside another; two consumers give
concurrent receipts; two attempts give a first, a last and a retry. *Progress*:
two loops are what it takes for an old chain to live beside a new one; three
loops (2 retries, 2 failures) give 1.7 million states and the same result for
the safety properties. *Selection*: two users race for a seat or one tries
twice, each may come twice, and a second seat lets them change their mind; one fault is a lost connection, a
lost COMMIT acknowledgement or a refusal in either of two confirmations.
*Session*: two entries are what going back takes, one load what losing all
JavaScript takes, two users what a change of identity takes. The bounded counters
are `MaxFaults`, `MaxFailures`, `MaxClicks`, `MaxVisits`, `MaxHistory`,
`MaxLoads`; nothing else is bounded.

`CHECK_DEADLOCK` is left on everywhere. Where a system has come to rest a
`Quiescent` step says so explicitly, so that any other standstill is an error.

Symmetry is used in the two safety-only runs (`BookingSafety`, `PipelineSafety`).

### Fairness

* `BookingLiveness`: weak fairness of handing a free client to each waiting
  request and of carrying on each request that has one. The driver serves its
  queue in order, Node's event loop carries on a handler, PostgreSQL grants a lock
  when it is free, and a request that meets a changed row is aborted. Nobody is
  obliged to send a request, and no fault is obliged to happen.
* `PipelineLiveness`: weak fairness of sending, receiving, calling, deleting,
  visibility timeouts and the gateway's timers: `while (true)` in
  `startConsuming` and timers that always fire. Faults are bounded by
  `MaxFaults`, i.e. they stop for long enough some day. For `EveryOrderIsPaid`
  the faults of order-service and the gateway are excluded, because these lose
  orders for good: see `NothingForgotten`. A webhook's transaction ends (fairness of
  `Webhook` and `WebhookAborted` together), but nothing obliges it to commit: an
  abort is always a possible end while another transaction is under way.
* `Progress`: weak fairness of effects, timers and polls. Neither the
  user nor the payment has to act.
* `Selection`: weak fairness of handling a request (committed, aborted or refused)
  and delivering its answer. Neither the users nor the payment have to act.

* `WebSession`: weak fairness of Clerk's loading and of the redirects React has
  rendered. Neither the user nor the servers have to act.

### Where documents and code disagree

Each `Claim…` run states one sentence of a document or comment as a property and
TLC refutes it with a behaviour of the code. The sentences and lines are under
"findings" in `PROJECT.json`:

* The loser of a race for a seat gets PostgreSQL's serialization failure (a 500),
  not the conflict (`ClaimLoserConflict`).
* Payments of one account do run in parallel, because the message is deleted
  before the webhook comes (`ClaimNoParallel`).
* The payment page may poll for ever after the order is settled
  (`ClaimPollsOnlyWhilePolling`).
* The payment page may show "Reservation Confirmed!" for an order that is pending,
  and not poll for it: the router gives the mounted page another order, and its
  `isComplete` stays (`ClaimRealStatus`). It takes an answer that arrives after the
  user has gone to another order's page, or the back button between two of them.

Smaller ones, visible in the definitions and without a run:

* A transaction that fails leaves no audit entry, although webhook.service.ts:200
  has it outside the transaction for that case: it comes after the commit in the
  same `try`.
* A message whose deletion fails is consumed, and the order charged, again;
  README.md:179 says the deduplication id prevents that.
* A booking confirmed again after a lost connection may make a second order if the
  first one's payment failed meanwhile: the idempotency key of README.md:143 is new
  with each request.
* An error may be shown for an order that was made, and whose seat the user holds:
  the connection broke, or order-service failed after its COMMIT.
* A webhook aborted by PostgreSQL is not sent again, so its order may stay PENDING
  and its seat RESERVED for ever: `aborted` in `PaymentPipeline`. No document
  promises otherwise.
* A webhook already processed is answered 200, not 409 as webhook.service.ts:42 has
  it; no order is ever PROCESSING; a RESERVED seat has no `reservedBy`.
* The payment step of the page is completed by SUCCESS, not by PENDING as
  PaymentProgressView.tsx:101 has it; a late answer can put the stepper back one
  step.
* `SignInView` links to `/sign-up`, for which `App` has no route.
* `AuthService.verifyToken` expects the verified token under `claims`,
  `clerkAuthMiddleware` expects its fields directly.
* base-logging's README has events flushed on shutdown; no `main.ts` enables
  shutdown hooks, so a signal ends the process without `onModuleDestroy`.
* `create-seats.js` posts to `/seats`, which only answers GET; running
  `001_init.sql` again adds three more seats, since no constraint conflicts.

## What is proved

Seven components have theorems, each from the one assumption its module states
about its constants (the absent value is none of the others, identifiers of
different kinds are different, bounds are numbers); the two marked * also assume
`secondsCalling < 30`, i.e. at most four attempts a call (the code makes three):

| Module | Theorem | States |
|---|---|---|
| `OrderTransactionsProofs` | `Invariance` | `Spec => []IInv` |
| | `TypeCorrect`, `LedgerCorrect`, `SettlementCorrect`, `AuditCorrect` | `[]TypeOK`, `[]SeatLedger`, `[]Settlement`, `[]AuditTruthful` |
| `OrderTransactionsRefinement` | `Refinement` | `Spec => Promise`: `OrderTransactions` implements `SeatBooking` |
| | `AnswersCorrect`, `SettledStays` | `Spec => AnswersJustified`, `Spec => SettledForGood` |
| | `SeatStatusDerived` | the status column of a seat is what its live order makes it |
| `OrderServicePoolProofs` | `Composition` | `PoolSpec => TransactionsKept`: the service with its pool implements `OrderTransactions` |
| | `PoolKeepsPromise` | `PoolSpec` implies `Promise`, `AnswersJustified`, `SettledForGood` and `[]IInv` |
| | `PoolInvariance` | `[]PoolIInv` |
| | `PoolTypeCorrect`, `ClientsCorrect`, `WaitsCorrect` | `[]PoolTypeOK`, `[]ClientsReturned`, `[]WaitsEnd` |
| `PaymentPipelineProofs` | `Invariance`, `TypeCorrect` | `[]IInv`, `[]TypeOK` |
| | `DeletedCorrect`, `ForgottenCorrect` | `[]DeletedIsCharged`, `[]NothingForgotten` |
| | `SerialCorrect`*, `RepeatsCorrect`* | `[]AccountSerial`, `[]RepeatsNeedFaults` |
| `PaymentProgressProofs` | `Invariance`, `TypeCorrect` | `[]IInv`, `[]TypeOK` |
| | `ShownCorrect`, `StallsNever`, `QuietCorrect` | `[]ShownIsTrue`, `[]NeverStalls`, `QuietAfterLeaving` |
| | `Refinement` | `Spec => Promise`: `PaymentProgress` implements `PaymentPage` |
| `PaymentStatusUpdateProofs` | `Invariance`, `TypeCorrect` | `[]IInv`, `[]TypeOK` |
| | `PaymentsAgree`, `SeatsSafe` | `[]PaymentAgrees`, `[]SeatsSafeIfPending` |
| | `OverwritesKnowingly` | `Spec => OverwritesWhatItMet` |
| | `BookingsKeptByCallers` | `Spec => BookingsKeptIfPending` |
| `SeatSelectionProofs` | `Invariance`, `TypeCorrect`, `PageCorrect` | `[]IInv`, `[]TypeOK`, `[]PageKnowsItsOrders` |
| `WebSessionProofs` | `Invariance`, `TypeCorrect` | `[]IInv`, `[]TypeOK` |
| | `IdentityCorrect`, `FreshPageCorrect` | `[]IdentityKept`, `[]FreshPageIsTrue` |
| | `RedirectsOnce`, `PagePromiseKept` | `Spec => RedirectOnce`, `Spec => PageKeepsPromise` |

### OrderTransactions

For every set of seats, orders, deliveries, webhooks and users, and every set of
faults.

`SeatLedger` is not inductive: that a webhook may overwrite the seat follows only
from what it established under its locks, steps ago. The inductive invariant
adds: a row is locked by one request at a time (`Exclusive`); a `createOrder`
call about to commit still has a free seat and no row (`CreateChecked`); a
delivery past its checks still has a PENDING order, and a RESERVED seat once it
holds both rows (`HookChecked`). The proof that a step preserves it has one
lemma for the steps that write nothing, one for each of the two commits, and one
for the audit. For the last conjuncts the argument is always the same: whoever
changes a seat or an order holds its lock, or commits an order that did not
exist, and the locks are exclusive.

The refinement maps the holders of a seat to its live orders and the fate of an
order to its status. Only the two commits change either (`OnlyCommitsWrite`);
`CreateCommit` is a `Reserve` because the seat is AVAILABLE, hence has no live
order (`SeatLedger`); `HookWrites` is a `Confirm` or a `Release` because the
order is PENDING under its lock (`HookChecked`).

`SettledForGood` is the same argument about rows: of the two commits, one makes an
order that did not exist and the other settles one that is PENDING; both write a
seat that is not that of a confirmed order, because such a seat is BOOKED
(`SeatLedger`) and the commits were checked to meet it AVAILABLE or RESERVED.
`SeatStatusDerived` is what other modules take from the tables: a seat without a
live order is AVAILABLE, with a PENDING one RESERVED, with a CONFIRMED one BOOKED.

### OrderServicePool

For a pool of any size, any number of reads, and everything `OrderTransactions` is
proved for. `Composition` needs no invariant: a step of a request with a client in
hand is one of its steps, a refused start is a failed statement, a crash a crash,
and handing out clients, reading and arriving leave the tables alone. All theorems
of `OrderTransactions` then hold of the service as it is deployed
(`PoolKeepsPromise`), and its inductive invariant may be used beside the pool's own.

That one adds the clients: they are never more in use than there are, a request
without one has not begun (`Unbegun`), and a read that is not over has a query to
make (`ReadsLeft`), so that only deliveries can lose a client, in the one statement
before their `try` block (`ClientsReturned`). `WaitsEnd` is where the two meet. A
request that holds a row is past its beginning, hence has a client, hence waits for
no client; the order of locking (the order, then the seat) leaves only the seat to
wait for, and whoever holds a seat is about to commit (`HoldsSeat`) and waits for
nothing. So a chain of waits is two rows long at most and ends with a request that
can go on. This is the safety half of `EveryRequestServed`.

### PaymentPipeline

For every set of orders, accounts and consumers, and any number of faults of all
eleven kinds. The invariant has three parts. `LedgerOK` is about messages and
payments: the queue has each message once and in the order of acceptance; what
was paid had been accepted; and (`PaidFirst`) what was paid comes, within its
account, no later than what is still in the queue. `ConsumersOK` is about who
works on what: a receipt is for the first message of its account, a consumer that
calls the gateway holds the receipt of its order, and one that deletes has paid.
`OnItsWay` says which service has an order that is pending, or that its webhook was
aborted.

`AccountSerial` follows because a payment is only made for the first message of
its account, so that `PaidFirst` puts every earlier payment before it; this is
where the visibility timeout is needed, for without a receipt another consumer
could be a message ahead. `RepeatsNeedFaults` is a count that no step makes
worse: the payments made, and those still to come for orders already paid that
nobody is about to delete (`Repayable`), are at most the orders paid and the
faults. A payment of a repayable order moves from one side of the sum to the
other, and only a fault adds to it. The steps that touch only receipts and
consumers share the lemma `ConsumerMoves`, those that touch neither
`PipelineKept`; accepting, deleting and paying have a lemma each
(`AcceptLedger`, `DeleteLedger`, `ChargeLedger`).

### PaymentProgress

For any number of clicks and failing polls. `Truth` says that a poll has read what
was so then, and a settled order stays as it is: a torn answer has at worst an
older order than payment, which `steps` does not take for a success. `Polling`
counts the loops: one begins when `isPolling` became true since the effects last
ran, and it becomes true once at the start and once for each click, so there are
never more loops than clicks and one. It also says that a page whose effects have
run polls or has an outcome, hence a spinner polls. `Chained` then gives it a live
chain: while the page is shown the flag is down, so a timer that fires sends a poll
and a poll that ends arms its timer, whether it failed or not; only the end of the
polling effect clears a timer. When the page is gone the flag is up for good
(`QuietAfterLeaving`).

The refinement rests on `Truth` and on one lemma about answers (`AdvancedIsTrue`):
an answer only ever adds to what is shown, `isComplete` and `error` are never
taken back by one. Since both are true of the order, and an order is settled one
way, an answer either shows the outcome for the first time (`Show`) or changes
nothing the user sees. Effects only ever change `isPolling`, which chooses between
the two spinners; `Back` lowers it when an outcome is shown, and it shows on.

### PaymentStatusUpdate

For every set of seats, orders and calls, failing at any statement or not. None of
the three properties is inductive, since a commit writes what was decided steps
before. The invariant adds what a call has written by each of its statements
(`Progress`), that an order it has locked exists and is still as the call met it
(`Checked`), and that an order is locked by one call at a time (`Exclusive`).
`Checked` survives because a webhook takes an order only when no call holds it,
and two calls never hold the same one. A commit for an order that was PENDING
then settles the only live order of its seat (`SettlesSeat`), so it may put the
seat back on sale; for an order met settled, the antecedent of
`SeatsSafeIfPending` is false for ever, because `met` is never taken back. Commit
and webhook share these lemmas: both are `Settles`. `OverwritesWhatItMet` is about a
step and is `Checked` again: the call that commits in this step (`CommitsOver`) has
met the status it overwrites, and gives the order its own; every other step leaves
a settled order alone. `BookingsKeptIfPending` follows
in the same way: a booking needs a seat without a live order, which the seats table
tells only while the antecedent holds (`SeatsSafeIfPending`), and a commit or webhook
that meets a PENDING order is a `Confirm` or a `Release`.

### SeatSelection

For every set of users, seats and requests, any number of visits and faults. The
page and the request know each other only by what the page waits for, so the
invariant looks from both sides. A page waits only while it shows the list, and
for a request of its own visit whose connection holds (`PageOK`). A request of the
visit that is on is waited for, gone on with, lost or answered by an error
(`Accounted`), no request is of a visit to come, and a request that is unanswered or
answered by an error that is not one after the COMMIT has no order (`RequestOK`).
So a page that shows an error, over a connection that held, has no order it does
not know of unless order-service failed after its COMMIT. A reload drops what the page waits for and begins a
visit, which is why `PageKnowsItsOrders` speaks of the visit that is on.

### WebSession

For every set of users and confirmations, any length of history and any number of
loads. The invariant says that the mounted component is the one the routes render
for the session and the entry (`PageOK`): hence the booking page, where a click
comes from, is mounted for somebody. It says that a request carries no token but
that of its click, and has no order before order-service has seen it
(`RequestOK`): with the gateway's 401 this gives `IdentityKept`. And it says that a page
polls only for orders it has been given, and shows what is so of *one* of
these (`ViewTrue`): settled orders stay as they are, and a component that is mounted
anew begins with nothing. For a page that has had one order that is
`FreshPageIsTrue`; for one that has had more it is all that holds, which is what
`ClaimRealStatus` shows.

`RedirectOnce` is the safety half of `RedirectsEnd`: with somebody signed in every
redirect leads to the booking page, with nobody to the sign-in page, and each of
these stays. Four pieces of code have to agree on this.

`PageKeepsPromise` ties this module to `PaymentProgress`: both pages implement
`PaymentPage`, which is why the polls may be reduced here. It holds of every step
from a page that has had one order to the same page; a step that mounts something
else is not one of them, and a page that was given a second order no longer keeps
the promise. Late answers are the point: a page polls only for orders it has had
(`ViewTrue`), so an answer to it is about its order.

### Only model-checked

The liveness properties (`EveryRequestServed`, `EveryOrderIsPaid`,
`EveryMessageIsConsumed`, `SettledIsShown`, `ConfirmationEnds`, `RedirectsEnd`):
liveness under fairness is out of the prover's reach. Every invariant and action
property of the passing runs is proved.

## Not modelled

* `SeatService.updateStatus`, the repositories' `updateStatus` of seats and orders
  and `PaymentRepository.update`: nothing calls them, and each writes one row on
  its own.
* Token verification (a library) and `GET /auth/validate`, which nothing asks for;
  the health routes of the services.
* Rendering: stepper, cards, the header's dropdown.
* `packages/base-logging`: it hands calls on to Sentry's client, and no handler
  makes any; error classes.
* Scripts run once by hand: `create-seats.js`, `setup-sentry.js`, the containers.
* Amounts, labels, timestamps, transaction ids: no decision depends on them.

## Plan

The parts of the liveness arguments that are about single states: that some action
is always possible which brings the goal nearer (the measure on which
`EveryOrderIsPaid` and `SettledIsShown` go down), as invariants.
