-------------------------- MODULE OrderTransactions --------------------------
(***************************************************************************)
(* The two requests of order-service that write its PostgreSQL tables, run *)
(* concurrently: POST /orders (OrderService.createOrder) and               *)
(* POST /webhooks/payment (WebhookService.processWebhook).  Each runs one  *)
(* SERIALIZABLE transaction made of SELECT ... FOR UPDATE statements       *)
(* followed by writes; one action is one such statement with the code up   *)
(* to the next one.  PostgreSQL is modelled from how the code uses it: the *)
(* first statement takes the snapshot, a row stays locked until its        *)
(* transaction ends, uncommitted writes are invisible (so a transaction's  *)
(* writes and its COMMIT are one action), and locking a row that another   *)
(* transaction changed since the snapshot is a serialization failure.      *)
(*                                                                         *)
(* An element of Orders is one createOrder call and the order row it       *)
(* inserts (the id is a fresh UUID); an element of Deliveries is one       *)
(* delivery of a webhook: two deliveries may carry the same webhook id,    *)
(* and two webhooks the same order.                                        *)
(***************************************************************************)
EXTENDS FiniteSets

CONSTANTS Seats, Orders, Deliveries, Webhooks, Users,
          NULL,     \* the absent value
          Faults    \* which faults may happen: a subset of FaultKinds

FaultKinds == {"statement", "commit", "audit", "crash"}

ASSUME OrderTransactionsAssumption ==
    /\ Orders \cap Deliveries = {}
    /\ Seats \cap Orders = {}
    /\ NULL \notin Seats \cup Users
    /\ Faults \subseteq FaultKinds

Requests == Orders \cup Deliveries
Rows == Seats \cup Orders     \* the rows two transactions contend for

VARIABLES
    seat,        \* the seats table
    order,       \* the status column of the orders table
    payment,     \* the status column of the payments table, by order
    webhookLog,  \* the webhook_logs table: the deliveries that inserted a row
    auditLog,    \* the MongoDB audit collection, by the delivery that wrote it
    asked,       \* asked[o]: the seat and the user of createOrder call o
    hook,        \* hook[d]: the payload of delivery d
    pc,          \* the next statement of each request
    seen,        \* the statuses a delivery read, before it overwrote them
    stale,       \* rows changed by others since the request's snapshot
    reply        \* the answer of each request

input == <<asked, hook>>
tables == <<seat, order, payment, webhookLog>>
vars == <<tables, auditLog, input, pc, seen, stale, reply>>

------------------------------------------------------------------------------
SeatStatus == {"AVAILABLE", "RESERVED", "BOOKED"}
OrderStatus == {"PENDING", "PROCESSING", "CONFIRMED", "FAILED", "EXPIRED"}
PaymentStatus == {"PENDING", "SUCCESS", "FAILED"}

Seat == [status : SeatStatus, reservedBy : Users \cup {NULL}]
CreateOrderDto == [seatId : Seats \cup {NULL}, userId : Users]
Payload == [webhookId : Webhooks, orderId : Orders, status : PaymentStatus]
Statuses == [order : OrderStatus, seat : SeatStatus]
AuditEntry == [oldValue : Statuses, newValue : Statuses]

Answers == {"ok", "conflict", "notFound", "serialization", "error", "crashed"}
Running == {"lockOrder", "lockSeat", "commit"}    \* inside a transaction

\* Every variable has the type the code's entities and handlers give it.
TypeOK ==
    /\ seat \in [Seats -> Seat]
    /\ order \in [Orders -> OrderStatus \cup {"ABSENT"}]
    /\ payment \in [Orders -> PaymentStatus \cup {"ABSENT"}]
    /\ webhookLog \subseteq Deliveries
    /\ auditLog \in [Deliveries -> AuditEntry \cup {NULL}]
    /\ asked \in [Orders -> CreateOrderDto]
    /\ hook \in [Deliveries -> Payload]
    /\ pc \in [Requests -> Running \cup {"idle", "audit", "done"}]
    /\ seen \in [Deliveries -> [order : OrderStatus \cup {NULL},
                                seat  : SeatStatus \cup {NULL}]]
    /\ stale \in [Requests -> SUBSET Rows]
    /\ reply \in [Requests -> Answers \cup {"none"}]

OrderOf(d) == hook[d].orderId
SeatOf(d) == asked[OrderOf(d)].seatId

\* A webhook id identifies one payload, however often it is delivered.
SameWebhookSamePayload ==
    \A d, e \in Deliveries :
       hook[d].webhookId = hook[e].webhookId => hook[d] = hook[e]

\* All seats free, no order yet; the requests to come are arbitrary.
Init ==
    /\ seat = [s \in Seats |-> [status |-> "AVAILABLE", reservedBy |-> NULL]]
    /\ order = [o \in Orders |-> "ABSENT"]
    /\ payment = [o \in Orders |-> "ABSENT"]
    /\ webhookLog = {}
    /\ auditLog = [d \in Deliveries |-> NULL]
    /\ asked \in [Orders -> CreateOrderDto]
    /\ hook \in [Deliveries -> Payload]
    /\ SameWebhookSamePayload
    /\ pc = [r \in Requests |-> "idle"]
    /\ seen = [d \in Deliveries |-> [order |-> NULL, seat |-> NULL]]
    /\ stale = [r \in Requests |-> {}]
    /\ reply = [r \in Requests |-> "none"]

------------------------------------------------------------------------------
(***************************************************************************)
(* The database: row locks, staleness, the end of a transaction.           *)
(***************************************************************************)
HoldsSeat(r, s) == /\ pc[r] = "commit"
                   /\ \/ r \in Orders /\ asked[r].seatId = s
                      \/ r \in Deliveries /\ SeatOf(r) = s

\* A faulty variant: an exit path that leaves the transaction open.
HoldsOrderAfterExit(r, o) == /\ r \in Deliveries
                             /\ OrderOf(r) = o
                             /\ pc[r] \in {"lockSeat", "commit", "done"}

HoldsOrder(r, o) == /\ r \in Deliveries
                    /\ OrderOf(r) = o
                    /\ pc[r] \in {"lockSeat", "commit"}

\* Faulty variants: the rows are read without FOR UPDATE.
SeatFreeNoLock(s) == TRUE
OrderFreeNoLock(o) == TRUE

SeatFree(s) == \A r \in Requests : ~HoldsSeat(r, s)
OrderFree(o) == \A r \in Requests : ~HoldsOrder(r, o)

Goto(r, label) == pc' = [pc EXCEPT ![r] = label]

\* COMMIT of r: whoever is running now has a snapshot without these rows.
MarkStale(r, rows) ==
    stale' = [q \in Requests |->
                IF q # r /\ pc[q] \in Running THEN stale[q] \cup rows ELSE {}]

\* The transaction of r is over and its request is answered; r wrote nothing.
Answer(r, answer) == /\ Goto(r, "done")
                     /\ reply' = [reply EXCEPT ![r] = answer]
                     /\ stale' = [stale EXCEPT ![r] = {}]
                     /\ UNCHANGED <<tables, auditLog, input, seen>>

------------------------------------------------------------------------------
(***************************************************************************)
(* OrderService.createOrder.                                               *)
(***************************************************************************)
\* START TRANSACTION; SELECT the seat FOR UPDATE is sent: the snapshot.
CreateBegin(o) ==
    /\ pc[o] = "idle"
    /\ Goto(o, "lockSeat")
    /\ UNCHANGED <<tables, auditLog, input, seen, stale, reply>>

\* The seat row is not there: the callback throws, the transaction rolls back.
CreateSeatNotFound(o) ==
    /\ pc[o] = "lockSeat"
    /\ asked[o].seatId \notin Seats
    /\ Answer(o, "notFound")

\* The seat row is locked and no longer AVAILABLE: ConflictException.
CreateConflict(o) ==
    LET s == asked[o].seatId IN
    /\ pc[o] = "lockSeat"
    /\ s \in Seats
    /\ SeatFree(s)
    /\ s \notin stale[o]
    /\ seat[s].status # "AVAILABLE"
    /\ Answer(o, "conflict")

\* A faulty variant: only a BOOKED seat is refused.
CreateLockSeatUnlessBooked(o) ==
    LET s == asked[o].seatId IN
    /\ pc[o] = "lockSeat"
    /\ s \in Seats
    /\ SeatFree(s)
    /\ s \notin stale[o]
    /\ seat[s].status # "BOOKED"
    /\ Goto(o, "commit")
    /\ UNCHANGED <<tables, auditLog, input, seen, stale, reply>>

\* The seat row is locked and AVAILABLE: go on to the inserts.
CreateLockSeat(o) ==
    LET s == asked[o].seatId IN
    /\ pc[o] = "lockSeat"
    /\ s \in Seats
    /\ SeatFree(s)
    /\ s \notin stale[o]
    /\ seat[s].status = "AVAILABLE"
    /\ Goto(o, "commit")
    /\ UNCHANGED <<tables, auditLog, input, seen, stale, reply>>

\* SeatRepository.update: merges the given seat into the stored one, and keeps
\* the reserving user only while the seat is RESERVED.
SeatUpdate(stored, given) ==
    [status |-> given.status,
     reservedBy |-> IF given.status = "RESERVED" THEN given.reservedBy ELSE NULL]

\* The order and its payment are inserted, the seat RESERVED, and all is
\* committed; createOrder sets no reservedBy.  The COMMIT may succeed and its
\* acknowledgement be lost with the connection: the caller then gets an error.
CreateCommit(o, answer) ==
    LET s == asked[o].seatId IN
    /\ pc[o] = "commit"
    /\ order' = [order EXCEPT ![o] = "PENDING"]
    /\ payment' = [payment EXCEPT ![o] = "PENDING"]
    /\ seat' = [seat EXCEPT ![s] = SeatUpdate(@, [@ EXCEPT !.status = "RESERVED"])]
    /\ Goto(o, "done")
    /\ reply' = [reply EXCEPT ![o] = answer]
    /\ MarkStale(o, {o, s})
    /\ UNCHANGED <<webhookLog, auditLog, input, seen>>

CreateOrder(o) ==
    \/ CreateSeatNotFound(o)
    \/ CreateConflict(o)
    \/ CreateLockSeat(o)
    \/ CreateCommit(o, "ok")

CreateCommitUnacknowledged(o) == /\ "commit" \in Faults
                                 /\ CreateCommit(o, "error")

------------------------------------------------------------------------------
(***************************************************************************)
(* WebhookService.processWebhook.                                          *)
(***************************************************************************)
Logged(webhookId) == \E e \in webhookLog : hook[e].webhookId = webhookId

\* The snapshot, with the idempotency check: the webhook is in the log, so the
\* (empty) transaction commits and the delivery is answered 200.
HookAlreadyProcessed(d) ==
    /\ pc[d] = "idle"
    /\ Logged(hook[d].webhookId)
    /\ Answer(d, "ok")

\* The snapshot has no such order: commit and return, 200 as well.  The order
\* lookup is a later statement but reads the same snapshot.
HookOrderNotFound(d) ==
    /\ pc[d] = "idle"
    /\ ~Logged(hook[d].webhookId)
    /\ order[OrderOf(d)] = "ABSENT"
    /\ Answer(d, "ok")

\* A webhook not in the log, for an order of the snapshot: go and lock it.
HookBegin(d) ==
    /\ pc[d] = "idle"
    /\ ~Logged(hook[d].webhookId)
    /\ order[OrderOf(d)] # "ABSENT"
    /\ Goto(d, "lockOrder")
    /\ UNCHANGED <<tables, auditLog, input, seen, stale, reply>>

mapPaymentStatusToOrderStatus(status) ==
    CASE status = "SUCCESS" -> "CONFIRMED"
      [] status = "FAILED"  -> "FAILED"
      [] OTHER              -> "PENDING"

mapPaymentStatusToSeatStatus(status) ==
    CASE status = "SUCCESS" -> "BOOKED"
      [] status = "FAILED"  -> "AVAILABLE"
      [] OTHER              -> "RESERVED"

\* Faulty variants: the current status is not looked at; FAILED is left out.
validTransitionAnyCurrent(current, status) ==
    mapPaymentStatusToOrderStatus(status) \in {"CONFIRMED", "FAILED"}
validTransitionNoFailure(current, status) ==
    /\ current \in {"PENDING", "PROCESSING"}
    /\ mapPaymentStatusToOrderStatus(status) = "CONFIRMED"

\* validateStateTransition: only an unsettled order is settled.
validTransition(current, status) ==
    /\ current \in {"PENDING", "PROCESSING"}
    /\ mapPaymentStatusToOrderStatus(status) \in {"CONFIRMED", "FAILED"}

\* The order row is locked, and the transition is not a valid one.
HookConflict(d) ==
    LET o == OrderOf(d) IN
    /\ pc[d] = "lockOrder"
    /\ OrderFree(o)
    /\ o \notin stale[d]
    /\ ~validTransition(order[o], hook[d].status)
    /\ Answer(d, "conflict")

HookLockOrder(d) ==
    LET o == OrderOf(d) IN
    /\ pc[d] = "lockOrder"
    /\ OrderFree(o)
    /\ o \notin stale[d]
    /\ validTransition(order[o], hook[d].status)
    /\ Goto(d, "lockSeat")
    /\ seen' = [seen EXCEPT ![d].order = order[o]]
    /\ UNCHANGED <<tables, auditLog, input, stale, reply>>

HookLockSeat(d) ==
    LET s == SeatOf(d) IN
    /\ pc[d] = "lockSeat"
    /\ SeatFree(s)
    /\ s \notin stale[d]
    /\ Goto(d, "commit")
    /\ seen' = [seen EXCEPT ![d].seat = seat[s].status]
    /\ UNCHANGED <<tables, auditLog, input, stale, reply>>

\* A faulty variant: the payment status is stored in the seat as it is.
settledSeatStatusUnmapped(status, old) == status

\* The seat follows the payment; a payload that settles nothing leaves it alone.
settledSeatStatus(status, old) ==
    CASE status = "SUCCESS" -> "BOOKED"
      [] status = "FAILED"  -> "AVAILABLE"
      [] OTHER              -> old

\* The payment row is locked (whoever holds it holds the order row, so there is
\* no wait), the three rows saved, the webhook logged, and all is committed.
\* reservedBy is left alone.
HookWrites(d) ==
    LET o == OrderOf(d)
        status == hook[d].status IN
    /\ order' = [order EXCEPT ![o] = mapPaymentStatusToOrderStatus(status)]
    /\ payment' = [payment EXCEPT ![o] = IF @ = "ABSENT" THEN @ ELSE status]
    /\ seat' = [seat EXCEPT ![SeatOf(d)] =
                   [status |-> settledSeatStatus(status, @.status),
                    reservedBy |-> @.reservedBy]]
    /\ webhookLog' = webhookLog \cup {d}
    /\ MarkStale(d, {o, SeatOf(d)})
    /\ UNCHANGED <<auditLog, input, seen>>

HookCommit(d) ==
    /\ pc[d] = "commit"
    /\ HookWrites(d)
    /\ Goto(d, "audit")
    /\ UNCHANGED reply

\* The COMMIT took effect but commitTransaction threw: no audit entry, an error.
HookCommitUnacknowledged(d) ==
    /\ "commit" \in Faults
    /\ pc[d] = "commit"
    /\ HookWrites(d)
    /\ Goto(d, "done")
    /\ reply' = [reply EXCEPT ![d] = "error"]

\* A faulty variant: the old values are taken from the entities already changed.
HookAuditReadsLate(d) ==
    /\ pc[d] = "audit"
    /\ auditLog' = [auditLog EXCEPT ![d] =
          [oldValue |-> [order |-> order[OrderOf(d)], seat |-> seat[SeatOf(d)].status],
           newValue |-> [order |-> mapPaymentStatusToOrderStatus(hook[d].status),
                         seat  |-> mapPaymentStatusToSeatStatus(hook[d].status)]]]
    /\ Goto(d, "done")
    /\ reply' = [reply EXCEPT ![d] = "ok"]
    /\ UNCHANGED <<tables, input, seen, stale>>

\* createAuditLog: one document in MongoDB, after the commit.
HookAudit(d) ==
    /\ pc[d] = "audit"
    /\ auditLog' = [auditLog EXCEPT ![d] =
          [oldValue |-> seen[d],
           newValue |-> [order |-> mapPaymentStatusToOrderStatus(hook[d].status),
                         seat  |-> mapPaymentStatusToSeatStatus(hook[d].status)]]]
    /\ Goto(d, "done")
    /\ reply' = [reply EXCEPT ![d] = "ok"]
    /\ UNCHANGED <<tables, input, seen, stale>>

\* MongoDB refuses: the catch block's rollback finds nothing to roll back, the
\* request fails although the payment is recorded.
HookAuditFails(d) == /\ "audit" \in Faults
                     /\ pc[d] = "audit"
                     /\ Answer(d, "error")

ProcessWebhook(d) ==
    \/ HookConflict(d)
    \/ HookLockOrder(d)
    \/ HookLockSeat(d)
    \/ HookCommit(d)
    \/ HookAudit(d)

------------------------------------------------------------------------------
(***************************************************************************)
(* What the database and the runtime may do to any request.                *)
(***************************************************************************)
\* The row to lock was changed by a transaction that committed after the
\* snapshot: PostgreSQL refuses the statement and the transaction rolls back.
Serialization(r) ==
    /\ \/ /\ pc[r] = "lockSeat"
          /\ \E s \in stale[r] \cap Seats :
                /\ s = IF r \in Orders THEN asked[r].seatId ELSE SeatOf(r)
                /\ SeatFree(s)
       \/ /\ pc[r] = "lockOrder"
          /\ OrderOf(r) \in stale[r]
          /\ OrderFree(OrderOf(r))
    /\ Answer(r, "serialization")

\* Connecting or a statement fails (or the COMMIT is refused): rolled back.
StatementFails(r) == /\ "statement" \in Faults
                     /\ pc[r] \in Running \cup {"idle"}
                     /\ Answer(r, "error")

\* The service process dies: PostgreSQL rolls back every open transaction.
Crash ==
    LET lost == {r \in Requests : pc[r] \in Running \cup {"audit"}} IN
    /\ "crash" \in Faults
    /\ lost # {}
    /\ pc' = [r \in Requests |-> IF r \in lost THEN "done" ELSE pc[r]]
    /\ reply' = [r \in Requests |-> IF r \in lost THEN "crashed" ELSE reply[r]]
    /\ stale' = [r \in Requests |-> {}]
    /\ UNCHANGED <<tables, auditLog, input, seen>>

\* Every request has been answered.
Quiescent == /\ \A r \in Requests : pc[r] = "done"
             /\ UNCHANGED vars

\* A request once begun is carried on by the event loop and the database.
Proceed(r) == \/ r \in Orders /\ CreateOrder(r)
              \/ r \in Deliveries /\ ProcessWebhook(r)
              \/ Serialization(r)

Next ==
    \/ \E o \in Orders : CreateBegin(o) \/ CreateCommitUnacknowledged(o)
    \/ \E d \in Deliveries : \/ HookAlreadyProcessed(d)
                             \/ HookOrderNotFound(d)
                             \/ HookBegin(d)
                             \/ HookCommitUnacknowledged(d)
                             \/ HookAuditFails(d)
    \/ \E r \in Requests : Proceed(r) \/ StatementFails(r)
    \/ Crash
    \/ Quiescent

Spec == Init /\ [][Next]_vars

------------------------------------------------------------------------------
(***************************************************************************)
(* Properties.                                                             *)
(***************************************************************************)
\* The orders of seat s that hold it.
LiveOrders(s) == {o \in Orders : /\ asked[o].seatId = s
                                 /\ order[o] \in {"PENDING", "CONFIRMED"}}

\* The seats table and the orders table, written by different statements of
\* different handlers, tell one story: a seat is AVAILABLE iff no live order
\* has it, RESERVED iff exactly one has it and still waits for its payment,
\* BOOKED iff exactly one has it and is CONFIRMED.  (createOrder, processWebhook)
SeatLedger ==
    \A s \in Seats :
       /\ seat[s].status = "AVAILABLE" => LiveOrders(s) = {}
       /\ seat[s].status = "RESERVED" =>
             \E o \in Orders : LiveOrders(s) = {o} /\ order[o] = "PENDING"
       /\ seat[s].status = "BOOKED" =>
             \E o \in Orders : LiveOrders(s) = {o} /\ order[o] = "CONFIRMED"

\* The payment row says what the order row says.
PaymentMatches ==
    \A o \in Orders :
       /\ order[o] = "CONFIRMED" => payment[o] = "SUCCESS"
       /\ order[o] # "CONFIRMED" => payment[o] = order[o]

\* A logged webhook is the one its order obeyed.
LogMatches ==
    \A d \in webhookLog :
       order[OrderOf(d)] = mapPaymentStatusToOrderStatus(hook[d].status)

\* A settled order was settled by one delivery.
SettledOnce ==
    \A o \in Orders : order[o] \in {"CONFIRMED", "FAILED"} =>
       \E d \in webhookLog : {e \in webhookLog : OrderOf(e) = o} = {d}

\* However often webhooks are duplicated, reordered or contradicted, an order
\* is settled by exactly one of them, which is in the log, and its payment row
\* says the same as its status.  (processWebhook's idempotency)
Settlement == PaymentMatches /\ LogMatches /\ SettledOnce

\* An audit entry is written only for a webhook that was committed, and what it
\* says the order and the seat were and became is what they were and became:
\* nobody got between the read of the old values and the commit.  (createAuditLog)
AuditTruthful ==
    \A d \in Deliveries : auditLog[d] # NULL =>
       /\ d \in webhookLog
       /\ auditLog[d].oldValue = [order |-> "PENDING", seat |-> "RESERVED"]
       /\ auditLog[d].newValue.order = order[OrderOf(d)]
       /\ auditLog[d].newValue.seat =
             IF order[OrderOf(d)] = "CONFIRMED" THEN "BOOKED" ELSE "AVAILABLE"

\* The answers on which a caller gives up are justified when they are given: a
\* createOrder conflict by another live order of the seat; a 200 or a 409 to a
\* webhook by the order being settled, by its not existing, or by a payload
\* that settles nothing.  An outcome for a PENDING order is never turned away so.
\* (createOrder, processWebhook, validateStateTransition)
AnswersJustified ==
    [][/\ \A o \in Orders :
             reply[o] = "none" /\ reply'[o] = "conflict" =>
                LiveOrders(asked[o].seatId) \ {o} # {}
       /\ \A d \in Deliveries :
             reply[d] = "none" /\ reply'[d] \in {"ok", "conflict"} =>
                \/ order[OrderOf(d)] \in {"ABSENT", "CONFIRMED", "FAILED"}
                \/ hook[d].status = "PENDING"]_vars

\* An order and its payment change together and twice at most: they are made
\* PENDING, then settled the same way; and the row of a seat sold to a confirmed
\* order is never written again, however late another webhook or booking of it
\* comes.  This is what pages and queue take for granted when they keep an answer.
\* (createOrder, processWebhook, validateStateTransition)
SettledForGood ==
    [][\A o \in Orders :
          /\ \/ UNCHANGED <<order[o], payment[o]>>
             \/ /\ order[o] = "ABSENT" /\ payment[o] = "ABSENT"
                /\ order'[o] = "PENDING" /\ payment'[o] = "PENDING"
             \/ /\ order[o] = "PENDING" /\ payment[o] = "PENDING"
                /\ <<order'[o], payment'[o]>> \in {<<"CONFIRMED", "SUCCESS">>,
                                                  <<"FAILED", "FAILED">>}
          /\ order[o] = "CONFIRMED" => UNCHANGED seat[asked[o].seatId]]_vars

\* What has become of an order with this status.
fateOf(status) == CASE status = "ABSENT"    -> "none"
                    [] status = "CONFIRMED" -> "confirmed"
                    [] status = "FAILED"    -> "failed"
                    [] OTHER                -> "pending"

\* The tables implement the abstract booking: a seat's live orders are its
\* holders, an order's status its fate.
Booking == INSTANCE SeatBooking WITH
    holder <- [s \in Seats |-> LiveOrders(s)],
    fate <- [o \in Orders |-> fateOf(order[o])]

\* Under every interleaving, failed statement, lost acknowledgement and crash,
\* a seat has one holder, and an order's payment settles it once.
Promise == Booking!Spec

------------------------------------------------------------------------------
(***************************************************************************)
(* Why they hold: the inductive invariant, in parts.                       *)
(***************************************************************************)
\* A row is locked by one transaction at a time.
Exclusive ==
    \A q, r \in Requests :
       /\ \A s \in Seats : HoldsSeat(q, s) /\ HoldsSeat(r, s) => q = r
       /\ \A o \in Orders : HoldsOrder(q, o) /\ HoldsOrder(r, o) => q = r

\* What a createOrder call has established before it commits still holds.
CreateChecked ==
    \A o \in Orders :
       /\ pc[o] \in {"idle", "lockSeat", "commit", "done"}
       /\ pc[o] # "done" => order[o] = "ABSENT"
       /\ pc[o] = "commit" => /\ asked[o].seatId \in Seats
                              /\ seat[asked[o].seatId].status = "AVAILABLE"
       /\ order[o] \in {"ABSENT", "PENDING", "CONFIRMED", "FAILED"}
       /\ order[o] # "ABSENT" => asked[o].seatId \in Seats

\* What a delivery has established under its locks still holds.
HookChecked ==
    \A d \in Deliveries :
       /\ pc[d] = "lockOrder" => order[OrderOf(d)] # "ABSENT"
       /\ pc[d] \in {"lockSeat", "commit"} =>
             /\ order[OrderOf(d)] = "PENDING"
             /\ hook[d].status \in {"SUCCESS", "FAILED"}
             /\ seen[d].order = "PENDING"
       /\ pc[d] = "commit" => seen[d].seat = "RESERVED"
       /\ pc[d] = "audit" => /\ d \in webhookLog
                             /\ seen[d] = [order |-> "PENDING", seat |-> "RESERVED"]
       /\ d \in webhookLog => /\ pc[d] \in {"audit", "done"}
                               /\ hook[d].status \in {"SUCCESS", "FAILED"}

\* The inductive invariant: the locks, what is known under them, and the
\* agreement of the tables.  (createOrder, processWebhook)
IInv == /\ TypeOK
        /\ Exclusive
        /\ CreateChecked
        /\ HookChecked
        /\ SeatLedger
        /\ Settlement
        /\ AuditTruthful
==============================================================================
