------------------------- MODULE PaymentStatusUpdate -------------------------
(***************************************************************************)
(* OrderService.updatePaymentStatus, statement by statement, beside        *)
(* createOrder and processWebhook.  It is the one writer of the tables     *)
(* that runs at READ COMMITTED, does not look at the current status of the *)
(* order, leaves the seat of a CONFIRMED order RESERVED, and writes        *)
(* neither the webhook log nor the audit.  IOrderService offers it and     *)
(* nothing in the repository calls it: the model says what it guarantees   *)
(* and what a caller must see to.                                          *)
(*                                                                         *)
(* createOrder and processWebhook are single steps, at their commit, taken *)
(* when the rows they lock are free (OrderTransactions, and its proof that *)
(* it implements SeatBooking).  Writes are invisible to others until       *)
(* COMMIT, so a transaction keeps the set of its writes until then.        *)
(***************************************************************************)
CONSTANTS Seats, Orders,
          Updates,     \* the calls of updatePaymentStatus
          NULL,        \* the absent value
          MayFail      \* whether statements may fail

SeatStatus == {"AVAILABLE", "RESERVED", "BOOKED"}
OrderStatus == {"PENDING", "CONFIRMED", "FAILED"}
PaymentStatus == {"PENDING", "SUCCESS", "FAILED"}

\* A row of the orders table.
Order == [status : OrderStatus, seatId : Seats]

ASSUME PaymentStatusUpdateAssumption ==
    /\ NULL \notin Order \cup OrderStatus \cup PaymentStatus
    /\ MayFail \in BOOLEAN

VARIABLES
    seat,     \* the status column of the seats table
    order,    \* the orders table: the status and the seat
    payment,  \* the status column of the payments table, by order
    call,     \* call[u]: the order and the status given to call u
    step,     \* the next statement of each call
    writes,   \* the rows each call has written and not committed
    met       \* the status of the order when call u locked it

tables == <<seat, order, payment>>
vars == <<tables, call, step, writes, met>>

Steps == {"idle", "lockOrder", "payment", "order", "lockSeat", "commit", "done"}

\* Every variable has the type the code's entities and handlers give it.
TypeOK ==
    /\ seat \in [Seats -> SeatStatus]
    /\ order \in [Orders -> Order \cup {NULL}]
    /\ payment \in [Orders -> PaymentStatus \cup {NULL}]
    /\ call \in [Updates -> [orderId : Orders, status : {"CONFIRMED", "FAILED"}]]
    /\ step \in [Updates -> Steps]
    /\ writes \in [Updates -> SUBSET {"payment", "order", "seat"}]
    /\ met \in [Updates -> OrderStatus \cup {NULL}]

Init ==
    /\ seat = [s \in Seats |-> "AVAILABLE"]
    /\ order = [o \in Orders |-> NULL]
    /\ payment = [o \in Orders |-> NULL]
    /\ call \in [Updates -> [orderId : Orders, status : {"CONFIRMED", "FAILED"}]]
    /\ step = [u \in Updates |-> "idle"]
    /\ writes = [u \in Updates |-> {}]
    /\ met = [u \in Updates |-> NULL]

------------------------------------------------------------------------------
(***************************************************************************)
(* Row locks, and the other two writers.                                   *)
(***************************************************************************)
\* A faulty variant: the order is read without FOR UPDATE.
HoldsNoOrder(u, o) == FALSE

HoldsOrder(u, o) == /\ call[u].orderId = o
                    /\ step[u] \in {"payment", "order", "lockSeat", "commit"}

\* A faulty variant: the seat is released whatever became of the payment.
alwaysReleases(u) == TRUE

\* If payment failed, release the seat.
releases(u) == call[u].status = "FAILED"

HoldsSeat(u, s) == /\ step[u] = "commit"
                   /\ releases(u)
                   /\ order[call[u].orderId].seatId = s

OrderFree(o) == \A u \in Updates : ~HoldsOrder(u, o)
SeatFree(s) == \A u \in Updates : ~HoldsSeat(u, s)

\* OrderRepository.createOrder, PaymentRepository.createPayment.
InsertOrder(o, s) == order' = [order EXCEPT ![o] = [status |-> "PENDING", seatId |-> s]]
InsertPayment(o) == payment' = [payment EXCEPT ![o] = "PENDING"]

\* The transaction of OrderService.createOrder.
CreateOrder(o, s) ==
    /\ order[o] = NULL
    /\ SeatFree(s)
    /\ seat[s] = "AVAILABLE"
    /\ InsertOrder(o, s)
    /\ InsertPayment(o)
    /\ seat' = [seat EXCEPT ![s] = "RESERVED"]
    /\ UNCHANGED <<call, step, writes, met>>

\* processWebhook settles a PENDING order.
ProcessWebhook(o, status) ==
    /\ order[o] # NULL
    /\ OrderFree(o)
    /\ SeatFree(order[o].seatId)
    /\ order[o].status = "PENDING"
    /\ payment' = [payment EXCEPT ![o] = status]
    /\ order' = [order EXCEPT ![o].status =
                    IF status = "SUCCESS" THEN "CONFIRMED" ELSE "FAILED"]
    /\ seat' = [seat EXCEPT ![order[o].seatId] =
                   IF status = "SUCCESS" THEN "BOOKED" ELSE "AVAILABLE"]
    /\ UNCHANGED <<call, step, writes, met>>

------------------------------------------------------------------------------
(***************************************************************************)
(* updatePaymentStatus.                                                    *)
(***************************************************************************)
Goto(u, label) == step' = [step EXCEPT ![u] = label]
Write(u, row) == writes' = [writes EXCEPT ![u] = @ \cup {row}]

Begin(u) == /\ step[u] = "idle"
            /\ Goto(u, "lockOrder")
            /\ UNCHANGED <<tables, call, writes, met>>

\* The transaction is over without its writes.
RollBack(u) == /\ Goto(u, "done")
               /\ writes' = [writes EXCEPT ![u] = {}]
               /\ UNCHANGED <<tables, call, met>>

OrderNotFound(u) == /\ step[u] = "lockOrder"
                    /\ order[call[u].orderId] = NULL
                    /\ RollBack(u)

\* findByIdForUpdate; the status is read and not looked at.
LockOrder(u) ==
    LET o == call[u].orderId IN
    /\ step[u] = "lockOrder"
    /\ order[o] # NULL
    /\ OrderFree(o)
    /\ met' = [met EXCEPT ![u] = order[o].status]
    /\ Goto(u, "payment")
    /\ UNCHANGED <<tables, call, writes>>

\* A faulty variant: the status of the order is given to the payment as it is.
paymentStatusUnmapped(status) == status

paymentStatus(status) == IF status = "CONFIRMED" THEN "SUCCESS" ELSE "FAILED"

\* A faulty variant: updateStatus is not given the transaction's manager.
UpdatePaymentOutside(u) ==
    /\ step[u] = "payment"
    /\ payment' = [payment EXCEPT ![call[u].orderId] = paymentStatus(call[u].status)]
    /\ Goto(u, "order")
    /\ UNCHANGED <<seat, order, call, writes, met>>

\* findByOrderId and updateStatus; an order always has its payment.
UpdatePayment(u) == /\ step[u] = "payment"
                    /\ Write(u, "payment")
                    /\ Goto(u, "order")
                    /\ UNCHANGED <<tables, call, met>>

\* OrderRepository.update.
UpdateOrder(u) == /\ step[u] = "order"
                  /\ Write(u, "order")
                  /\ Goto(u, IF releases(u) THEN "lockSeat" ELSE "commit")
                  /\ UNCHANGED <<tables, call, met>>

\* findByIdForUpdate and SeatRepository.update.
ReleaseSeat(u) == /\ step[u] = "lockSeat"
                  /\ SeatFree(order[call[u].orderId].seatId)
                  /\ Write(u, "seat")
                  /\ Goto(u, "commit")
                  /\ UNCHANGED <<tables, call, met>>

\* COMMIT, acknowledged or not: the writes take effect.
Commit(u) ==
    LET o == call[u].orderId
        set(row, table, id, value) ==
            IF row \in writes[u] THEN [table EXCEPT ![id] = value] ELSE table IN
    /\ step[u] = "commit"
    /\ payment' = set("payment", payment, o, paymentStatus(call[u].status))
    /\ order' = set("order", order, o, [order[o] EXCEPT !.status = call[u].status])
    /\ seat' = set("seat", seat, order[o].seatId, "AVAILABLE")
    /\ writes' = [writes EXCEPT ![u] = {}]
    /\ Goto(u, "done")
    /\ UNCHANGED <<call, met>>

\* A statement fails, or the process dies: PostgreSQL rolls back.
Fails(u) == /\ MayFail
            /\ step[u] \notin {"idle", "done"}
            /\ RollBack(u)

Quiescent == /\ \A u \in Updates : step[u] = "done"
             /\ UNCHANGED vars

Next ==
    \/ \E o \in Orders : \/ \E s \in Seats : CreateOrder(o, s)
                         \/ \E status \in {"SUCCESS", "FAILED"} : ProcessWebhook(o, status)
    \/ \E u \in Updates : \/ Begin(u) \/ OrderNotFound(u) \/ LockOrder(u)
                          \/ UpdatePayment(u) \/ UpdateOrder(u) \/ ReleaseSeat(u)
                          \/ Commit(u) \/ Fails(u)
    \/ Quiescent

Spec == Init /\ [][Next]_vars

------------------------------------------------------------------------------
(***************************************************************************)
(* Properties.                                                             *)
(***************************************************************************)
statusOf(o) == IF order[o] = NULL THEN "ABSENT" ELSE order[o].status
Live(o) == statusOf(o) \in {"PENDING", "CONFIRMED"}
LiveOf(s) == {o \in Orders : Live(o) /\ order[o].seatId = s}
SeatSafe(s) == /\ \A o, p \in LiveOf(s) : o = p
               /\ seat[s] = "AVAILABLE" <=> LiveOf(s) = {}

\* Order and payment, written by two repositories, agree for everyone to see,
\* whoever settles the order, how often, and wherever a statement fails.
\* (updatePaymentStatus, processWebhook)
PaymentAgrees ==
    \A o \in Orders :
       payment[o] = CASE statusOf(o) = "ABSENT"    -> NULL
                      [] statusOf(o) = "CONFIRMED" -> "SUCCESS"
                      [] OTHER                     -> statusOf(o)

\* What a caller must see to: as long as every call was for an order that was
\* PENDING when the call locked it, no seat has two live orders or is on sale
\* while it has one, beside any webhooks.  A call for a settled order may give
\* the seat of somebody else away.  (updatePaymentStatus)
SeatsSafeIfPending ==
    (\A u \in Updates : met[u] \in {NULL, "PENDING"}) => \A s \in Seats : SeatSafe(s)

\* This step is the commit of u, a call for o, which met o as it still is.
CommitsOver(u, o) ==
    /\ step[u] = "commit" /\ step'[u] = "done"
    /\ call[u].orderId = o
    /\ met[u] = order[o].status
    /\ order'[o].status = call[u].status

\* A settled order changes only in the commit of a call for it that had met, under
\* its lock and statements ago, the very status this commit overwrites, and it gets
\* the status of that call: nobody settles it between a call's look at it and its
\* commit, and no webhook or booking overwrites it.  (updatePaymentStatus,
\* processWebhook)
OverwritesWhatItMet ==
    [][\A o \in Orders :
          order[o] # NULL /\ order[o].status # "PENDING" /\ order'[o] # order[o] =>
             \E u \in Updates : CommitsOver(u, o)]_vars

\* What has become of an order with this status, and the bookings in the tables.
fateOf(status) == CASE status = "ABSENT"    -> "none"
                    [] status = "CONFIRMED" -> "confirmed"
                    [] status = "FAILED"    -> "failed"
                    [] OTHER                -> "pending"

Booking == INSTANCE SeatBooking WITH
    holder <- [s \in Seats |-> LiveOf(s)],
    fate <- [o \in Orders |-> fateOf(statusOf(o))]

\* The same condition makes the third writer harmless: until a call meets a
\* settled order, what bookings, webhooks and calls do together are steps of the
\* abstract booking, each order settled once.  (updatePaymentStatus)
BookingsKeptIfPending ==
    [][(\A u \in Updates : met'[u] \in {NULL, "PENDING"})
          => [Booking!Next]_(Booking!vars)]_vars
==============================================================================
