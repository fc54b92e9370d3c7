---------------------------- MODULE SeatSelection ----------------------------
(***************************************************************************)
(* How a user gets an order: the page with the seats (SeatList) lists them *)
(* once, when it is mounted; the user picks one and confirms; the request  *)
(* goes through the API gateway to order-service; the page goes on to the  *)
(* payment, or shows the error and lets the user confirm again.  Each      *)
(* request carries an idempotency key of its own (createOrder makes it).   *)
(*                                                                         *)
(* order-service is the actions of SeatBooking, which OrderTransactions    *)
(* implements.  An element of Orders is one POST /api/orders and the order *)
(* it may make.  A visit is one mounting of the page.                      *)
(***************************************************************************)
EXTENDS Naturals, FiniteSets

CONSTANTS Users, Seats, Orders,
          NULL,        \* the absent value
          Faults,      \* which faults may happen: a subset of FaultKinds
          MaxFaults,   \* BOUND: how many faults happen in a behaviour
          MaxVisits    \* BOUND: how often a user comes to the page

FaultKinds == {"listFails", "rejected", "connectionLost", "unacknowledged"}

\* What is answered to a request.  The page cannot tell an error after the order was
\* committed from any other; the two are told apart here to speak of them.
Errors == {"error", "errorAfterCommit"}
Answers == {"created"} \cup Errors

\* What order-service is asked for, how it answered, and whether the connection broke.
Requests == [user : Users, visit : 1 .. MaxVisits, seatId : Seats,
             reply : {"none"} \cup Answers, lost : BOOLEAN]

ASSUME SeatSelectionAssumption ==
    /\ NULL \notin Seats \cup Orders \cup Requests
    /\ Faults \subseteq FaultKinds
    /\ MaxFaults \in Nat
    /\ MaxVisits \in Nat \ {0}

VARIABLES
    holder, fate,  \* the bookings, see SeatBooking
    view,          \* view[u]: the page of user u
    visits,        \* visits[u]: how often u has come to the page
    request,       \* request[o]: what was asked with o, NULL if nothing yet
    faults         \* how many faults have happened

bookings == <<holder, fate>>
vars == <<bookings, view, visits, request, faults>>

Booking == INSTANCE SeatBooking

SeatStatus == {"AVAILABLE", "RESERVED", "BOOKED"}

\* The state of the page; isBooking is TRUE while it waits for a request.
View == [page : {"loading", "list", "failed", "progress"},
         seats : [Seats -> SeatStatus] \cup {NULL},
         selectedSeat : Seats \cup {NULL},
         waitsFor : Orders \cup {NULL},
         bookingError : BOOLEAN,
         orderId : Orders \cup {NULL}]   \* handed on to the payment page

Mounted == [page |-> "loading", seats |-> NULL, selectedSeat |-> NULL,
            waitsFor |-> NULL, bookingError |-> FALSE, orderId |-> NULL]

isBooking(u) == view[u].waitsFor # NULL

\* The dialog with the Confirm and Cancel buttons.
dialogShown(u) == /\ view[u].page = "list"
                  /\ view[u].selectedSeat # NULL
                  /\ ~isBooking(u)

\* Every variable has the type the page and the messages give it.
TypeOK ==
    /\ Booking!TypeOK
    /\ view \in [Users -> View]
    /\ visits \in [Users -> 1 .. MaxVisits]
    /\ request \in [Orders -> Requests \cup {NULL}]
    /\ faults \in 0 .. MaxFaults

Init ==
    /\ Booking!Init
    /\ view = [u \in Users |-> Mounted]
    /\ visits = [u \in Users |-> 1]
    /\ request = [o \in Orders |-> NULL]
    /\ faults = 0

Fault(kind) == /\ kind \in Faults
               /\ faults < MaxFaults
               /\ faults' = faults + 1

NoFault == UNCHANGED faults

------------------------------------------------------------------------------
(***************************************************************************)
(* The page.                                                               *)
(***************************************************************************)
\* A faulty variant: the status of the order is given for that of its seat.
findAllUnmapped == [s \in Seats |->
              IF holder[s] = {} THEN "AVAILABLE"
              ELSE fate[CHOOSE o \in holder[s] : TRUE]]

\* SeatRepository.findAll: the seats as they are now.
findAll == [s \in Seats |->
              IF holder[s] = {} THEN "AVAILABLE"
              ELSE IF \E o \in holder[s] : fate[o] = "pending" THEN "RESERVED"
              ELSE "BOOKED"]

fetchSeats(u) ==
    /\ view[u].page = "loading"
    /\ view' = [view EXCEPT ![u].page = "list", ![u].seats = findAll]
    /\ NoFault
    /\ UNCHANGED <<bookings, visits, request>>

fetchSeatsFails(u) ==
    /\ view[u].page = "loading"
    /\ Fault("listFails")
    /\ view' = [view EXCEPT ![u].page = "failed"]
    /\ UNCHANGED <<bookings, visits, request>>

\* The card of a seat takes clicks if the (possibly old) list has it AVAILABLE.
clickable(u, s) == /\ view[u].page = "list"
                   /\ view[u].seats[s] = "AVAILABLE"
                   /\ ~isBooking(u)

\* The seat is picked.  A previous error stays in the dialog.
handleSeatClick(u, s) ==
    /\ clickable(u, s)
    /\ view' = [view EXCEPT ![u].selectedSeat = s]
    /\ NoFault
    /\ UNCHANGED <<bookings, visits, request>>

\* A faulty variant: the dialog stays while the request is under way.
handleConfirmBookingTwice(u) ==
    /\ view[u].page = "list"
    /\ view[u].selectedSeat # NULL
    /\ \E o \in Orders :
          /\ request[o] = NULL
          /\ request' = [request EXCEPT ![o] =
                [user |-> u, visit |-> visits[u], seatId |-> view[u].selectedSeat,
                 reply |-> "none", lost |-> FALSE]]
          /\ view' = [view EXCEPT ![u].waitsFor = o, ![u].bookingError = FALSE]
    /\ NoFault
    /\ UNCHANGED <<bookings, visits>>

\* The dialog is there while no request is under way; a new one is sent.
handleConfirmBooking(u) ==
    /\ dialogShown(u)
    /\ \E o \in Orders :
          /\ request[o] = NULL
          /\ request' = [request EXCEPT ![o] =
                [user |-> u, visit |-> visits[u], seatId |-> view[u].selectedSeat,
                 reply |-> "none", lost |-> FALSE]]
          /\ view' = [view EXCEPT ![u].waitsFor = o, ![u].bookingError = FALSE]
    /\ NoFault
    /\ UNCHANGED <<bookings, visits>>

handleCancelBooking(u) ==
    /\ dialogShown(u)
    /\ view' = [view EXCEPT ![u].selectedSeat = NULL, ![u].bookingError = FALSE]
    /\ NoFault
    /\ UNCHANGED <<bookings, visits, request>>

\* The page is mounted anew: after the payment, or because it is reloaded, at
\* any moment.  The answer of a request under way then reaches nobody.
Visit(u) ==
    /\ visits[u] < MaxVisits
    /\ view[u].page # "loading"
    /\ visits' = [visits EXCEPT ![u] = @ + 1]
    /\ view' = [view EXCEPT ![u] = Mounted]
    /\ NoFault
    /\ UNCHANGED <<bookings, request>>

\* A faulty variant: the error leaves isBooking as it is.
ShowErrorKeepsBooking(u) == view' = [view EXCEPT ![u].bookingError = TRUE]

\* The catch block: the error is shown, the dialog is back.
ShowError(u) ==
    view' = [view EXCEPT ![u].waitsFor = NULL, ![u].bookingError = TRUE]

\* The answer to the request the page waits for.
Answered(u) ==
    LET o == view[u].waitsFor IN
    /\ isBooking(u)
    /\ \/ /\ request[o].reply = "created"
          /\ view' = [view EXCEPT ![u].page = "progress", ![u].waitsFor = NULL,
                                  ![u].orderId = o]
       \/ request[o].reply \in Errors /\ ShowError(u)
    /\ NoFault
    /\ UNCHANGED <<bookings, visits, request>>

\* The connection breaks; the request, wherever it is, goes on.
ConnectionLost(u) ==
    /\ isBooking(u)
    /\ Fault("connectionLost")
    /\ ShowError(u)
    /\ request' = [request EXCEPT ![view[u].waitsFor].lost = TRUE]
    /\ UNCHANGED <<bookings, visits>>

------------------------------------------------------------------------------
(***************************************************************************)
(* The gateway and order-service.                                          *)
(***************************************************************************)
Unanswered(o) == request[o] # NULL /\ request[o].reply = "none"

Reply(o, answer) == request' = [request EXCEPT ![o].reply = answer]

\* No valid token, no connection to order-service, or the transaction failed for
\* no reason of the other transactions.
Reject(o) ==
    /\ Unanswered(o)
    /\ Fault("rejected")
    /\ Reply(o, "error")
    /\ UNCHANGED <<bookings, view, visits>>

\* A faulty variant: createOrder waits for the queue and fails with it.
CreateOrderAwaitsPublish(o) ==
    /\ Unanswered(o)
    /\ Booking!Reserve(o, request[o].seatId)
    /\ \E answer \in {"created", "error"} : Reply(o, answer)
    /\ NoFault
    /\ UNCHANGED <<view, visits>>

\* createOrder commits, and answers whatever becomes of the message it sends.
CreateOrder(o) ==
    /\ Unanswered(o)
    /\ Booking!Reserve(o, request[o].seatId)
    /\ Reply(o, "created")
    /\ NoFault
    /\ UNCHANGED <<view, visits>>

\* createOrder commits, but the acknowledgement of the COMMIT is lost and the
\* transaction call throws, or the process dies before it has answered: a 500, or
\* the proxy's error, for an order that is there.
CreateOrderUnacknowledged(o) ==
    /\ Unanswered(o)
    /\ Fault("unacknowledged")
    /\ Booking!Reserve(o, request[o].seatId)
    /\ Reply(o, "errorAfterCommit")
    /\ UNCHANGED <<view, visits>>

\* The seat is not AVAILABLE any more: ConflictException.
Refuse(o) ==
    /\ Unanswered(o)
    /\ holder[request[o].seatId] # {}
    /\ Reply(o, "error")
    /\ NoFault
    /\ UNCHANGED <<bookings, view, visits>>

\* PostgreSQL aborts the SERIALIZABLE transaction (40001) because of another one
\* under way, be it about another seat: a booking, or the webhook of an order.
CreateOrderAborted(o) ==
    /\ Unanswered(o)
    /\ \E p \in Orders \ {o} : Unanswered(p) \/ fate[p] = "pending"
    /\ Reply(o, "error")
    /\ NoFault
    /\ UNCHANGED <<bookings, view, visits>>

\* processWebhook: the order is paid, or its payment failed.
Settle(o) ==
    /\ Booking!Confirm(o) \/ Booking!Release(o)
    /\ NoFault
    /\ UNCHANGED <<view, visits, request>>

\* The users want no more, or no bound allows it.
Quiescent == /\ \A u \in Users : view[u].page # "loading" /\ ~isBooking(u)
             /\ \A o \in Orders : ~Unanswered(o) /\ fate[o] # "pending"
             /\ UNCHANGED vars

Next ==
    \/ \E u \in Users : \/ fetchSeats(u) \/ fetchSeatsFails(u)
                        \/ \E s \in Seats : handleSeatClick(u, s)
                        \/ handleConfirmBooking(u) \/ handleCancelBooking(u)
                        \/ Visit(u) \/ Answered(u) \/ ConnectionLost(u)
    \/ \E o \in Orders : \/ Reject(o) \/ CreateOrder(o) \/ CreateOrderUnacknowledged(o)
                         \/ CreateOrderAborted(o) \/ Refuse(o) \/ Settle(o)
    \/ Quiescent

Spec == Init /\ [][Next]_vars

\* A request is handled, its answer delivered; the users are free not to act.
FairSpec == /\ Spec
            /\ \A o \in Orders : WF_vars(CreateOrder(o) \/ CreateOrderAborted(o) \/ Refuse(o))
            /\ \A u \in Users : WF_vars(Answered(u))

------------------------------------------------------------------------------
(***************************************************************************)
(* Properties.                                                             *)
(***************************************************************************)
\* The orders that user u placed in visit v.
OrdersOf(u, v) ==
    {o \in Orders : /\ request[o] # NULL
                    /\ request[o].user = u /\ request[o].visit = v
                    /\ fate[o] # "none"}

\* order-service committed o and told nobody: the COMMIT or the answer failed.
Unacknowledged(o) == request[o].reply = "errorAfterCommit"

\* A page knows every order placed from it: it waits for its answer or has gone on
\* to its payment.  There are two exceptions, in which a user is shown an error for
\* a seat they hold, or may place a second order in the same visit: the page's
\* connection broke, or order-service failed after its COMMIT.  Nothing else leads
\* there, whatever the list showed, whoever came first, whatever becomes of the
\* message to the queue, and however often the user confirmed or changed seats.
\* (handleConfirmBooking, createOrder)
PageKnowsItsOrders ==
    \A u \in Users : \A o \in OrdersOf(u, visits[u]) :
       \/ o \in {view[u].waitsFor, view[u].orderId}
       \/ request[o].lost \/ Unacknowledged(o)

\* A confirmation comes to an end: the payment page, the error, or another
\* visit, also when the connection is lost.  (handleConfirmBooking)
ConfirmationEnds ==
    \A u \in Users, o \in Orders : view[u].waitsFor = o ~> view[u].waitsFor # o
==============================================================================
