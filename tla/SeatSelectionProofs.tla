-------------------------- MODULE SeatSelectionProofs --------------------------
(***************************************************************************)
(* Theorems about SeatSelection, for any number of users, seats, requests, *)
(* visits and faults.                                                      *)
(***************************************************************************)
EXTENDS SeatSelection, TLAPS

\* A page waits only while it shows the list, for its own request of this visit,
\* whose connection holds; only the payment page has an order.
PageOK(u) ==
    /\ view[u].page # "progress" => view[u].orderId = NULL
    /\ isBooking(u) =>
         LET r == request[view[u].waitsFor] IN
         /\ view[u].page = "list"
         /\ r # NULL
         /\ r.user = u /\ r.visit = visits[u] /\ ~r.lost

\* A request of this visit is waited for, gone on with, lost or answered by an error.
Accounted(o) ==
    LET r == request[o] IN
    r.visit = visits[r.user] =>
       r.lost \/ r.reply \in Errors \/ o \in {view[r.user].waitsFor, view[r.user].orderId}

\* An order is made by a request that is answered so, or by an error that was counted
\* as a failure after the COMMIT; no request is of a visit to come.
RequestOK(o) ==
    IF request[o] = NULL THEN fate[o] = "none"
    ELSE /\ request[o].reply \in {"none", "error"} => fate[o] = "none"
         /\ request[o].visit <= visits[request[o].user]
         /\ Accounted(o)

IInv == /\ TypeOK
        /\ \A u \in Users : PageOK(u)
        /\ \A o \in Orders : RequestOK(o)

USE SeatSelectionAssumption

------------------------------------------------------------------------------
(***************************************************************************)
(* Records and types.                                                      *)
(***************************************************************************)
LEMMA Typed ==
    ASSUME TypeOK
    PROVE  /\ \A u \in Users : /\ view[u] \in View
                               /\ view[u].waitsFor \in Orders \cup {NULL}
                               /\ view[u].selectedSeat \in Seats \cup {NULL}
                               /\ visits[u] \in Nat /\ visits[u] \in 1 .. MaxVisits
           /\ \A o \in Orders : request[o] # NULL => /\ request[o] \in Requests
                                                     /\ request[o].user \in Users
                                                     /\ request[o].visit \in Nat
  BY DEF TypeOK, View, Requests

LEMMA FaultTyped ==
    ASSUME TypeOK, NEW kind, Fault(kind) \/ NoFault
    PROVE  faults' \in 0 .. MaxFaults
  BY DEF TypeOK, Fault, NoFault

LEMMA InitInv == Init => IInv
  <1> SUFFICES ASSUME Init PROVE IInv
    OBVIOUS
  <1>1. Mounted \in View /\ Mounted.waitsFor = NULL /\ Mounted.orderId = NULL
    BY DEF Mounted, View
  <1>2. TypeOK
    BY <1>1 DEF Init, TypeOK, Booking!Init, Booking!TypeOK, Booking!Fates
  <1>3. \A u \in Users : PageOK(u)
    BY <1>1 DEF Init, PageOK, isBooking
  <1>4. \A o \in Orders : RequestOK(o)
    BY DEF Init, RequestOK, Booking!Init
  <1> QED
    BY <1>2, <1>3, <1>4 DEF IInv

------------------------------------------------------------------------------
(***************************************************************************)
(* The page.                                                               *)
(***************************************************************************)
\* Steps of a page that leave alone what it waits for and what it goes on with.
LEMMA PageMoves ==
    ASSUME IInv, NEW u \in Users, UNCHANGED <<bookings, visits, request>>,
           NEW v \in View, view' = [view EXCEPT ![u] = v],
           v.waitsFor = view[u].waitsFor, v.orderId = view[u].orderId,
           \/ v.page = view[u].page
           \/ view[u].page = "loading" /\ v.page # "progress",
           faults' \in 0 .. MaxFaults
    PROVE  IInv'
  <1>1. UNCHANGED <<holder, fate>>
    BY DEF bookings
  <1>2. view'[u] = v /\ \A w \in Users \ {u} : view'[w] = view[w]
    BY DEF IInv, TypeOK
  <1>3. \A w \in Users : /\ view'[w].waitsFor = view[w].waitsFor
                         /\ view'[w].orderId = view[w].orderId
    BY <1>2
  <1>4. TypeOK'
    BY <1>1 DEF IInv, TypeOK, Booking!TypeOK
  <1>5. ASSUME NEW w \in Users PROVE PageOK(w)'
    BY <1>2, <1>3 DEF IInv, PageOK, isBooking
  <1>6. ASSUME NEW o \in Orders PROVE RequestOK(o)'
    BY <1>1, <1>3, Typed DEF IInv, RequestOK, Accounted
  <1> QED
    BY <1>4, <1>5, <1>6 DEF IInv

LEMMA ListInv ==
    ASSUME IInv, NEW u \in Users, fetchSeats(u) \/ fetchSeatsFails(u)
    PROVE  IInv'
  <1>1. /\ view[u] \in View /\ view[u].page = "loading"
        /\ UNCHANGED <<bookings, visits, request>>
    BY Typed DEF IInv, fetchSeats, fetchSeatsFails
  <1>2. faults' \in 0 .. MaxFaults
    BY FaultTyped DEF IInv, fetchSeats, fetchSeatsFails
  <1>3. CASE fetchSeats(u)
    <2>. DEFINE v == [view[u] EXCEPT !.page = "list", !.seats = findAll]
    <2>1. view' = [view EXCEPT ![u] = v]
      BY <1>3 DEF fetchSeats
    <2>2. findAll \in [Seats -> SeatStatus]
      BY DEF findAll, SeatStatus
    <2>3. /\ v \in View /\ v.page = "list"
          /\ v.waitsFor = view[u].waitsFor /\ v.orderId = view[u].orderId
      BY <1>1, <2>2 DEF View
    <2>. HIDE DEF v
    <2> QED
      BY <1>1, <1>2, <2>1, <2>3, PageMoves
  <1>4. CASE fetchSeatsFails(u)
    <2>. DEFINE v == [view[u] EXCEPT !.page = "failed"]
    <2>1. view' = [view EXCEPT ![u] = v]
      BY <1>4 DEF fetchSeatsFails
    <2>2. /\ v \in View /\ v.page = "failed"
          /\ v.waitsFor = view[u].waitsFor /\ v.orderId = view[u].orderId
      BY <1>1 DEF View
    <2>. HIDE DEF v
    <2> QED
      BY <1>1, <1>2, <2>1, <2>2, PageMoves
  <1> QED
    BY <1>3, <1>4

LEMMA DialogInv ==
    ASSUME IInv, NEW u \in Users,
           handleCancelBooking(u) \/ \E s \in Seats : handleSeatClick(u, s)
    PROVE  IInv'
  <1>1. view[u] \in View /\ UNCHANGED <<bookings, visits, request>>
    BY Typed DEF IInv, handleCancelBooking, handleSeatClick
  <1>2. faults' \in 0 .. MaxFaults
    BY FaultTyped DEF IInv, handleCancelBooking, handleSeatClick
  <1>3. CASE handleCancelBooking(u)
    <2>. DEFINE v == [view[u] EXCEPT !.selectedSeat = NULL, !.bookingError = FALSE]
    <2>1. view' = [view EXCEPT ![u] = v]
      BY <1>3 DEF handleCancelBooking
    <2>2. /\ v \in View /\ v.page = view[u].page
          /\ v.waitsFor = view[u].waitsFor /\ v.orderId = view[u].orderId
      BY <1>1 DEF View
    <2>. HIDE DEF v
    <2> QED
      BY <1>1, <1>2, <2>1, <2>2, PageMoves
  <1>4. ASSUME NEW s \in Seats, handleSeatClick(u, s) PROVE IInv'
    <2>. DEFINE v == [view[u] EXCEPT !.selectedSeat = s]
    <2>1. view' = [view EXCEPT ![u] = v]
      BY <1>4 DEF handleSeatClick
    <2>2. /\ v \in View /\ v.page = view[u].page
          /\ v.waitsFor = view[u].waitsFor /\ v.orderId = view[u].orderId
      BY <1>1 DEF View
    <2>. HIDE DEF v
    <2> QED
      BY <1>1, <1>2, <2>1, <2>2, PageMoves
  <1> QED
    BY <1>3, <1>4

\* A new request is sent, and the page waits for it.
LEMMA ConfirmInv ==
    ASSUME IInv, NEW u \in Users, handleConfirmBooking(u)
    PROVE  IInv'
  <1>1. /\ view[u].page = "list" /\ view[u].selectedSeat # NULL /\ view[u].waitsFor = NULL
        /\ UNCHANGED <<holder, fate, visits, faults>>
    BY DEF handleConfirmBooking, dialogShown, isBooking, NoFault, bookings
  <1>. DEFINE r == [user |-> u, visit |-> visits[u], seatId |-> view[u].selectedSeat,
                    reply |-> "none", lost |-> FALSE]
              v(o) == [view[u] EXCEPT !.waitsFor = o, !.bookingError = FALSE]
  <1>2. PICK o \in Orders : /\ request[o] = NULL
                            /\ request' = [request EXCEPT ![o] = r]
                            /\ view' = [view EXCEPT ![u] = v(o)]
    BY DEF handleConfirmBooking
  <1>3. r \in Requests /\ r # NULL
    <2>1. r \in Requests
      BY <1>1, Typed DEF IInv, Requests
    <2> QED
      BY <2>1
  <1>4. /\ r.user = u /\ r.visit = visits[u] /\ ~r.lost /\ r.reply = "none"
    OBVIOUS
  <1>5. /\ v(o) \in View /\ v(o).page = "list" /\ v(o).waitsFor = o
        /\ v(o).orderId = view[u].orderId
    BY <1>1, Typed DEF IInv, View
  <1>. HIDE DEF r, v
  <1>6. /\ view'[u] = v(o) /\ \A w \in Users \ {u} : view'[w] = view[w]
        /\ request'[o] = r /\ \A p \in Orders \ {o} : request'[p] = request[p]
    BY <1>2 DEF IInv, TypeOK
  <1>7. TypeOK'
    BY <1>1, <1>2, <1>3, <1>5 DEF IInv, TypeOK, Booking!TypeOK, Requests
  <1>8. ASSUME NEW w \in Users PROVE PageOK(w)'
    <2>1. CASE w = u
      BY <1>1, <1>3, <1>4, <1>5, <1>6, <2>1 DEF IInv, PageOK, isBooking
    <2>2. CASE w # u
      <3>1. isBooking(w) => view[w].waitsFor # o /\ view[w].waitsFor \in Orders
        BY <1>2, Typed DEF IInv, PageOK, isBooking
      <3> QED
        BY <1>1, <1>6, <2>2, <3>1 DEF IInv, PageOK, isBooking
    <2> QED
      BY <2>1, <2>2
  <1>9. ASSUME NEW p \in Orders PROVE RequestOK(p)'
    <2>1. CASE p = o
      BY <1>1, <1>2, <1>3, <1>4, <1>5, <1>6, <2>1, Typed DEF IInv, RequestOK, Accounted
    <2>2. CASE p # o
      BY <1>1, <1>5, <1>6, <2>2, Typed DEF IInv, RequestOK, Accounted
    <2> QED
      BY <2>1, <2>2
  <1> QED
    BY <1>7, <1>8, <1>9 DEF IInv

\* No request is of the visit that begins.
LEMMA VisitInv ==
    ASSUME IInv, NEW u \in Users, Visit(u)
    PROVE  IInv'
  <1>1. /\ UNCHANGED <<holder, fate, request, faults>> /\ visits[u] < MaxVisits
        /\ visits' = [visits EXCEPT ![u] = @ + 1]
        /\ view' = [view EXCEPT ![u] = Mounted]
    BY DEF Visit, NoFault, bookings
  <1>2. visits[u] + 1 \in 1 .. MaxVisits
    BY <1>1, Typed DEF IInv
  <1>3. Mounted \in View /\ Mounted.waitsFor = NULL /\ Mounted.orderId = NULL
    BY DEF Mounted, View
  <1>4. /\ view'[u] = Mounted /\ \A w \in Users \ {u} : view'[w] = view[w]
        /\ visits'[u] = visits[u] + 1 /\ \A w \in Users \ {u} : visits'[w] = visits[w]
    BY <1>1 DEF IInv, TypeOK
  <1>5. TypeOK'
    BY <1>1, <1>2, <1>3 DEF IInv, TypeOK, Booking!TypeOK
  <1>6. ASSUME NEW w \in Users PROVE PageOK(w)'
    BY <1>1, <1>3, <1>4 DEF IInv, PageOK, isBooking
  <1>7. ASSUME NEW o \in Orders PROVE RequestOK(o)'
    <2>1. CASE request[o] = NULL
      BY <1>1, <2>1 DEF IInv, RequestOK
    <2>2. CASE request[o] # NULL /\ request[o].user = u
      BY <1>1, <1>4, <2>2, Typed DEF IInv, RequestOK, Accounted
    <2>3. CASE request[o] # NULL /\ request[o].user # u
      BY <1>1, <1>4, <2>3, Typed DEF IInv, RequestOK, Accounted
    <2> QED
      BY <2>1, <2>2, <2>3
  <1> QED
    BY <1>5, <1>6, <1>7 DEF IInv

\* The page goes on with the order, or shows the error of its refusal.
LEMMA AnsweredInv ==
    ASSUME IInv, NEW u \in Users, Answered(u)
    PROVE  IInv'
  <1>. DEFINE o == view[u].waitsFor
  <1>1. /\ UNCHANGED <<holder, fate, visits, request, faults>> /\ isBooking(u)
        /\ \/ /\ request[o].reply = "created"
              /\ view' = [view EXCEPT ![u] = [view[u] EXCEPT !.page = "progress",
                             !.waitsFor = NULL, !.orderId = o]]
           \/ /\ request[o].reply \in Errors
              /\ view' = [view EXCEPT ![u] = [view[u] EXCEPT !.waitsFor = NULL,
                                                             !.bookingError = TRUE]]
    BY DEF Answered, ShowError, NoFault, bookings
  <1>2. o \in Orders /\ o # NULL /\ request[o].user = u /\ view[u].orderId = NULL
    BY <1>1, Typed DEF IInv, PageOK, isBooking
  <1>. HIDE DEF o
  <1>3. PICK v \in View :
           /\ view' = [view EXCEPT ![u] = v]
           /\ v.waitsFor = NULL
           /\ \/ request[o].reply \in Errors /\ v.orderId = NULL
              \/ v.page = "progress" /\ v.orderId = o
    <2>1. view[u] \in View
      BY Typed DEF IInv
    <2>2. CASE request[o].reply = "created"
      <3>. DEFINE v == [view[u] EXCEPT !.page = "progress", !.waitsFor = NULL, !.orderId = o]
      <3>1. v \in View /\ v.waitsFor = NULL /\ v.page = "progress" /\ v.orderId = o
        BY <1>2, <2>1 DEF View
      <3> QED
        BY <1>1, <2>2, <3>1 DEF Errors
    <2>3. CASE request[o].reply \in Errors
      <3>. DEFINE v == [view[u] EXCEPT !.waitsFor = NULL, !.bookingError = TRUE]
      <3>1. v \in View /\ v.waitsFor = NULL /\ v.orderId = NULL
        BY <1>2, <2>1 DEF View
      <3> QED
        BY <1>1, <2>3, <3>1 DEF Errors
    <2> QED
      BY <1>1, <2>2, <2>3
  <1>4. view'[u] = v /\ \A w \in Users \ {u} : view'[w] = view[w]
    BY <1>3 DEF IInv, TypeOK
  <1>5. TypeOK'
    BY <1>1, <1>3 DEF IInv, TypeOK, Booking!TypeOK
  <1>6. ASSUME NEW w \in Users PROVE PageOK(w)'
    BY <1>1, <1>3, <1>4 DEF IInv, PageOK, isBooking
  <1>7. ASSUME NEW p \in Orders PROVE RequestOK(p)'
    <2>1. CASE p = o
      BY <1>1, <1>2, <1>3, <1>4, <2>1 DEF IInv, RequestOK, Accounted
    <2>2. CASE p # o
      <3>1. p # NULL
        OBVIOUS
      <3> QED
        BY <1>1, <1>2, <1>4, <2>2, <3>1, Typed DEF IInv, RequestOK, Accounted, o
    <2> QED
      BY <2>1, <2>2
  <1> QED
    BY <1>5, <1>6, <1>7 DEF IInv

\* The page gives up the request, which is marked as lost.
LEMMA ConnectionLostInv ==
    ASSUME IInv, NEW u \in Users, ConnectionLost(u)
    PROVE  IInv'
  <1>. DEFINE o == view[u].waitsFor
              r == [request[o] EXCEPT !.lost = TRUE]
              v == [view[u] EXCEPT !.waitsFor = NULL, !.bookingError = TRUE]
  <1>1. /\ UNCHANGED <<holder, fate, visits>> /\ isBooking(u)
        /\ request' = [request EXCEPT ![o] = r]
        /\ view' = [view EXCEPT ![u] = v]
    BY DEF ConnectionLost, ShowError, bookings
  <1>2. faults' \in 0 .. MaxFaults
    BY FaultTyped DEF IInv, ConnectionLost
  <1>3. /\ o \in Orders /\ request[o] \in Requests /\ request[o] # NULL
        /\ request[o].user = u /\ view[u].page = "list" /\ view[u].orderId = NULL
    BY <1>1, Typed DEF IInv, PageOK, isBooking
  <1>4. /\ r \in Requests /\ r.lost /\ r.user = u
        /\ r.reply = request[o].reply /\ r.visit = request[o].visit
    BY <1>3 DEF Requests
  <1>5. v \in View /\ v.waitsFor = NULL /\ v.page = "list" /\ v.orderId = NULL
    <2>1. view[u] \in View
      BY Typed DEF IInv
    <2> QED
      BY <1>3, <2>1 DEF View
  <1>. HIDE DEF o, r, v
  <1>6. r # NULL
    BY <1>4
  <1>7. /\ view'[u] = v /\ \A w \in Users \ {u} : view'[w] = view[w]
        /\ request'[o] = r /\ \A p \in Orders \ {o} : request'[p] = request[p]
    BY <1>1, <1>3 DEF IInv, TypeOK
  <1>8. TypeOK'
    BY <1>1, <1>2, <1>4, <1>5 DEF IInv, TypeOK, Booking!TypeOK, Requests
  <1>9. ASSUME NEW w \in Users PROVE PageOK(w)'
    <2>1. CASE w = u
      BY <1>5, <1>7, <2>1 DEF PageOK, isBooking
    <2>2. CASE w # u
      <3>1. isBooking(w) => view[w].waitsFor # o /\ view[w].waitsFor \in Orders
        BY <1>3, <2>2, Typed DEF IInv, PageOK, isBooking
      <3> QED
        BY <1>1, <1>7, <2>2, <3>1 DEF IInv, PageOK, isBooking
    <2> QED
      BY <2>1, <2>2
  <1>10. ASSUME NEW p \in Orders PROVE RequestOK(p)'
    <2>1. CASE p = o
      BY <1>1, <1>3, <1>4, <1>6, <1>7, <2>1 DEF IInv, RequestOK, Accounted
    <2>2. CASE p # o
      <3>1. p # NULL
        OBVIOUS
      <3> QED
        BY <1>1, <1>3, <1>7, <2>2, <3>1, Typed DEF IInv, RequestOK, Accounted, o
    <2> QED
      BY <2>1, <2>2
  <1> QED
    BY <1>8, <1>9, <1>10 DEF IInv

------------------------------------------------------------------------------
(***************************************************************************)
(* The gateway and order-service.                                          *)
(***************************************************************************)
\* An answer to a request; no order with an error but one after the COMMIT.
LEMMA ReplyInv ==
    ASSUME IInv, NEW o \in Orders, Unanswered(o), NEW answer \in Answers,
           Reply(o, answer), UNCHANGED <<view, visits>>, Booking!TypeOK',
           \A p \in Orders : fate'[p] = fate[p] \/ (p = o /\ answer # "error"),
           faults' \in 0 .. MaxFaults
    PROVE  IInv'
  <1>. DEFINE r == [request[o] EXCEPT !.reply = answer]
  <1>1. request[o] # NULL /\ request[o].reply = "none" /\ request' = [request EXCEPT ![o] = r]
    BY DEF Unanswered, Reply
  <1>2. request[o] \in Requests
    BY <1>1, Typed DEF IInv
  <1>3. /\ r \in Requests /\ r.reply = answer /\ r.lost = request[o].lost
        /\ r.user = request[o].user /\ r.visit = request[o].visit
    BY <1>2 DEF Requests
  <1>. HIDE DEF r
  <1>4. r # NULL /\ answer # "none"
    BY <1>3 DEF Answers, Errors
  <1>5. request'[o] = r /\ \A p \in Orders \ {o} : request'[p] = request[p]
    BY <1>1 DEF IInv, TypeOK
  <1>6. TypeOK'
    BY <1>1, <1>3 DEF IInv, TypeOK, Requests
  <1>7. ASSUME NEW w \in Users PROVE PageOK(w)'
    <2>1. isBooking(w) => view[w].waitsFor \in Orders
      BY Typed DEF IInv, isBooking
    <2> QED
      BY <1>1, <1>3, <1>4, <1>5, <2>1 DEF IInv, PageOK, isBooking
  <1>8. ASSUME NEW p \in Orders PROVE RequestOK(p)'
    <2>1. CASE p = o
      BY <1>1, <1>3, <1>4, <1>5, <2>1 DEF IInv, RequestOK, Accounted, Errors
    <2>2. CASE p # o
      BY <1>5, <2>2 DEF IInv, RequestOK, Accounted
    <2> QED
      BY <2>1, <2>2
  <1> QED
    BY <1>6, <1>7, <1>8 DEF IInv

LEMMA RefuseInv ==
    ASSUME IInv, NEW o \in Orders, Reject(o) \/ CreateOrderAborted(o) \/ Refuse(o)
    PROVE  IInv'
  <1>1. /\ Unanswered(o) /\ Reply(o, "error")
        /\ UNCHANGED <<holder, fate, view, visits>>
    BY DEF Reject, CreateOrderAborted, Refuse, bookings
  <1>2. faults' \in 0 .. MaxFaults
    BY FaultTyped DEF IInv, Reject, CreateOrderAborted, Refuse
  <1>3. Booking!TypeOK' /\ \A p \in Orders : fate'[p] = fate[p]
    BY <1>1 DEF IInv, TypeOK, Booking!TypeOK
  <1>4. "error" \in Answers
    BY DEF Answers, Errors
  <1> QED
    BY <1>1, <1>2, <1>3, <1>4, ReplyInv

LEMMA CreateOrderInv ==
    ASSUME IInv, NEW o \in Orders, CreateOrder(o) \/ CreateOrderUnacknowledged(o)
    PROVE  IInv'
  <1>1. /\ Unanswered(o)
        /\ Reply(o, "created") \/ Reply(o, "errorAfterCommit")
        /\ fate' = [fate EXCEPT ![o] = "pending"]
        /\ holder' = [holder EXCEPT ![request[o].seatId] = {o}]
        /\ UNCHANGED <<view, visits>>
    BY DEF CreateOrder, CreateOrderUnacknowledged, Booking!Reserve
  <1>2. Booking!TypeOK'
    BY <1>1 DEF IInv, TypeOK, Booking!TypeOK, Booking!Fates
  <1>3. \A p \in Orders \ {o} : fate'[p] = fate[p]
    BY <1>1 DEF IInv, TypeOK, Booking!TypeOK
  <1>4. faults' \in 0 .. MaxFaults
    BY FaultTyped DEF IInv, CreateOrder, CreateOrderUnacknowledged
  <1>5. PICK answer \in Answers : Reply(o, answer) /\ answer # "error"
    BY <1>1 DEF Answers, Errors
  <1> QED
    BY <1>1, <1>2, <1>3, <1>4, <1>5, ReplyInv

LEMMA SettleInv ==
    ASSUME IInv, NEW o \in Orders, Settle(o)
    PROVE  IInv'
  <1>1. /\ fate[o] = "pending"
        /\ \E f \in {"confirmed", "failed"} : fate' = [fate EXCEPT ![o] = f]
        /\ holder' \in {holder, [s \in Seats |-> holder[s] \ {o}]}
        /\ UNCHANGED <<view, visits, request, faults>>
    BY DEF Settle, Booking!Confirm, Booking!Release, NoFault
  <1>2. Booking!TypeOK'
    <2>1. holder' \in [Seats -> SUBSET Orders]
      BY <1>1 DEF IInv, TypeOK, Booking!TypeOK
    <2>2. fate' \in [Orders -> Booking!Fates]
      BY <1>1 DEF IInv, TypeOK, Booking!TypeOK, Booking!Fates
    <2> QED
      BY <2>1, <2>2 DEF Booking!TypeOK
  <1>3. TypeOK'
    BY <1>1, <1>2 DEF IInv, TypeOK
  <1>4. \A p \in Orders \ {o} : fate'[p] = fate[p]
    BY <1>1 DEF IInv, TypeOK, Booking!TypeOK
  <1>5. ASSUME NEW w \in Users PROVE PageOK(w)'
    BY <1>1 DEF IInv, PageOK, isBooking
  <1>6. ASSUME NEW p \in Orders PROVE RequestOK(p)'
    BY <1>1, <1>4 DEF IInv, RequestOK, Accounted
  <1> QED
    BY <1>3, <1>5, <1>6 DEF IInv

------------------------------------------------------------------------------
(***************************************************************************)
(* The theorems.                                                           *)
(***************************************************************************)
LEMMA NextInv == IInv /\ [Next]_vars => IInv'
  <1> SUFFICES ASSUME IInv, [Next]_vars PROVE IInv'
    OBVIOUS
  <1>1. CASE UNCHANGED vars
    <2>1. UNCHANGED <<holder, fate, view, visits, request, faults>>
      BY <1>1 DEF vars, bookings
    <2> QED
      BY <2>1 DEF IInv, TypeOK, Booking!TypeOK, PageOK, isBooking, RequestOK, Accounted
  <1>2. ASSUME NEW u \in Users,
               \/ fetchSeats(u) \/ fetchSeatsFails(u)
               \/ \E s \in Seats : handleSeatClick(u, s)
               \/ handleConfirmBooking(u) \/ handleCancelBooking(u)
               \/ Visit(u) \/ Answered(u) \/ ConnectionLost(u)
        PROVE  IInv'
    BY <1>2, ListInv, DialogInv, ConfirmInv, VisitInv, AnsweredInv, ConnectionLostInv
  <1>3. ASSUME NEW o \in Orders,
               \/ Reject(o) \/ CreateOrder(o) \/ CreateOrderUnacknowledged(o)
               \/ CreateOrderAborted(o) \/ Refuse(o) \/ Settle(o)
        PROVE  IInv'
    BY <1>3, RefuseInv, CreateOrderInv, SettleInv
  <1>4. CASE Quiescent
    BY <1>1, <1>4 DEF Quiescent
  <1> QED
    BY <1>1, <1>2, <1>3, <1>4 DEF Next

\* Everything above holds in every state users, gateway and order-service reach.
THEOREM Invariance == Spec => []IInv
  BY InitInv, NextInv, PTL DEF Spec

\* Pages, requests and bookings keep their types through every click, answer,
\* reload and fault.
THEOREM TypeCorrect == Spec => []TypeOK
  <1>1. IInv => TypeOK
    BY DEF IInv
  <1> QED
    BY <1>1, Invariance, PTL

\* handleConfirmBooking and createOrder together: whatever other users do and
\* however often a user confirms, reloads or changes seats, a page waits for every
\* order placed from it or has gone on with it, unless the connection broke or
\* order-service failed between its COMMIT and its answer.
THEOREM PageCorrect == Spec => []PageKnowsItsOrders
  <1>1. IInv => PageKnowsItsOrders
    <2> SUFFICES ASSUME IInv, NEW u \in Users, NEW o \in OrdersOf(u, visits[u])
                 PROVE  \/ o \in {view[u].waitsFor, view[u].orderId}
                        \/ request[o].lost \/ Unacknowledged(o)
      BY DEF PageKnowsItsOrders
    <2>1. /\ o \in Orders /\ request[o] # NULL /\ fate[o] # "none"
          /\ request[o].user = u /\ request[o].visit = visits[u]
      BY DEF OrdersOf
    <2>2. request[o].reply # "error"
      BY <2>1 DEF IInv, RequestOK
    <2> QED
      BY <2>1, <2>2 DEF IInv, RequestOK, Accounted, Errors, Unacknowledged
  <1> QED
    BY <1>1, Invariance, PTL
===============================================================================
