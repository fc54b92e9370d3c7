----------------------- MODULE PaymentStatusUpdateProofs -----------------------
(***************************************************************************)
(* Theorems about PaymentStatusUpdate, for any number of seats, orders and *)
(* calls, wherever they fail.                                              *)
(***************************************************************************)
EXTENDS PaymentStatusUpdate, TLAPS

\* What a call has written is what its next statement says.
Progress(u) ==
    /\ step[u] \in {"idle", "lockOrder", "payment", "done"} => writes[u] = {}
    /\ step[u] = "order" => writes[u] = {"payment"}
    /\ step[u] = "lockSeat" => writes[u] = {"payment", "order"} /\ releases(u)
    /\ step[u] = "commit" =>
          writes[u] = {"payment", "order"} \cup (IF releases(u) THEN {"seat"} ELSE {})

\* What a call met when it locked its order is still so.
Checked(u) ==
    /\ step[u] \in {"idle", "lockOrder"} => met[u] = NULL
    /\ HoldsOrder(u, call[u].orderId) =>
          /\ order[call[u].orderId] # NULL
          /\ met[u] = order[call[u].orderId].status

\* An order is locked by one call at a time.
Exclusive == \A u, v \in Updates, o \in Orders :
                HoldsOrder(u, o) /\ HoldsOrder(v, o) => u = v

IInv == /\ TypeOK
        /\ \A u \in Updates : Progress(u) /\ Checked(u)
        /\ Exclusive
        /\ PaymentAgrees
        /\ SeatsSafeIfPending

USE PaymentStatusUpdateAssumption

------------------------------------------------------------------------------
(***************************************************************************)
(* Initial states, and the steps that write no table.                      *)
(***************************************************************************)
LEMMA InitInv == Init => IInv
  <1> SUFFICES ASSUME Init PROVE IInv
    OBVIOUS
  <1>1. TypeOK
    BY DEF Init, TypeOK, SeatStatus, Steps
  <1>2. \A u \in Updates : Progress(u) /\ Checked(u)
    BY DEF Init, Progress, Checked, HoldsOrder
  <1>3. Exclusive
    BY DEF Init, Exclusive, HoldsOrder
  <1>4. \A o \in Orders : statusOf(o) = "ABSENT"
    BY DEF Init, statusOf
  <1>5. PaymentAgrees /\ SeatsSafeIfPending
    BY <1>4 DEF Init, PaymentAgrees, SeatsSafeIfPending, SeatSafe, LiveOf, Live
  <1> QED
    BY <1>1, <1>2, <1>3, <1>5 DEF IInv

\* A step that changes no table keeps what is said of them, if it met no other
\* order than a PENDING one.
LEMMA TablesKept ==
    ASSUME IInv, UNCHANGED tables,
           \A u \in Updates : met'[u] = met[u] \/ met[u] = NULL
    PROVE  PaymentAgrees' /\ SeatsSafeIfPending'
  <1>1. \A o \in Orders : statusOf(o)' = statusOf(o) /\ (Live(o)' <=> Live(o))
    BY DEF tables, statusOf, Live
  <1>2. PaymentAgrees'
    BY <1>1 DEF IInv, PaymentAgrees, tables
  <1>3. (\A u \in Updates : met'[u] \in {NULL, "PENDING"})
           => \A u \in Updates : met[u] \in {NULL, "PENDING"}
    OBVIOUS
  <1>4. \A s \in Seats : LiveOf(s)' = LiveOf(s)
    BY <1>1 DEF LiveOf, tables
  <1>5. SeatsSafeIfPending'
    BY <1>3, <1>4 DEF IInv, SeatsSafeIfPending, SeatSafe, tables
  <1> QED
    BY <1>2, <1>5

LEMMA RollBackInv ==
    ASSUME IInv, NEW u \in Updates, RollBack(u)
    PROVE  IInv'
  <1>1. TypeOK'
    BY DEF IInv, TypeOK, RollBack, Goto, tables, Steps
  <1>2. \A v \in Updates : (Progress(v) /\ Checked(v))'
    BY DEF IInv, TypeOK, Progress, Checked, HoldsOrder, releases, RollBack, Goto, tables
  <1>3. Exclusive'
    BY DEF IInv, TypeOK, Exclusive, HoldsOrder, RollBack, Goto
  <1>4. PaymentAgrees' /\ SeatsSafeIfPending'
    BY TablesKept DEF RollBack
  <1> QED
    BY <1>1, <1>2, <1>3, <1>4 DEF IInv

LEMMA BeginInv ==
    ASSUME IInv, NEW u \in Updates, Begin(u)
    PROVE  IInv'
  <1>1. TypeOK'
    BY DEF IInv, TypeOK, Begin, Goto, tables, Steps
  <1>2. \A v \in Updates : (Progress(v) /\ Checked(v))'
    BY DEF IInv, TypeOK, Progress, Checked, HoldsOrder, releases, Begin, Goto, tables
  <1>3. Exclusive'
    BY DEF IInv, TypeOK, Exclusive, HoldsOrder, Begin, Goto
  <1>4. PaymentAgrees' /\ SeatsSafeIfPending'
    BY TablesKept DEF Begin
  <1> QED
    BY <1>1, <1>2, <1>3, <1>4 DEF IInv

\* The call now holds its order, alone because the order was free.
LEMMA LockOrderInv ==
    ASSUME IInv, NEW u \in Updates, LockOrder(u)
    PROVE  IInv'
  <1>1. TypeOK'
    <2>1. order[call[u].orderId] \in Order
      BY DEF IInv, TypeOK, LockOrder
    <2> QED
      BY <2>1 DEF IInv, TypeOK, LockOrder, Goto, tables, Steps, Order
  <1>2. \A v \in Updates : (Progress(v) /\ Checked(v))'
    BY DEF IInv, TypeOK, Progress, Checked, HoldsOrder, releases, LockOrder, Goto, tables
  <1>3. Exclusive'
    BY DEF IInv, TypeOK, Exclusive, HoldsOrder, OrderFree, LockOrder, Goto
  <1>4. met[u] = NULL
    BY DEF IInv, Checked, LockOrder
  <1>5. \A v \in Updates : met'[v] = met[v] \/ met[v] = NULL
    BY <1>4 DEF IInv, TypeOK, LockOrder
  <1>6. PaymentAgrees' /\ SeatsSafeIfPending'
    BY <1>5, TablesKept DEF LockOrder
  <1> QED
    BY <1>1, <1>2, <1>3, <1>6 DEF IInv

\* The three writes of a call.
LEMMA WriteInv ==
    ASSUME IInv, NEW u \in Updates, UpdatePayment(u) \/ UpdateOrder(u) \/ ReleaseSeat(u)
    PROVE  IInv'
  <1>1. TypeOK'
    <2>1. PICK l \in Steps : Goto(u, l)
      BY DEF UpdatePayment, UpdateOrder, ReleaseSeat, Steps
    <2>2. PICK row \in {"payment", "order", "seat"} : Write(u, row)
      BY DEF UpdatePayment, UpdateOrder, ReleaseSeat
    <2>3. step' \in [Updates -> Steps]
      BY <2>1 DEF IInv, TypeOK, Goto
    <2>4. writes' \in [Updates -> SUBSET {"payment", "order", "seat"}]
      BY <2>2 DEF IInv, TypeOK, Write
    <2>5. UNCHANGED <<tables, call, met>>
      BY DEF UpdatePayment, UpdateOrder, ReleaseSeat
    <2> QED
      BY <2>3, <2>4, <2>5 DEF IInv, TypeOK, tables
  <1>2. \A v \in Updates : (Progress(v) /\ Checked(v))'
    <2> SUFFICES ASSUME NEW v \in Updates PROVE (Progress(v) /\ Checked(v))'
      OBVIOUS
    <2>1. Progress(v) /\ Checked(v)
      BY DEF IInv
    <2>2. CASE v # u
      BY <2>1, <2>2 DEF IInv, TypeOK, Progress, Checked, HoldsOrder, releases,
         UpdatePayment, UpdateOrder, ReleaseSeat, Goto, Write, tables
    <2>3. CASE v = u
      BY <2>1, <2>3 DEF IInv, TypeOK, Progress, Checked, HoldsOrder, releases,
         UpdatePayment, UpdateOrder, ReleaseSeat, Goto, Write, tables
    <2> QED
      BY <2>2, <2>3
  <1>3. Exclusive'
    BY DEF IInv, TypeOK, Exclusive, HoldsOrder, UpdatePayment, UpdateOrder, ReleaseSeat, Goto
  <1>4. PaymentAgrees' /\ SeatsSafeIfPending'
    BY TablesKept DEF UpdatePayment, UpdateOrder, ReleaseSeat
  <1> QED
    BY <1>1, <1>2, <1>3, <1>4 DEF IInv

------------------------------------------------------------------------------
(***************************************************************************)
(* The steps that write tables.                                            *)
(***************************************************************************)
\* No call holds an order that does not exist, and the new one is the only live
\* order of its seat.
LEMMA CreateOrderInv ==
    ASSUME IInv, NEW o \in Orders, NEW s \in Seats, CreateOrder(o, s)
    PROVE  IInv'
  <1>. DEFINE row == [status |-> "PENDING", seatId |-> s]
  <1>1. row \in Order /\ row # NULL
    BY DEF Order, OrderStatus
  <1>2. order' = [order EXCEPT ![o] = row] /\ payment' = [payment EXCEPT ![o] = "PENDING"]
    BY DEF CreateOrder, InsertOrder, InsertPayment
  <1>3. TypeOK'
    BY <1>1, <1>2 DEF IInv, TypeOK, CreateOrder, SeatStatus, PaymentStatus
  <1>4. \A u \in Updates : (Progress(u) /\ Checked(u))'
    BY <1>2 DEF IInv, TypeOK, Progress, Checked, HoldsOrder, releases, CreateOrder
  <1>5. Exclusive'
    BY DEF IInv, Exclusive, HoldsOrder, CreateOrder
  <1>6. /\ statusOf(o) = "ABSENT" /\ statusOf(o)' = "PENDING"
        /\ \A p \in Orders \ {o} : statusOf(p)' = statusOf(p) /\ order'[p] = order[p]
    BY <1>1, <1>2 DEF IInv, TypeOK, statusOf, CreateOrder
  <1>7. PaymentAgrees'
    <2> SUFFICES ASSUME NEW p \in Orders
                 PROVE  payment'[p] = CASE statusOf(p)' = "ABSENT"    -> NULL
                                        [] statusOf(p)' = "CONFIRMED" -> "SUCCESS"
                                        [] OTHER                      -> statusOf(p)'
      BY DEF PaymentAgrees
    <2>1. CASE p = o
      BY <1>2, <1>6, <2>1 DEF IInv, TypeOK
    <2>2. CASE p # o
      BY <1>2, <1>6, <2>2 DEF IInv, TypeOK, PaymentAgrees
    <2> QED
      BY <2>1, <2>2
  <1>8. SeatsSafeIfPending'
    <2> SUFFICES ASSUME \A u \in Updates : met[u] \in {NULL, "PENDING"}, NEW t \in Seats
                 PROVE  SeatSafe(t)'
      BY DEF SeatsSafeIfPending, CreateOrder
    <2>1. SeatSafe(t)
      BY DEF IInv, SeatsSafeIfPending
    <2>2. \A p \in Orders \ {o} : p \in LiveOf(t)' <=> p \in LiveOf(t)
      BY <1>6 DEF Live, LiveOf
    <2>3. o \in LiveOf(t)' <=> t = s
      BY <1>2, <1>6 DEF Live, LiveOf, IInv, TypeOK
    <2>4. o \notin LiveOf(t) /\ LiveOf(t) \subseteq Orders /\ LiveOf(t)' \subseteq Orders
      BY <1>6 DEF Live, LiveOf
    <2>5. CASE t = s
      <3>1. LiveOf(t) = {} /\ LiveOf(t)' = {o}
        BY <2>1, <2>2, <2>3, <2>4, <2>5 DEF CreateOrder, SeatSafe
      <3>2. seat'[t] = "RESERVED"
        BY <2>5 DEF IInv, TypeOK, CreateOrder
      <3> QED
        BY <3>1, <3>2 DEF SeatSafe
    <2>6. CASE t # s
      <3>1. LiveOf(t)' = LiveOf(t)
        BY <2>2, <2>3, <2>4, <2>6
      <3>2. seat'[t] = seat[t]
        BY <2>6 DEF IInv, TypeOK, CreateOrder
      <3> QED
        BY <2>1, <3>1, <3>2 DEF SeatSafe
    <2> QED
      BY <2>5, <2>6
  <1> QED
    BY <1>3, <1>4, <1>5, <1>7, <1>8 DEF IInv

\* Order o is given status x, by whomever.
Settles(o, x) ==
    /\ order[o] # NULL
    /\ order' = [order EXCEPT ![o] = [order[o] EXCEPT !.status = x]]

LEMMA SettlesStatus ==
    ASSUME TypeOK, NEW o \in Orders, NEW x \in {"CONFIRMED", "FAILED"}, Settles(o, x)
    PROVE  /\ order' \in [Orders -> Order \cup {NULL}]
           /\ order'[o].status = x /\ order'[o].seatId = order[o].seatId
           /\ order[o].seatId \in Seats
           /\ order'[o] # NULL
           /\ statusOf(o)' = x
           /\ \A p \in Orders \ {o} : order'[p] = order[p] /\ statusOf(p)' = statusOf(p)
  <1>. DEFINE row == [order[o] EXCEPT !.status = x]
  <1>1. order[o] \in Order
    BY DEF TypeOK, Settles
  <1>2. row \in Order /\ row.status = x /\ row.seatId = order[o].seatId
        /\ order[o].seatId \in Seats
    BY <1>1 DEF Order, OrderStatus
  <1>3. row # NULL
    BY <1>2
  <1>4. order'[o] = row /\ \A p \in Orders \ {o} : order'[p] = order[p]
    BY DEF TypeOK, Settles
  <1>5. order' \in [Orders -> Order \cup {NULL}]
    BY <1>2 DEF TypeOK, Settles
  <1> QED
    BY <1>2, <1>3, <1>4, <1>5 DEF statusOf

LEMMA SettlesPayment ==
    ASSUME IInv, NEW o \in Orders, NEW x \in {"CONFIRMED", "FAILED"}, Settles(o, x),
           payment' = [payment EXCEPT ![o] = paymentStatus(x)]
    PROVE  PaymentAgrees'
  <1> SUFFICES ASSUME NEW p \in Orders
               PROVE  payment'[p] = CASE statusOf(p)' = "ABSENT"    -> NULL
                                      [] statusOf(p)' = "CONFIRMED" -> "SUCCESS"
                                      [] OTHER                      -> statusOf(p)'
    BY DEF PaymentAgrees
  <1>1. statusOf(o)' = x /\ \A q \in Orders \ {o} : statusOf(q)' = statusOf(q)
    BY SettlesStatus DEF IInv
  <1>2. CASE p = o
    BY <1>1, <1>2 DEF IInv, TypeOK, paymentStatus
  <1>3. CASE p # o
    BY <1>1, <1>3 DEF IInv, TypeOK, PaymentAgrees
  <1> QED
    BY <1>2, <1>3

\* A PENDING order is the only live one of its seat, so it may give it back.
LEMMA SettlesSeat ==
    ASSUME IInv, NEW o \in Orders, NEW x \in {"CONFIRMED", "FAILED"}, Settles(o, x),
           order[o].status = "PENDING",
           \A s \in Seats : SeatSafe(s),
           \A s \in Seats : s # order[o].seatId => seat'[s] = seat[s],
           x = "FAILED" => seat'[order[o].seatId] = "AVAILABLE",
           x = "CONFIRMED" => seat'[order[o].seatId] \in {seat[order[o].seatId], "BOOKED"}
    PROVE  \A s \in Seats : SeatSafe(s)'
  <1> SUFFICES ASSUME NEW s \in Seats PROVE SeatSafe(s)'
    OBVIOUS
  <1>1. /\ statusOf(o)' = x /\ order'[o].seatId = order[o].seatId
        /\ \A p \in Orders \ {o} : order'[p] = order[p] /\ statusOf(p)' = statusOf(p)
    BY SettlesStatus DEF IInv
  <1>2. statusOf(o) = "PENDING"
    BY DEF Settles, statusOf
  <1>3. \A p \in Orders \ {o} : p \in LiveOf(s)' <=> p \in LiveOf(s)
    BY <1>1 DEF LiveOf, Live
  <1>4. LiveOf(s) \subseteq Orders /\ LiveOf(s)' \subseteq Orders
    BY DEF LiveOf
  <1>5. o \in LiveOf(s) <=> s = order[o].seatId
    BY <1>2 DEF LiveOf, Live
  <1>6. o \in LiveOf(s)' <=> s = order[o].seatId /\ x = "CONFIRMED"
    BY <1>1 DEF LiveOf, Live
  <1>7. CASE s # order[o].seatId
    <2>1. LiveOf(s)' = LiveOf(s)
      BY <1>3, <1>4, <1>5, <1>6, <1>7
    <2> QED
      BY <2>1, <1>7 DEF SeatSafe
  <1>8. CASE s = order[o].seatId
    <2>1. LiveOf(s) = {o} /\ seat[s] # "AVAILABLE"
      BY <1>4, <1>5, <1>8 DEF SeatSafe
    <2>2. LiveOf(s)' = IF x = "CONFIRMED" THEN {o} ELSE {}
      BY <2>1, <1>3, <1>4, <1>6, <1>8
    <2> QED
      BY <2>1, <2>2, <1>8 DEF SeatSafe
  <1> QED
    BY <1>7, <1>8

LEMMA WebhookSettles ==
    ASSUME NEW o, NEW status \in {"SUCCESS", "FAILED"}, ProcessWebhook(o, status)
    PROVE  \E x \in {"CONFIRMED", "FAILED"} :
              /\ Settles(o, x)
              /\ payment' = [payment EXCEPT ![o] = paymentStatus(x)]
              /\ seat' = [seat EXCEPT ![order[o].seatId] =
                             IF x = "CONFIRMED" THEN "BOOKED" ELSE "AVAILABLE"]
  <1>1. CASE status = "SUCCESS"
    BY <1>1 DEF ProcessWebhook, Settles, paymentStatus
  <1>2. CASE status = "FAILED"
    BY <1>2 DEF ProcessWebhook, Settles, paymentStatus
  <1> QED
    BY <1>1, <1>2

\* No call holds the order it settles.
LEMMA ProcessWebhookInv ==
    ASSUME IInv, NEW o \in Orders, NEW status \in {"SUCCESS", "FAILED"},
           ProcessWebhook(o, status)
    PROVE  IInv'
  <1>1. PICK x \in {"CONFIRMED", "FAILED"} :
           /\ Settles(o, x)
           /\ payment' = [payment EXCEPT ![o] = paymentStatus(x)]
           /\ seat' = [seat EXCEPT ![order[o].seatId] =
                          IF x = "CONFIRMED" THEN "BOOKED" ELSE "AVAILABLE"]
    BY WebhookSettles
  <1>2. /\ order' \in [Orders -> Order \cup {NULL}]
        /\ order[o].seatId \in Seats
        /\ \A p \in Orders \ {o} : order'[p] = order[p]
    BY <1>1, SettlesStatus DEF IInv
  <1>3. UNCHANGED <<call, step, writes, met>>
    BY DEF ProcessWebhook
  <1>4. TypeOK'
    <2>1. seat' \in [Seats -> SeatStatus]
      BY <1>1, <1>2 DEF IInv, TypeOK, SeatStatus
    <2>2. payment' \in [Orders -> PaymentStatus \cup {NULL}]
      BY <1>1 DEF IInv, TypeOK, PaymentStatus, paymentStatus
    <2> QED
      BY <1>2, <1>3, <2>1, <2>2 DEF IInv, TypeOK
  <1>5. \A u \in Updates : (Progress(u) /\ Checked(u))'
    <2> SUFFICES ASSUME NEW u \in Updates PROVE (Progress(u) /\ Checked(u))'
      OBVIOUS
    <2>1. Progress(u)'
      BY <1>3 DEF IInv, Progress, releases
    <2>2. ~HoldsOrder(u, o)
      BY DEF ProcessWebhook, OrderFree
    <2>3. Checked(u)'
      BY <1>2, <1>3, <2>2 DEF IInv, TypeOK, Checked, HoldsOrder
    <2> QED
      BY <2>1, <2>3
  <1>6. Exclusive'
    BY <1>3 DEF IInv, Exclusive, HoldsOrder
  <1>7. PaymentAgrees'
    BY <1>1, SettlesPayment
  <1>8. SeatsSafeIfPending'
    <2>1. order[o].status = "PENDING"
      BY DEF ProcessWebhook
    <2>2. /\ \A s \in Seats : s # order[o].seatId => seat'[s] = seat[s]
          /\ x = "FAILED" => seat'[order[o].seatId] = "AVAILABLE"
          /\ x = "CONFIRMED" => seat'[order[o].seatId] \in {seat[order[o].seatId], "BOOKED"}
      BY <1>1, <1>2 DEF IInv, TypeOK
    <2>3. (\A s \in Seats : SeatSafe(s)) => \A s \in Seats : SeatSafe(s)'
      BY <1>1, <2>1, <2>2, SettlesSeat
    <2> QED
      BY <1>3, <2>3 DEF IInv, SeatsSafeIfPending
  <1> QED
    BY <1>4, <1>5, <1>6, <1>7, <1>8 DEF IInv

\* What a call that commits has written: its order and its payment, and the seat
\* if the payment failed.
LEMMA CommitSettles ==
    ASSUME IInv, NEW u \in Updates, Commit(u)
    PROVE  LET o == call[u].orderId
               x == call[u].status IN
           /\ o \in Orders /\ x \in {"CONFIRMED", "FAILED"}
           /\ Settles(o, x)
           /\ payment' = [payment EXCEPT ![o] = paymentStatus(x)]
           /\ seat' = IF x = "FAILED" THEN [seat EXCEPT ![order[o].seatId] = "AVAILABLE"]
                                      ELSE seat
  <1>. DEFINE o == call[u].orderId
              x == call[u].status
  <1>1. o \in Orders /\ x \in {"CONFIRMED", "FAILED"}
    BY DEF IInv, TypeOK
  <1>2. step[u] = "commit"
    BY DEF Commit
  <1>3. order[o] # NULL
    BY <1>2 DEF IInv, Checked, HoldsOrder
  <1>4. writes[u] = {"payment", "order"} \cup (IF releases(u) THEN {"seat"} ELSE {})
    BY <1>2 DEF IInv, Progress
  <1>5. /\ payment' = IF "payment" \in writes[u]
                      THEN [payment EXCEPT ![o] = paymentStatus(x)] ELSE payment
        /\ order' = IF "order" \in writes[u]
                    THEN [order EXCEPT ![o] = [order[o] EXCEPT !.status = x]] ELSE order
        /\ seat' = IF "seat" \in writes[u]
                   THEN [seat EXCEPT ![order[o].seatId] = "AVAILABLE"] ELSE seat
    BY DEF Commit
  <1>6. "payment" \in writes[u] /\ "order" \in writes[u] /\ ("seat" \in writes[u] <=> x = "FAILED")
    BY <1>4 DEF releases
  <1> QED
    BY <1>1, <1>3, <1>5, <1>6 DEF Settles

\* The committing call is the only one that holds the order, and while only
\* PENDING orders were met the order it settles is PENDING.
LEMMA CommitInv ==
    ASSUME IInv, NEW u \in Updates, Commit(u)
    PROVE  IInv'
  <1>. DEFINE o == call[u].orderId
              x == call[u].status
  <1>1. /\ o \in Orders /\ x \in {"CONFIRMED", "FAILED"}
        /\ Settles(o, x)
        /\ payment' = [payment EXCEPT ![o] = paymentStatus(x)]
        /\ seat' = IF x = "FAILED" THEN [seat EXCEPT ![order[o].seatId] = "AVAILABLE"]
                                   ELSE seat
    BY CommitSettles
  <1>2. /\ order' \in [Orders -> Order \cup {NULL}]
        /\ order[o].seatId \in Seats
        /\ \A p \in Orders \ {o} : order'[p] = order[p]
    BY <1>1, SettlesStatus DEF IInv
  <1>3. /\ step[u] = "commit"
        /\ step' = [step EXCEPT ![u] = "done"] /\ writes' = [writes EXCEPT ![u] = {}]
        /\ UNCHANGED <<call, met>>
    BY DEF Commit, Goto
  <1>4. TypeOK'
    <2>1. seat' \in [Seats -> SeatStatus]
      BY <1>1, <1>2 DEF IInv, TypeOK, SeatStatus
    <2>2. payment' \in [Orders -> PaymentStatus \cup {NULL}]
      BY <1>1 DEF IInv, TypeOK, PaymentStatus, paymentStatus
    <2>3. step' \in [Updates -> Steps] /\ writes' \in [Updates -> SUBSET {"payment", "order", "seat"}]
      BY <1>3 DEF IInv, TypeOK, Steps
    <2> QED
      BY <1>2, <1>3, <2>1, <2>2, <2>3 DEF IInv, TypeOK
  <1>5. \A v \in Updates : (Progress(v) /\ Checked(v))'
    <2> SUFFICES ASSUME NEW v \in Updates PROVE (Progress(v) /\ Checked(v))'
      OBVIOUS
    <2>1. Progress(v) /\ Checked(v)
      BY DEF IInv
    <2>2. CASE v = u
      BY <1>3, <2>2 DEF IInv, TypeOK, Progress, Checked, HoldsOrder
    <2>3. CASE v # u
      <3>1. /\ step'[v] = step[v] /\ writes'[v] = writes[v]
            /\ call'[v] = call[v] /\ met'[v] = met[v]
        BY <1>3, <2>3 DEF IInv, TypeOK
      <3>2. HoldsOrder(u, o)
        BY <1>3 DEF HoldsOrder
      <3>3. HoldsOrder(v, call[v].orderId) => call[v].orderId \in Orders \ {o}
        BY <1>1, <2>3, <3>2 DEF IInv, TypeOK, Exclusive
      <3>4. HoldsOrder(v, call[v].orderId) => order'[call[v].orderId] = order[call[v].orderId]
        BY <1>2, <3>3
      <3>5. Progress(v)'
        BY <2>1, <3>1 DEF Progress, releases
      <3>6. Checked(v)'
        BY <2>1, <3>1, <3>4 DEF Checked, HoldsOrder
      <3> QED
        BY <3>5, <3>6
    <2> QED
      BY <2>2, <2>3
  <1>6. Exclusive'
    BY <1>3 DEF IInv, TypeOK, Exclusive, HoldsOrder
  <1>7. PaymentAgrees'
    BY <1>1, SettlesPayment
  <1>8. SeatsSafeIfPending'
    <2> SUFFICES ASSUME \A v \in Updates : met[v] \in {NULL, "PENDING"}
                 PROVE  \A s \in Seats : SeatSafe(s)'
      BY <1>3 DEF SeatsSafeIfPending
    <2>1. order[o].status = "PENDING"
      <3>1. order[o] \in Order /\ met[u] = order[o].status
        BY <1>1, <1>3 DEF IInv, TypeOK, Checked, HoldsOrder
      <3>2. order[o].status # NULL
        BY <3>1 DEF Order
      <3> QED
        BY <3>1, <3>2
    <2>2. /\ \A s \in Seats : s # order[o].seatId => seat'[s] = seat[s]
          /\ x = "FAILED" => seat'[order[o].seatId] = "AVAILABLE"
          /\ x = "CONFIRMED" => seat'[order[o].seatId] \in {seat[order[o].seatId], "BOOKED"}
      BY <1>1, <1>2 DEF IInv, TypeOK
    <2>3. \A s \in Seats : SeatSafe(s)
      BY DEF IInv, SeatsSafeIfPending
    <2> QED
      BY <1>1, <2>1, <2>2, <2>3, SettlesSeat
  <1> QED
    BY <1>4, <1>5, <1>6, <1>7, <1>8 DEF IInv

LEMMA StutterInv == IInv /\ UNCHANGED vars => IInv'
  <1> SUFFICES ASSUME IInv, UNCHANGED vars PROVE IInv'
    OBVIOUS
  <1>1. TypeOK'
    BY DEF IInv, TypeOK, vars, tables
  <1>2. \A v \in Updates : (Progress(v) /\ Checked(v))'
    BY DEF IInv, Progress, Checked, HoldsOrder, releases, vars, tables
  <1>3. Exclusive'
    BY DEF IInv, Exclusive, HoldsOrder, vars
  <1>4. PaymentAgrees' /\ SeatsSafeIfPending'
    BY TablesKept DEF vars
  <1> QED
    BY <1>1, <1>2, <1>3, <1>4 DEF IInv

LEMMA NextInv == IInv /\ [Next]_vars => IInv'
  <1> SUFFICES ASSUME IInv, [Next]_vars PROVE IInv'
    OBVIOUS
  <1>1. CASE \E o \in Orders, s \in Seats : CreateOrder(o, s)
    BY <1>1, CreateOrderInv
  <1>2. CASE \E o \in Orders, status \in {"SUCCESS", "FAILED"} : ProcessWebhook(o, status)
    BY <1>2, ProcessWebhookInv
  <1>3. CASE \E u \in Updates : Begin(u)
    BY <1>3, BeginInv
  <1>4. CASE \E u \in Updates : OrderNotFound(u) \/ Fails(u)
    BY <1>4, RollBackInv DEF OrderNotFound, Fails
  <1>5. CASE \E u \in Updates : LockOrder(u)
    BY <1>5, LockOrderInv
  <1>6. CASE \E u \in Updates : UpdatePayment(u) \/ UpdateOrder(u) \/ ReleaseSeat(u)
    BY <1>6, WriteInv
  <1>7. CASE \E u \in Updates : Commit(u)
    BY <1>7, CommitInv
  <1>8. CASE Quiescent \/ UNCHANGED vars
    BY <1>8, StutterInv DEF Quiescent
  <1> QED
    BY <1>1, <1>2, <1>3, <1>4, <1>5, <1>6, <1>7, <1>8 DEF Next

------------------------------------------------------------------------------
(***************************************************************************)
(* Theorems.                                                               *)
(***************************************************************************)
\* The inductive invariant holds for any number of calls, orders and seats.
THEOREM Invariance == Spec => []IInv
  BY InitInv, NextInv, PTL DEF Spec

\* Every variable keeps its type.
THEOREM TypeCorrect == Spec => []TypeOK
  <1>1. IInv => TypeOK
    BY DEF IInv
  <1> QED
    BY <1>1, Invariance, PTL

\* Order and payment always agree.  (updatePaymentStatus, processWebhook)
THEOREM PaymentsAgree == Spec => []PaymentAgrees
  <1>1. IInv => PaymentAgrees
    BY DEF IInv
  <1> QED
    BY <1>1, Invariance, PTL

\* The seats are safe if callers settle PENDING orders only.
\* (updatePaymentStatus beside createOrder and processWebhook)
THEOREM SeatsSafe == Spec => []SeatsSafeIfPending
  <1>1. IInv => SeatsSafeIfPending
    BY DEF IInv
  <1> QED
    BY <1>1, Invariance, PTL

\* A step changes the row of one order, and only if it is the order's webhook, the
\* booking that makes it, or the commit of a call that still holds it.
LEMMA RowChanges ==
    ASSUME IInv, [Next]_vars, NEW o \in Orders,
           order[o] # NULL, order[o].status # "PENDING", order'[o] # order[o]
    PROVE  \E u \in Updates : CommitsOver(u, o)
  <1>1. ASSUME NEW p \in Orders, NEW s \in Seats, CreateOrder(p, s) PROVE FALSE
    <2>1. p # o
      BY <1>1 DEF CreateOrder
    <2>2. order'[o] = order[o]
      BY <1>1, <2>1 DEF CreateOrder, InsertOrder, IInv, TypeOK
    <2> QED
      BY <2>2
  <1>2. ASSUME NEW p \in Orders, NEW status \in {"SUCCESS", "FAILED"}, ProcessWebhook(p, status)
        PROVE  FALSE
    <2>1. p # o
      BY <1>2 DEF ProcessWebhook
    <2>2. order'[o] = order[o]
      BY <1>2, <2>1, WebhookSettles, SettlesStatus DEF IInv
    <2> QED
      BY <2>2
  <1>3. ASSUME NEW u \in Updates, Commit(u)
        PROVE  CommitsOver(u, o)
    <2>1. call[u].orderId = o
      BY <1>3, CommitSettles, SettlesStatus DEF IInv
    <2>2. step[u] = "commit" /\ met[u] = order[o].status
      BY <1>3, <2>1 DEF IInv, Checked, HoldsOrder, Commit
    <2>3. step'[u] = "done"
      BY <1>3 DEF Commit, Goto, IInv, TypeOK
    <2>4. order'[o].status = call[u].status
      <3>1. "order" \in writes[u]
        BY <2>2 DEF IInv, Progress
      <3>2. order' = [order EXCEPT ![o] = [order[o] EXCEPT !.status = call[u].status]]
        BY <1>3, <2>1, <3>1 DEF Commit
      <3>3. order \in [Orders -> Order \cup {NULL}]
        BY DEF IInv, TypeOK
      <3>4. order[o] \in Order
        BY <3>3
      <3>5. order'[o] = [order[o] EXCEPT !.status = call[u].status]
        BY <3>2, <3>3
      <3> QED
        BY <3>4, <3>5 DEF Order
    <2> QED
      BY <2>1, <2>2, <2>3, <2>4 DEF CommitsOver
  <1>4. \/ \E p \in Orders, s \in Seats : CreateOrder(p, s)
        \/ \E p \in Orders, status \in {"SUCCESS", "FAILED"} : ProcessWebhook(p, status)
        \/ \E u \in Updates : Commit(u)
    <2>1. UNCHANGED order => FALSE
      OBVIOUS
    <2>2. Quiescent \/ UNCHANGED vars => UNCHANGED order
      BY DEF Quiescent, vars, tables
    <2>3. ASSUME NEW u \in Updates,
                 \/ Begin(u) \/ OrderNotFound(u) \/ LockOrder(u) \/ UpdatePayment(u)
                 \/ UpdateOrder(u) \/ ReleaseSeat(u) \/ Fails(u)
          PROVE  UNCHANGED order
      BY <2>3 DEF Begin, OrderNotFound, LockOrder, UpdatePayment, UpdateOrder, ReleaseSeat,
                  Fails, RollBack, tables
    <2> QED
      BY <2>1, <2>2, <2>3 DEF Next
  <1> QED
    BY <1>1, <1>2, <1>3, <1>4

\* A settled order changes only in the commit of a call that met it as it is:
\* nobody settles an order between a call's look at it and its commit.
\* (updatePaymentStatus, processWebhook)
THEOREM OverwritesKnowingly == Spec => OverwritesWhatItMet
  <1>1. IInv /\ [Next]_vars
           => [\A o \in Orders :
                 order[o] # NULL /\ order[o].status # "PENDING" /\ order'[o] # order[o] =>
                    \E u \in Updates : CommitsOver(u, o)]_vars
    BY RowChanges
  <1> QED
    BY <1>1, Invariance, PTL DEF Spec, OverwritesWhatItMet

------------------------------------------------------------------------------
(***************************************************************************)
(* PaymentStatusUpdate implements SeatBooking while calls meet PENDING     *)
(* orders only.                                                            *)
(***************************************************************************)
holders == [s \in Seats |-> LiveOf(s)]
fates == [o \in Orders |-> fateOf(statusOf(o))]

\* A step that changes no order changes no booking.
LEMMA BookingsKept ==
    ASSUME UNCHANGED order
    PROVE  UNCHANGED Booking!vars
  BY DEF Booking!vars, LiveOf, Live, statusOf

\* The new order is the only one of its seat, which had none.
LEMMA CreateOrderBooks ==
    ASSUME IInv, \A s \in Seats : SeatSafe(s),
           NEW o \in Orders, NEW s \in Seats, CreateOrder(o, s)
    PROVE  Booking!Reserve(o, s)
  <1>. DEFINE row == [status |-> "PENDING", seatId |-> s]
  <1>1. row \in Order /\ row # NULL
    BY DEF Order, OrderStatus
  <1>2. order' = [order EXCEPT ![o] = row] /\ order[o] = NULL
    BY DEF CreateOrder, InsertOrder
  <1>3. /\ statusOf(o) = "ABSENT" /\ statusOf(o)' = "PENDING" /\ order'[o].seatId = s
        /\ \A p \in Orders \ {o} : statusOf(p)' = statusOf(p) /\ order'[p] = order[p]
    BY <1>1, <1>2 DEF IInv, TypeOK, statusOf
  <1>4. LiveOf(s) = {}
    BY DEF CreateOrder, SeatSafe
  <1>5. \A t \in Seats : LiveOf(t)' = IF t = s THEN {o} ELSE LiveOf(t)
    <2> SUFFICES ASSUME NEW t \in Seats
                 PROVE  LiveOf(t)' = IF t = s THEN {o} ELSE LiveOf(t)
      OBVIOUS
    <2>1. \A p \in Orders \ {o} : p \in LiveOf(t)' <=> p \in LiveOf(t)
      BY <1>3 DEF Live, LiveOf
    <2>2. o \in LiveOf(t)' <=> t = s
      BY <1>3 DEF Live, LiveOf
    <2>3. o \notin LiveOf(t) /\ LiveOf(t) \subseteq Orders /\ LiveOf(t)' \subseteq Orders
      BY <1>3 DEF Live, LiveOf
    <2> QED
      BY <1>4, <2>1, <2>2, <2>3
  <1>6. holders' = [holders EXCEPT ![s] = {o}]
    BY <1>5 DEF holders
  <1>7. fates' = [fates EXCEPT ![o] = "pending"]
    BY <1>3 DEF fates, fateOf
  <1>8. fates[o] = "none" /\ holders[s] = {}
    BY <1>3, <1>4 DEF fates, holders, fateOf
  <1> QED
    BY <1>6, <1>7, <1>8 DEF Booking!Reserve, holders, fates

\* An order that was PENDING is settled as the abstract booking has it.
LEMMA SettlesBooking ==
    ASSUME IInv, NEW o \in Orders, NEW x \in {"CONFIRMED", "FAILED"}, Settles(o, x),
           order[o].status = "PENDING"
    PROVE  Booking!Confirm(o) \/ Booking!Release(o)
  <1>1. /\ statusOf(o)' = x /\ order'[o].seatId = order[o].seatId
        /\ \A p \in Orders \ {o} : order'[p] = order[p] /\ statusOf(p)' = statusOf(p)
    BY SettlesStatus DEF IInv
  <1>2. statusOf(o) = "PENDING"
    BY DEF Settles, statusOf
  <1>3. fates[o] = "pending" /\ fates' = [fates EXCEPT ![o] = fateOf(x)]
    BY <1>1, <1>2 DEF fates, fateOf
  <1>4. \A s \in Seats : LiveOf(s)' = IF x = "FAILED" THEN LiveOf(s) \ {o} ELSE LiveOf(s)
    <2> SUFFICES ASSUME NEW s \in Seats
                 PROVE  LiveOf(s)' = IF x = "FAILED" THEN LiveOf(s) \ {o} ELSE LiveOf(s)
      OBVIOUS
    <2>1. \A p \in Orders \ {o} : p \in LiveOf(s)' <=> p \in LiveOf(s)
      BY <1>1 DEF LiveOf, Live
    <2>2. LiveOf(s) \subseteq Orders /\ LiveOf(s)' \subseteq Orders
      BY DEF LiveOf
    <2>3. o \in LiveOf(s) <=> s = order[o].seatId
      BY <1>2 DEF LiveOf, Live
    <2>4. o \in LiveOf(s)' <=> s = order[o].seatId /\ x = "CONFIRMED"
      BY <1>1 DEF LiveOf, Live
    <2> QED
      BY <2>1, <2>2, <2>3, <2>4
  <1>5. CASE x = "CONFIRMED"
    <2>1. holders' = holders
      BY <1>4, <1>5 DEF holders
    <2> QED
      BY <1>3, <1>5, <2>1 DEF Booking!Confirm, holders, fates, fateOf
  <1>6. CASE x = "FAILED"
    <2>1. holders' = [s \in Seats |-> holders[s] \ {o}]
      BY <1>4, <1>6 DEF holders
    <2> QED
      BY <1>3, <1>6, <2>1 DEF Booking!Release, holders, fates, fateOf
  <1> QED
    BY <1>5, <1>6

\* A call that met its order PENDING commits to a PENDING order, which it has
\* held ever since.
LEMMA NextBooks ==
    ASSUME IInv, [Next]_vars, \A u \in Updates : met'[u] \in {NULL, "PENDING"}
    PROVE  [Booking!Next]_(Booking!vars)
  <1>1. ASSUME NEW o \in Orders, NEW s \in Seats, CreateOrder(o, s)
        PROVE  Booking!Next
    <2>1. \A t \in Seats : SeatSafe(t)
      BY <1>1 DEF CreateOrder, IInv, SeatsSafeIfPending
    <2> QED
      BY <1>1, <2>1, CreateOrderBooks DEF Booking!Next
  <1>2. ASSUME NEW o \in Orders, NEW status \in {"SUCCESS", "FAILED"}, ProcessWebhook(o, status)
        PROVE  Booking!Next
    <2>1. PICK x \in {"CONFIRMED", "FAILED"} : Settles(o, x)
      BY <1>2, WebhookSettles
    <2>2. order[o].status = "PENDING"
      BY <1>2 DEF ProcessWebhook
    <2> QED
      BY <2>1, <2>2, SettlesBooking DEF Booking!Next
  <1>3. ASSUME NEW u \in Updates, Commit(u)
        PROVE  Booking!Next
    <2>. DEFINE o == call[u].orderId
    <2>1. PICK x \in {"CONFIRMED", "FAILED"} : o \in Orders /\ Settles(o, x)
      BY <1>3, CommitSettles
    <2>2. met[u] = order[o].status /\ met[u] \in {NULL, "PENDING"}
      BY <1>3 DEF Commit, IInv, Checked, HoldsOrder
    <2>3. order[o] \in Order
      BY <2>1 DEF Settles, IInv, TypeOK
    <2>4. order[o].status = "PENDING"
      BY <2>2, <2>3 DEF Order
    <2> QED
      BY <2>1, <2>4, SettlesBooking DEF Booking!Next
  <1>4. ASSUME NEW u \in Updates,
               \/ Begin(u) \/ OrderNotFound(u) \/ LockOrder(u) \/ UpdatePayment(u)
               \/ UpdateOrder(u) \/ ReleaseSeat(u) \/ Fails(u)
        PROVE  UNCHANGED Booking!vars
    <2>1. UNCHANGED order
      BY <1>4 DEF Begin, OrderNotFound, LockOrder, UpdatePayment, UpdateOrder, ReleaseSeat,
                  Fails, RollBack, tables
    <2> QED
      BY <2>1, BookingsKept
  <1>5. CASE Quiescent \/ UNCHANGED vars
    BY <1>5, BookingsKept DEF Quiescent, vars, tables
  <1> QED
    BY <1>1, <1>2, <1>3, <1>4, <1>5 DEF Next

\* Beside bookings and webhooks, calls that meet PENDING orders keep the promise
\* of SeatBooking.  (updatePaymentStatus)
THEOREM BookingsKeptByCallers == Spec => BookingsKeptIfPending
  <1>1. IInv /\ [Next]_vars
           => [(\A u \in Updates : met'[u] \in {NULL, "PENDING"})
                  => [Booking!Next]_(Booking!vars)]_vars
    BY NextBooks
  <1> QED
    BY <1>1, Invariance, PTL DEF Spec, BookingsKeptIfPending
================================================================================
