----------------------- MODULE OrderTransactionsProofs -----------------------
(***************************************************************************)
(* Theorems about OrderTransactions, for any number of seats, orders,      *)
(* webhooks and deliveries and whatever faults happen.                     *)
(***************************************************************************)
EXTENDS OrderTransactions, TLAPS

USE OrderTransactionsAssumption DEF Requests, Rows, FaultKinds

------------------------------------------------------------------------------
(***************************************************************************)
(* Types.                                                                  *)
(***************************************************************************)
\* The status a webhook maps to is an order status, and a settled one for the
\* payloads that settle.  (mapPaymentStatusToOrderStatus and its seat twin)
LEMMA MapsTyped ==
    ASSUME NEW status \in PaymentStatus
    PROVE  /\ mapPaymentStatusToOrderStatus(status) \in OrderStatus
           /\ mapPaymentStatusToSeatStatus(status) \in SeatStatus
           /\ mapPaymentStatusToOrderStatus(status) \in {"CONFIRMED", "FAILED"}
                 => status \in {"SUCCESS", "FAILED"}
           /\ status = "SUCCESS" =>
                 /\ mapPaymentStatusToOrderStatus(status) = "CONFIRMED"
                 /\ mapPaymentStatusToSeatStatus(status) = "BOOKED"
           /\ status = "FAILED" =>
                 /\ mapPaymentStatusToOrderStatus(status) = "FAILED"
                 /\ mapPaymentStatusToSeatStatus(status) = "AVAILABLE"
  BY DEF PaymentStatus, OrderStatus, SeatStatus,
         mapPaymentStatusToOrderStatus, mapPaymentStatusToSeatStatus

\* The steps that end a request or move it on without writing a table.
LEMMA AnswerTyped ==
    ASSUME TypeOK, NEW r \in Requests, NEW a \in Answers, Answer(r, a)
    PROVE  TypeOK'
  BY DEF TypeOK, Answer, Goto, tables, input, Running

LEMMA GotoTyped ==
    ASSUME TypeOK, NEW r \in Requests, NEW l \in Running, Goto(r, l),
           UNCHANGED <<tables, auditLog, input, seen, stale, reply>>
    PROVE  TypeOK'
  BY DEF TypeOK, Goto, tables, input, Running

\* createOrder's writes: the seat keeps its reservedBy and becomes RESERVED.
LEMMA CreateCommitWrites ==
    ASSUME TypeOK, NEW o \in Orders, NEW a, CreateCommit(o, a),
           asked[o].seatId \in Seats
    PROVE  /\ seat[asked[o].seatId] \in Seat
           /\ seat' = [seat EXCEPT ![asked[o].seatId] =
                         [status |-> "RESERVED", reservedBy |-> @.reservedBy]]
  <1>. DEFINE s == asked[o].seatId
              old == seat[s]
              given == [old EXCEPT !.status = "RESERVED"]
  <1>1. old \in Seat
    BY DEF TypeOK
  <1>2. given.status = "RESERVED" /\ given.reservedBy = old.reservedBy
    BY <1>1 DEF Seat
  <1>3. SeatUpdate(old, given) = [status |-> "RESERVED", reservedBy |-> old.reservedBy]
    BY <1>2 DEF SeatUpdate
  <1>4. seat' = [seat EXCEPT ![s] = SeatUpdate(old, given)]
    BY DEF CreateCommit
  <1>. QED BY <1>1, <1>3, <1>4

LEMMA CreateCommitTyped ==
    ASSUME TypeOK, NEW o \in Orders, NEW a \in Answers, CreateCommit(o, a),
           asked[o].seatId \in Seats
    PROVE  TypeOK'
  <1>1. seat' \in [Seats -> Seat]
    <2>1. [status |-> "RESERVED", reservedBy |-> seat[asked[o].seatId].reservedBy] \in Seat
      BY CreateCommitWrites DEF Seat, SeatStatus
    <2>. QED BY <2>1, CreateCommitWrites DEF TypeOK
  <1>2. stale' \in [Requests -> SUBSET Rows]
    BY DEF TypeOK, CreateCommit, MarkStale
  <1>. QED BY <1>1, <1>2
           DEF TypeOK, CreateCommit, Goto, input, OrderStatus, PaymentStatus, Answers

\* processWebhook's writes: both maps applied to the rows of the order.
LEMMA HookWritesRows ==
    ASSUME TypeOK, NEW d \in Deliveries, HookWrites(d), SeatOf(d) \in Seats,
           hook[d].status \in {"SUCCESS", "FAILED"}
    PROVE  /\ order' = [order EXCEPT ![OrderOf(d)] =
                          IF hook[d].status = "SUCCESS" THEN "CONFIRMED" ELSE "FAILED"]
           /\ seat' = [seat EXCEPT ![SeatOf(d)] =
                [status |-> IF hook[d].status = "SUCCESS" THEN "BOOKED" ELSE "AVAILABLE",
                 reservedBy |-> @.reservedBy]]
  <1>1. hook[d].status \in PaymentStatus
    BY DEF PaymentStatus
  <1>2. settledSeatStatus(hook[d].status, seat[SeatOf(d)].status) =
           IF hook[d].status = "SUCCESS" THEN "BOOKED" ELSE "AVAILABLE"
    BY DEF settledSeatStatus
  <1>3. mapPaymentStatusToOrderStatus(hook[d].status) =
           IF hook[d].status = "SUCCESS" THEN "CONFIRMED" ELSE "FAILED"
    BY <1>1, MapsTyped
  <1>. QED BY <1>2, <1>3 DEF HookWrites

LEMMA HookWritesTyped ==
    ASSUME TypeOK, NEW d \in Deliveries, HookWrites(d), SeatOf(d) \in Seats,
           hook[d].status \in {"SUCCESS", "FAILED"}, OrderOf(d) \in Orders
    PROVE  /\ seat' \in [Seats -> Seat]
           /\ order' \in [Orders -> OrderStatus \cup {"ABSENT"}]
           /\ payment' \in [Orders -> PaymentStatus \cup {"ABSENT"}]
           /\ webhookLog' \subseteq Deliveries
           /\ stale' \in [Requests -> SUBSET Rows]
           /\ UNCHANGED <<auditLog, asked, hook, seen>>
  <1>1. seat' \in [Seats -> Seat]
    <2>. DEFINE new == [status |-> IF hook[d].status = "SUCCESS"
                                   THEN "BOOKED" ELSE "AVAILABLE",
                        reservedBy |-> seat[SeatOf(d)].reservedBy]
    <2>1. new \in Seat
      BY DEF TypeOK, Seat, SeatStatus
    <2>2. seat' = [seat EXCEPT ![SeatOf(d)] = new]
      BY HookWritesRows
    <2>. HIDE DEF new
    <2>. QED BY <2>1, <2>2 DEF TypeOK
  <1>2. order' \in [Orders -> OrderStatus \cup {"ABSENT"}]
    BY HookWritesRows DEF TypeOK, OrderStatus
  <1>3. payment' \in [Orders -> PaymentStatus \cup {"ABSENT"}]
    BY DEF TypeOK, HookWrites, PaymentStatus
  <1>4. stale' \in [Requests -> SUBSET Rows]
    BY DEF TypeOK, HookWrites, MarkStale
  <1>. QED BY <1>1, <1>2, <1>3, <1>4 DEF TypeOK, HookWrites, input

------------------------------------------------------------------------------
(***************************************************************************)
(* The steps that write no table.                                          *)
(***************************************************************************)
\* What the tables, the log and the audit say is unchanged when they are.
LEMMA TablesKept ==
    ASSUME IInv, UNCHANGED <<tables, auditLog, input>>
    PROVE  SeatLedger' /\ Settlement' /\ AuditTruthful'
  BY DEF IInv, SeatLedger, Settlement, PaymentMatches, LogMatches, SettledOnce,
         AuditTruthful, tables, input, LiveOrders, OrderOf, mapPaymentStatusToOrderStatus

\* A request that ends without a write releases its locks and disturbs nothing.
LEMMA EndKeeps ==
    ASSUME IInv, TypeOK', UNCHANGED <<tables, auditLog, input, seen>>,
           \A r \in Requests : pc'[r] \in {pc[r], "done"}
    PROVE  IInv'
  <1>1. Exclusive'
    BY DEF IInv, Exclusive, HoldsSeat, HoldsOrder, input, SeatOf, OrderOf
  <1>2. CreateChecked'
    BY DEF IInv, CreateChecked, tables, input
  <1>3. HookChecked'
    BY DEF IInv, HookChecked, tables, input, OrderOf
  <1>. QED BY <1>1, <1>2, <1>3, TablesKept DEF IInv

LEMMA AnswerKeeps ==
    ASSUME IInv, NEW r \in Requests, NEW a \in Answers, Answer(r, a)
    PROVE  IInv'
  <1>1. TypeOK'
    BY AnswerTyped DEF IInv
  <1>2. \A q \in Requests : pc'[q] \in {pc[q], "done"}
    BY DEF IInv, TypeOK, Answer, Goto
  <1>. QED BY <1>1, <1>2, EndKeeps DEF Answer

LEMMA CreateBeginKeeps ==
    ASSUME IInv, NEW o \in Orders, CreateBegin(o)
    PROVE  IInv'
  <1>1. TypeOK'
    BY GotoTyped DEF IInv, CreateBegin, Running
  <1>2. Exclusive'
    BY DEF IInv, TypeOK, Exclusive, HoldsSeat, HoldsOrder, CreateBegin, Goto, input,
           SeatOf, OrderOf
  <1>3. CreateChecked'
    BY DEF IInv, TypeOK, CreateChecked, CreateBegin, Goto, tables, input
  <1>4. HookChecked'
    BY DEF IInv, TypeOK, HookChecked, CreateBegin, Goto, tables, input, OrderOf
  <1>. QED BY <1>1, <1>2, <1>3, <1>4, TablesKept DEF IInv, CreateBegin

LEMMA HookBeginKeeps ==
    ASSUME IInv, NEW d \in Deliveries, HookBegin(d)
    PROVE  IInv'
  <1>1. TypeOK'
    BY GotoTyped DEF IInv, HookBegin, Running
  <1>2. Exclusive'
    BY DEF IInv, TypeOK, Exclusive, HoldsSeat, HoldsOrder, HookBegin, Goto, input,
           SeatOf, OrderOf
  <1>3. CreateChecked'
    BY DEF IInv, TypeOK, CreateChecked, HookBegin, Goto, tables, input
  <1>4. HookChecked'
    BY DEF IInv, TypeOK, HookChecked, HookBegin, Goto, tables, input, OrderOf
  <1>. QED BY <1>1, <1>2, <1>3, <1>4, TablesKept DEF IInv, HookBegin

\* createOrder has the seat row to itself, and read it AVAILABLE.
LEMMA CreateLockSeatKeeps ==
    ASSUME IInv, NEW o \in Orders, CreateLockSeat(o)
    PROVE  IInv'
  <1>1. TypeOK'
    BY GotoTyped DEF IInv, CreateLockSeat, Running
  <1>2. Exclusive'
    BY DEF IInv, TypeOK, Exclusive, SeatFree, HoldsSeat, HoldsOrder, CreateLockSeat,
           Goto, input, SeatOf, OrderOf
  <1>3. CreateChecked'
    BY DEF IInv, TypeOK, CreateChecked, CreateLockSeat, Goto, tables, input
  <1>4. HookChecked'
    BY DEF IInv, TypeOK, HookChecked, CreateLockSeat, Goto, tables, input, OrderOf
  <1>. QED BY <1>1, <1>2, <1>3, <1>4, TablesKept DEF IInv, CreateLockSeat

\* What the ledger says of an order waiting for its payment.
LEMMA PendingIsReserved ==
    ASSUME IInv, NEW o \in Orders, order[o] = "PENDING"
    PROVE  /\ asked[o].seatId \in Seats
           /\ seat[asked[o].seatId].status = "RESERVED"
           /\ LiveOrders(asked[o].seatId) = {o}
  <1>. DEFINE s == asked[o].seatId
  <1>1. s \in Seats
    BY DEF IInv, CreateChecked
  <1>2. o \in LiveOrders(s)
    BY DEF LiveOrders
  <1>3. seat[s].status \in SeatStatus
    BY <1>1 DEF IInv, TypeOK, Seat
  <1>4. seat[s].status # "AVAILABLE"
    BY <1>1, <1>2 DEF IInv, SeatLedger
  <1>5. seat[s].status # "BOOKED"
    <2>1. SUFFICES ASSUME seat[s].status = "BOOKED" PROVE FALSE
      OBVIOUS
    <2>2. PICK p \in Orders : LiveOrders(s) = {p} /\ order[p] = "CONFIRMED"
      BY <1>1, <2>1 DEF IInv, SeatLedger
    <2>. QED BY <1>2, <2>2
  <1>6. seat[s].status = "RESERVED"
    BY <1>3, <1>4, <1>5 DEF SeatStatus
  <1>7. PICK p \in Orders : LiveOrders(s) = {p}
    BY <1>1, <1>6 DEF IInv, SeatLedger
  <1>. QED BY <1>1, <1>2, <1>6, <1>7

\* processWebhook has the order row to itself, and read it unsettled.
LEMMA HookLockOrderKeeps ==
    ASSUME IInv, NEW d \in Deliveries, HookLockOrder(d)
    PROVE  IInv'
  <1>. DEFINE o == OrderOf(d)
  <1>1. o \in Orders /\ hook[d].status \in PaymentStatus
    BY DEF IInv, TypeOK, Payload, OrderOf
  <1>2. order[o] = "PENDING" /\ hook[d].status \in {"SUCCESS", "FAILED"}
    BY <1>1, MapsTyped DEF IInv, HookLockOrder, validTransition, CreateChecked
  <1>3. TypeOK'
    <2>. DEFINE read == [seen[d] EXCEPT !.order = order[o]]
    <2>1. read \in [order : OrderStatus \cup {NULL}, seat : SeatStatus \cup {NULL}]
      BY <1>2 DEF IInv, TypeOK, OrderStatus
    <2>2. seen' = [seen EXCEPT ![d] = read]
      BY DEF HookLockOrder
    <2>. HIDE DEF read
    <2>3. seen' \in [Deliveries -> [order : OrderStatus \cup {NULL},
                                    seat  : SeatStatus \cup {NULL}]]
      BY <2>1, <2>2 DEF IInv, TypeOK
    <2>4. pc' \in [Requests -> Running \cup {"idle", "audit", "done"}]
      BY DEF IInv, TypeOK, HookLockOrder, Goto, Running
    <2>. QED BY <2>3, <2>4 DEF IInv, TypeOK, HookLockOrder, tables, input
  <1>4. Exclusive'
    BY DEF IInv, TypeOK, Exclusive, OrderFree, HoldsSeat, HoldsOrder, HookLockOrder,
           Goto, input, SeatOf, OrderOf
  <1>5. CreateChecked'
    BY DEF IInv, TypeOK, CreateChecked, HookLockOrder, Goto, tables, input
  <1>6. HookChecked'
    <2>1. pc' = [pc EXCEPT ![d] = "lockSeat"] /\ UNCHANGED <<order, hook, webhookLog>>
      BY DEF HookLockOrder, Goto, tables, input
    <2>2. seen' = [seen EXCEPT ![d].order = order[o]]
      BY DEF HookLockOrder
    <2>3. seen'[d].order = "PENDING"
      BY <1>2, <2>2 DEF IInv, TypeOK
    <2>4. d \notin webhookLog
      BY DEF IInv, HookChecked, HookLockOrder
    <2>. QED BY <1>2, <2>1, <2>2, <2>3, <2>4 DEF IInv, TypeOK, HookChecked, OrderOf
  <1>. QED BY <1>3, <1>4, <1>5, <1>6, TablesKept DEF IInv, HookLockOrder

\* processWebhook has both rows to itself.
LEMMA HookLockSeatKeeps ==
    ASSUME IInv, NEW d \in Deliveries, HookLockSeat(d)
    PROVE  IInv'
  <1>. DEFINE o == OrderOf(d)
              s == SeatOf(d)
  <1>1. o \in Orders /\ order[o] = "PENDING"
    BY DEF IInv, TypeOK, Payload, OrderOf, HookLockSeat, HookChecked
  <1>2. seat[s].status = "RESERVED"
    BY <1>1, PendingIsReserved DEF SeatOf
  <1>3. TypeOK'
    <2>. DEFINE read == [seen[d] EXCEPT !.seat = seat[s].status]
    <2>1. read \in [order : OrderStatus \cup {NULL}, seat : SeatStatus \cup {NULL}]
      BY <1>2 DEF IInv, TypeOK, SeatStatus
    <2>2. seen' = [seen EXCEPT ![d] = read]
      BY DEF HookLockSeat
    <2>. HIDE DEF read
    <2>3. seen' \in [Deliveries -> [order : OrderStatus \cup {NULL},
                                    seat  : SeatStatus \cup {NULL}]]
      BY <2>1, <2>2 DEF IInv, TypeOK
    <2>4. pc' \in [Requests -> Running \cup {"idle", "audit", "done"}]
      BY DEF IInv, TypeOK, HookLockSeat, Goto, Running
    <2>. QED BY <2>3, <2>4 DEF IInv, TypeOK, HookLockSeat, tables, input
  <1>4. Exclusive'
    BY DEF IInv, TypeOK, Exclusive, SeatFree, HoldsSeat, HoldsOrder, HookLockSeat,
           Goto, input, SeatOf, OrderOf
  <1>5. CreateChecked'
    BY DEF IInv, TypeOK, CreateChecked, HookLockSeat, Goto, tables, input
  <1>6. HookChecked'
    <2>1. pc' = [pc EXCEPT ![d] = "commit"] /\ UNCHANGED <<order, hook, webhookLog>>
      BY DEF HookLockSeat, Goto, tables, input
    <2>2. seen' = [seen EXCEPT ![d].seat = "RESERVED"]
      BY <1>2 DEF HookLockSeat
    <2>3. seen'[d].order = seen[d].order /\ seen'[d].seat = "RESERVED"
      BY <2>2 DEF IInv, TypeOK
    <2>4. d \notin webhookLog /\ pc[d] = "lockSeat"
      BY DEF IInv, HookChecked, HookLockSeat
    <2>. QED BY <2>1, <2>2, <2>3, <2>4 DEF IInv, TypeOK, HookChecked, OrderOf
  <1>. QED BY <1>3, <1>4, <1>5, <1>6, TablesKept DEF IInv, HookLockSeat

------------------------------------------------------------------------------
(***************************************************************************)
(* createOrder commits.                                                    *)
(***************************************************************************)
LEMMA CreateCommitKeeps ==
    ASSUME IInv, NEW o \in Orders, NEW a \in Answers, CreateCommit(o, a)
    PROVE  IInv'
  <1>. DEFINE s == asked[o].seatId
  <1>1. /\ s \in Seats
        /\ seat[s].status = "AVAILABLE"
        /\ order[o] = "ABSENT"
        /\ LiveOrders(s) = {}
    BY DEF IInv, CreateChecked, SeatLedger, CreateCommit
  <1>2. TypeOK'
    BY <1>1, CreateCommitTyped DEF IInv
  <1>3. /\ pc' = [pc EXCEPT ![o] = "done"]
        /\ order' = [order EXCEPT ![o] = "PENDING"]
        /\ payment' = [payment EXCEPT ![o] = "PENDING"]
        /\ seat' = [seat EXCEPT ![s] = [status |-> "RESERVED", reservedBy |-> @.reservedBy]]
        /\ UNCHANGED <<webhookLog, auditLog, asked, hook, seen>>
    BY <1>1, CreateCommitWrites DEF IInv, CreateCommit, Goto, input
  <1>4. /\ s \in Seats /\ seat'[s].status = "RESERVED"
        /\ \A t \in Seats \ {s} : seat'[t] = seat[t]
        /\ \A p \in Orders : order'[p] = IF p = o THEN "PENDING" ELSE order[p]
        /\ \A p \in Orders : payment'[p] = IF p = o THEN "PENDING" ELSE payment[p]
        /\ \A r \in Requests : pc'[r] = IF r = o THEN "done" ELSE pc[r]
    BY <1>1, <1>3 DEF IInv, TypeOK
  <1>5. Exclusive'
    BY <1>3, <1>4 DEF IInv, Exclusive, HoldsSeat, HoldsOrder, SeatOf, OrderOf
  <1>6. CreateChecked'
    <2>1. \A p \in Orders : p # o /\ pc[p] = "commit" => asked[p].seatId # s
      BY <1>1 DEF IInv, Exclusive, HoldsSeat, CreateCommit
    <2>. QED BY <1>1, <1>3, <1>4, <2>1 DEF IInv, CreateChecked
  <1>7. HookChecked'
    <2>1. \A d \in Deliveries : d # o /\ OrderOf(d) \in Orders
      BY DEF IInv, TypeOK, Payload, OrderOf
    <2>. QED BY <1>1, <1>3, <1>4, <2>1 DEF IInv, HookChecked, OrderOf
  <1>8. \A t \in Seats : LiveOrders(t)' = IF t = s THEN {o} ELSE LiveOrders(t)
    BY <1>1, <1>3, <1>4 DEF LiveOrders
  <1>9. SeatLedger'
    <2>. SUFFICES ASSUME NEW t \in Seats
                  PROVE  /\ seat'[t].status = "AVAILABLE" => LiveOrders(t)' = {}
                         /\ seat'[t].status = "RESERVED" => \E p \in Orders :
                               LiveOrders(t)' = {p} /\ order'[p] = "PENDING"
                         /\ seat'[t].status = "BOOKED" => \E p \in Orders :
                               LiveOrders(t)' = {p} /\ order'[p] = "CONFIRMED"
      BY DEF SeatLedger
    <2>1. CASE t = s
      BY <1>4, <1>8, <2>1
    <2>2. CASE t # s
      <3>1. o \notin LiveOrders(t)
        BY <2>2 DEF LiveOrders
      <3>. QED BY <1>4, <1>8, <2>2, <3>1 DEF IInv, SeatLedger
    <2>. QED BY <2>1, <2>2
  <1>10. \A d \in webhookLog : OrderOf(d) \in Orders \ {o}
    BY <1>1, MapsTyped
       DEF IInv, TypeOK, Settlement, LogMatches, Payload, OrderOf, OrderStatus
  <1>11. Settlement'
    <2>1. PaymentMatches'
      BY <1>1, <1>4 DEF IInv, Settlement, PaymentMatches
    <2>2. LogMatches'
      BY <1>3, <1>4, <1>10
         DEF IInv, Settlement, LogMatches, OrderOf, mapPaymentStatusToOrderStatus
    <2>3. SettledOnce'
      BY <1>3, <1>4 DEF IInv, Settlement, SettledOnce, OrderOf
    <2>. QED BY <2>1, <2>2, <2>3 DEF Settlement
  <1>12. AuditTruthful'
    <2>1. \A d \in webhookLog : order'[OrderOf(d)] = order[OrderOf(d)]
      BY <1>4, <1>10 DEF IInv, TypeOK, Payload, OrderOf
    <2>. QED BY <1>3, <2>1 DEF IInv, AuditTruthful, OrderOf
  <1>. QED BY <1>2, <1>5, <1>6, <1>7, <1>9, <1>11, <1>12 DEF IInv

------------------------------------------------------------------------------
(***************************************************************************)
(* processWebhook commits, and audits.                                     *)
(***************************************************************************)
LEMMA HookWritesKeeps ==
    ASSUME IInv, NEW d \in Deliveries, pc[d] = "commit", HookWrites(d),
           NEW l \in {"audit", "done"}, Goto(d, l),
           reply' \in [Requests -> Answers \cup {"none"}]
    PROVE  IInv'
  <1>. DEFINE o == OrderOf(d)
              s == SeatOf(d)
              success == hook[d].status = "SUCCESS"
              settled == IF success THEN "CONFIRMED" ELSE "FAILED"
  <1>1. /\ o \in Orders /\ order[o] = "PENDING"
        /\ hook[d].status \in {"SUCCESS", "FAILED"}
        /\ seen[d] = [order |-> "PENDING", seat |-> "RESERVED"]
        /\ d \notin webhookLog
    BY DEF IInv, TypeOK, HookChecked, Payload, OrderOf
  <1>2. s \in Seats /\ s = asked[o].seatId /\ LiveOrders(s) = {o}
    BY <1>1, PendingIsReserved DEF SeatOf
  <1>3. /\ pc' = [pc EXCEPT ![d] = l]
        /\ order' = [order EXCEPT ![o] = settled]
        /\ seat' = [seat EXCEPT ![s] = [status |-> IF success THEN "BOOKED" ELSE "AVAILABLE",
                                        reservedBy |-> @.reservedBy]]
        /\ payment' = [payment EXCEPT ![o] = IF @ = "ABSENT" THEN @ ELSE hook[d].status]
        /\ webhookLog' = webhookLog \cup {d}
        /\ UNCHANGED <<auditLog, asked, hook, seen>>
    BY <1>1, <1>2, HookWritesRows DEF IInv, HookWrites, Goto, input
  <1>4. TypeOK'
    <2>1. pc' \in [Requests -> Running \cup {"idle", "audit", "done"}]
      BY <1>3 DEF IInv, TypeOK
    <2>. QED BY <1>1, <1>2, <2>1, HookWritesTyped DEF IInv, TypeOK
  <1>5. /\ seat'[s].status = IF success THEN "BOOKED" ELSE "AVAILABLE"
        /\ \A t \in Seats \ {s} : seat'[t] = seat[t]
        /\ \A p \in Orders : order'[p] = IF p = o THEN settled ELSE order[p]
        /\ \A p \in Orders \ {o} : payment'[p] = payment[p]
        /\ payment'[o] = IF success THEN "SUCCESS" ELSE "FAILED"
        /\ \A r \in Requests : pc'[r] = IF r = d THEN l ELSE pc[r]
    <2>1. payment[o] = "PENDING"
      BY <1>1 DEF IInv, Settlement, PaymentMatches
    <2>. QED BY <1>1, <1>2, <1>3, <2>1 DEF IInv, TypeOK
  <1>6. Exclusive'
    BY <1>3, <1>5 DEF IInv, Exclusive, HoldsSeat, HoldsOrder, SeatOf, OrderOf
  <1>7. CreateChecked'
    <2>1. \A p \in Orders : pc[p] = "commit" => asked[p].seatId # s
      BY <1>2 DEF IInv, Exclusive, HoldsSeat
    <2>2. \A p \in Orders : p # d
      OBVIOUS
    <2>. QED BY <1>1, <1>3, <1>5, <2>1, <2>2 DEF IInv, CreateChecked
  <1>8. HookChecked'
    <2>1. \A e \in Deliveries : e # d /\ pc[e] \in {"lockSeat", "commit"} => OrderOf(e) # o
      BY <1>1 DEF IInv, Exclusive, HoldsOrder
    <2>2. \A e \in Deliveries : OrderOf(e) \in Orders
      BY DEF IInv, TypeOK, Payload, OrderOf
    <2>. SUFFICES ASSUME NEW e \in Deliveries
                  PROVE  /\ pc'[e] = "lockOrder" => order'[OrderOf(e)] # "ABSENT"
                         /\ pc'[e] \in {"lockSeat", "commit"} =>
                               /\ order'[OrderOf(e)] = "PENDING"
                               /\ hook[e].status \in {"SUCCESS", "FAILED"}
                               /\ seen[e].order = "PENDING"
                         /\ pc'[e] = "commit" => seen[e].seat = "RESERVED"
                         /\ pc'[e] = "audit" =>
                               /\ e \in webhookLog'
                               /\ seen[e] = [order |-> "PENDING", seat |-> "RESERVED"]
                         /\ e \in webhookLog' =>
                               /\ pc'[e] \in {"audit", "done"}
                               /\ hook[e].status \in {"SUCCESS", "FAILED"}
      BY <1>3 DEF HookChecked, OrderOf
    <2>3. CASE e = d
      BY <1>1, <1>3, <1>5, <2>3
    <2>4. CASE e # d
      BY <1>3, <1>5, <2>1, <2>2, <2>4 DEF IInv, HookChecked
    <2>. QED BY <2>3, <2>4
  <1>9. \A t \in Seats : LiveOrders(t)' = IF t # s THEN LiveOrders(t)
                                          ELSE IF success THEN {o} ELSE {}
    BY <1>1, <1>2, <1>3, <1>5 DEF LiveOrders
  <1>10. SeatLedger'
    <2>. SUFFICES ASSUME NEW t \in Seats
                  PROVE  /\ seat'[t].status = "AVAILABLE" => LiveOrders(t)' = {}
                         /\ seat'[t].status = "RESERVED" => \E p \in Orders :
                               LiveOrders(t)' = {p} /\ order'[p] = "PENDING"
                         /\ seat'[t].status = "BOOKED" => \E p \in Orders :
                               LiveOrders(t)' = {p} /\ order'[p] = "CONFIRMED"
      BY DEF SeatLedger
    <2>1. CASE t = s
      BY <1>1, <1>5, <1>9, <2>1
    <2>2. CASE t # s
      <3>1. o \notin LiveOrders(t)
        BY <1>2, <2>2 DEF LiveOrders
      <3>. QED BY <1>5, <1>9, <2>2, <3>1 DEF IInv, SeatLedger
    <2>. QED BY <2>1, <2>2
  <1>11. \A e \in webhookLog : OrderOf(e) \in Orders \ {o}
    <2>1. \A e \in webhookLog : /\ OrderOf(e) \in Orders
                                /\ hook[e].status \in {"SUCCESS", "FAILED"}
                                /\ hook[e].status \in PaymentStatus
      BY DEF IInv, TypeOK, Payload, OrderOf, HookChecked
    <2>. QED BY <1>1, <2>1, MapsTyped DEF IInv, Settlement, LogMatches
  <1>12. Settlement'
    <2>1. PaymentMatches'
      BY <1>1, <1>5 DEF IInv, Settlement, PaymentMatches
    <2>2. mapPaymentStatusToOrderStatus(hook[d].status) = settled
      BY <1>1 DEF mapPaymentStatusToOrderStatus
    <2>3. LogMatches'
      BY <1>1, <1>3, <1>5, <1>11, <2>2
         DEF IInv, Settlement, LogMatches, OrderOf, mapPaymentStatusToOrderStatus
    <2>4. SettledOnce'
      <3>. SUFFICES ASSUME NEW p \in Orders, order'[p] \in {"CONFIRMED", "FAILED"}
                    PROVE  \E f \in webhookLog' : {e \in webhookLog' : OrderOf(e) = p} = {f}
        BY <1>3 DEF SettledOnce, OrderOf
      <3>1. CASE p = o
        BY <1>3, <1>11, <3>1
      <3>2. CASE p # o
        BY <1>1, <1>3, <1>5, <3>2 DEF IInv, Settlement, SettledOnce
      <3>. QED BY <3>1, <3>2
    <2>. QED BY <2>1, <2>3, <2>4 DEF Settlement
  <1>13. AuditTruthful'
    <2>1. \A e \in webhookLog : order'[OrderOf(e)] = order[OrderOf(e)]
      BY <1>5, <1>11
    <2>. QED BY <1>3, <2>1 DEF IInv, AuditTruthful, OrderOf
  <1>. QED BY <1>4, <1>6, <1>7, <1>8, <1>10, <1>12, <1>13 DEF IInv

LEMMA HookAuditKeeps ==
    ASSUME IInv, NEW d \in Deliveries, HookAudit(d)
    PROVE  IInv'
  <1>. DEFINE o == OrderOf(d)
              new == [order |-> mapPaymentStatusToOrderStatus(hook[d].status),
                      seat  |-> mapPaymentStatusToSeatStatus(hook[d].status)]
              entry == [oldValue |-> seen[d], newValue |-> new]
  <1>1. /\ d \in webhookLog
        /\ seen[d] = [order |-> "PENDING", seat |-> "RESERVED"]
        /\ hook[d].status \in {"SUCCESS", "FAILED"}
        /\ hook[d].status \in PaymentStatus
        /\ o \in Orders
    BY DEF IInv, TypeOK, HookChecked, HookAudit, Payload, OrderOf
  <1>2. /\ auditLog' = [auditLog EXCEPT ![d] = entry]
        /\ pc' = [pc EXCEPT ![d] = "done"]
        /\ reply' = [reply EXCEPT ![d] = "ok"]
        /\ UNCHANGED <<seat, order, payment, webhookLog, asked, hook, seen, stale>>
    BY DEF HookAudit, Goto, tables, input
  <1>3. /\ new.order = order[o]
        /\ new.seat = IF order[o] = "CONFIRMED" THEN "BOOKED" ELSE "AVAILABLE"
    BY <1>1, MapsTyped DEF IInv, Settlement, LogMatches
  <1>4. entry \in AuditEntry
    <2>1. seen[d] \in Statuses
      BY <1>1 DEF Statuses, OrderStatus, SeatStatus
    <2>2. new \in Statuses
      BY <1>1, MapsTyped DEF Statuses
    <2>. QED BY <2>1, <2>2 DEF AuditEntry
  <1>5. auditLog'[d] = entry /\ \A e \in Deliveries \ {d} : auditLog'[e] = auditLog[e]
    BY <1>2 DEF IInv, TypeOK
  <1>. HIDE DEF new
  <1>6. TypeOK'
    <2>1. auditLog' \in [Deliveries -> AuditEntry \cup {NULL}]
      BY <1>2, <1>4 DEF IInv, TypeOK
    <2>. QED BY <1>2, <2>1 DEF IInv, TypeOK, Answers, Running
  <1>7. \A r \in Requests : pc'[r] \in {pc[r], "done"}
    BY <1>2 DEF IInv, TypeOK
  <1>8. Exclusive' /\ CreateChecked' /\ HookChecked'
    <2>1. Exclusive'
      BY <1>2, <1>7 DEF IInv, Exclusive, HoldsSeat, HoldsOrder, SeatOf, OrderOf
    <2>2. CreateChecked'
      BY <1>2, <1>7 DEF IInv, CreateChecked
    <2>3. HookChecked'
      BY <1>2, <1>7 DEF IInv, HookChecked, OrderOf
    <2>. QED BY <2>1, <2>2, <2>3
  <1>9. SeatLedger' /\ Settlement'
    BY <1>2 DEF IInv, SeatLedger, Settlement, PaymentMatches, LogMatches, SettledOnce,
                LiveOrders, OrderOf, mapPaymentStatusToOrderStatus
  <1>10. AuditTruthful'
    BY <1>1, <1>2, <1>3, <1>5 DEF IInv, AuditTruthful, OrderOf
  <1>. QED BY <1>6, <1>8, <1>9, <1>10 DEF IInv

------------------------------------------------------------------------------
(***************************************************************************)
(* The theorems.                                                           *)
(***************************************************************************)
LEMMA InitIInv == Init => IInv
  <1>. SUFFICES ASSUME Init PROVE IInv
    OBVIOUS
  <1>1. TypeOK
    BY DEF Init, TypeOK, Seat, SeatStatus
  <1>2. Exclusive /\ CreateChecked /\ HookChecked
    BY DEF Init, Exclusive, CreateChecked, HookChecked, HoldsSeat, HoldsOrder
  <1>3. SeatLedger /\ Settlement /\ AuditTruthful
    BY DEF Init, SeatLedger, Settlement, PaymentMatches, LogMatches, SettledOnce,
           AuditTruthful, LiveOrders
  <1>. QED BY <1>1, <1>2, <1>3 DEF IInv

\* Every step of createOrder, of processWebhook, of the database and of the
\* runtime keeps the invariant.
LEMMA NextIInv == IInv /\ [Next]_vars => IInv'
  <1>. SUFFICES ASSUME IInv, [Next]_vars PROVE IInv'
    OBVIOUS
  <1>. USE DEF Answers
  <1>1. ASSUME NEW o \in Orders, CreateBegin(o) PROVE IInv'
    BY <1>1, CreateBeginKeeps
  <1>2. ASSUME NEW o \in Orders, CreateCommitUnacknowledged(o) PROVE IInv'
    BY <1>2, CreateCommitKeeps DEF CreateCommitUnacknowledged
  <1>3. ASSUME NEW d \in Deliveries, HookAlreadyProcessed(d) PROVE IInv'
    BY <1>3, AnswerKeeps DEF HookAlreadyProcessed
  <1>4. ASSUME NEW d \in Deliveries, HookOrderNotFound(d) PROVE IInv'
    BY <1>4, AnswerKeeps DEF HookOrderNotFound
  <1>5. ASSUME NEW d \in Deliveries, HookBegin(d) PROVE IInv'
    BY <1>5, HookBeginKeeps
  <1>6. ASSUME NEW d \in Deliveries, HookCommitUnacknowledged(d) PROVE IInv'
    <2>1. reply' \in [Requests -> Answers \cup {"none"}]
      BY <1>6 DEF IInv, TypeOK, HookCommitUnacknowledged
    <2>. QED BY <1>6, <2>1, HookWritesKeeps DEF HookCommitUnacknowledged
  <1>7. ASSUME NEW d \in Deliveries, HookAuditFails(d) PROVE IInv'
    BY <1>7, AnswerKeeps DEF HookAuditFails
  <1>8. ASSUME NEW o \in Orders, CreateOrder(o) PROVE IInv'
    <2>1. CASE CreateSeatNotFound(o)
      BY <2>1, AnswerKeeps DEF CreateSeatNotFound
    <2>2. CASE CreateConflict(o)
      BY <2>2, AnswerKeeps DEF CreateConflict
    <2>3. CASE CreateLockSeat(o)
      BY <2>3, CreateLockSeatKeeps
    <2>4. CASE CreateCommit(o, "ok")
      BY <2>4, CreateCommitKeeps
    <2>. QED BY <1>8, <2>1, <2>2, <2>3, <2>4 DEF CreateOrder
  <1>9. ASSUME NEW d \in Deliveries, ProcessWebhook(d) PROVE IInv'
    <2>1. CASE HookConflict(d)
      BY <2>1, AnswerKeeps DEF HookConflict
    <2>2. CASE HookLockOrder(d)
      BY <2>2, HookLockOrderKeeps
    <2>3. CASE HookLockSeat(d)
      BY <2>3, HookLockSeatKeeps
    <2>4. CASE HookCommit(d)
      <3>1. reply' \in [Requests -> Answers \cup {"none"}]
        BY <2>4 DEF IInv, TypeOK, HookCommit
      <3>. QED BY <2>4, <3>1, HookWritesKeeps DEF HookCommit
    <2>5. CASE HookAudit(d)
      BY <2>5, HookAuditKeeps
    <2>. QED BY <1>9, <2>1, <2>2, <2>3, <2>4, <2>5 DEF ProcessWebhook
  <1>10. ASSUME NEW r \in Requests, Serialization(r) PROVE IInv'
    BY <1>10, AnswerKeeps DEF Serialization
  <1>11. ASSUME NEW r \in Requests, StatementFails(r) PROVE IInv'
    BY <1>11, AnswerKeeps DEF StatementFails
  <1>12. CASE Crash
    <2>1. TypeOK'
      BY <1>12 DEF IInv, TypeOK, Crash, tables, input, Running
    <2>2. \A r \in Requests : pc'[r] \in {pc[r], "done"}
      BY <1>12 DEF Crash
    <2>. QED BY <1>12, <2>1, <2>2, EndKeeps DEF Crash
  <1>13. CASE UNCHANGED vars
    <2>1. TypeOK'
      BY <1>13 DEF IInv, TypeOK, vars, tables, input
    <2>. QED BY <1>13, <2>1, EndKeeps DEF vars
  <1>14. CASE Quiescent
    BY <1>13, <1>14 DEF Quiescent
  <1>. QED
    BY <1>1, <1>2, <1>3, <1>4, <1>5, <1>6, <1>7, <1>8, <1>9, <1>10, <1>11, <1>12,
       <1>13, <1>14 DEF Next, Proceed

\* Spec keeps the inductive invariant.
THEOREM Invariance == Spec => []IInv
  BY InitIInv, NextIInv, PTL DEF Spec

\* Every variable keeps its type, under every interleaving and every fault.
THEOREM TypeCorrect == Spec => []TypeOK
  <1>1. IInv => TypeOK
    BY DEF IInv
  <1>. QED BY <1>1, Invariance, PTL

\* No seat is ever sold twice: the seats and the orders agree.
THEOREM LedgerCorrect == Spec => []SeatLedger
  <1>1. IInv => SeatLedger
    BY DEF IInv
  <1>. QED BY <1>1, Invariance, PTL

\* An order is settled by exactly one webhook, and its payment row agrees.
THEOREM SettlementCorrect == Spec => []Settlement
  <1>1. IInv => Settlement
    BY DEF IInv
  <1>. QED BY <1>1, Invariance, PTL

\* What the audit log says of an order happened to it.
THEOREM AuditCorrect == Spec => []AuditTruthful
  <1>1. IInv => AuditTruthful
    BY DEF IInv
  <1>. QED BY <1>1, Invariance, PTL
==============================================================================
