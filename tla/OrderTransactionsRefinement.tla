--------------------- MODULE OrderTransactionsRefinement ---------------------
(***************************************************************************)
(* OrderTransactions implements SeatBooking, and the answers it gives are  *)
(* justified: the theorems about its steps, from its inductive invariant.  *)
(***************************************************************************)
EXTENDS OrderTransactionsProofs

USE OrderTransactionsAssumption DEF Requests

\* The only steps that write a table are the two commits.
LEMMA OnlyCommitsWrite ==
    ASSUME Next
    PROVE  \/ UNCHANGED <<tables, input>>
           \/ \E o \in Orders, a \in Answers : CreateCommit(o, a)
           \/ \E d \in Deliveries : pc[d] = "commit" /\ HookWrites(d)
  <1>. USE DEF Answers, Answer, tables, input
  <1>2. ASSUME NEW o \in Orders, CreateOrder(o)
        PROVE  \/ UNCHANGED <<tables, input>>
               \/ \E a \in Answers : CreateCommit(o, a)
    BY <1>2 DEF CreateOrder, CreateSeatNotFound, CreateConflict, CreateLockSeat
  <1>3. ASSUME NEW d \in Deliveries, ProcessWebhook(d)
        PROVE  \/ UNCHANGED <<tables, input>>
               \/ pc[d] = "commit" /\ HookWrites(d)
    BY <1>3 DEF ProcessWebhook, HookConflict, HookLockOrder, HookLockSeat,
                      HookCommit, HookAudit
  <1>4. ASSUME NEW r \in Requests, Serialization(r) \/ StatementFails(r)
        PROVE  UNCHANGED <<tables, input>>
    BY <1>4 DEF Serialization, StatementFails
  <1>5. ASSUME NEW o \in Orders, CreateBegin(o) \/ CreateCommitUnacknowledged(o)
        PROVE  \/ UNCHANGED <<tables, input>>
               \/ \E a \in Answers : CreateCommit(o, a)
    BY <1>5 DEF CreateBegin, CreateCommitUnacknowledged
  <1>6. ASSUME NEW d \in Deliveries,
               \/ HookAlreadyProcessed(d) \/ HookOrderNotFound(d) \/ HookBegin(d)
               \/ HookCommitUnacknowledged(d) \/ HookAuditFails(d)
        PROVE  \/ UNCHANGED <<tables, input>>
               \/ pc[d] = "commit" /\ HookWrites(d)
    BY <1>6 DEF HookAlreadyProcessed, HookOrderNotFound, HookBegin,
                      HookCommitUnacknowledged, HookAuditFails
  <1>7. Crash \/ Quiescent => UNCHANGED <<tables, input>>
    BY DEF Crash, Quiescent, vars
  <1>. QED BY <1>2, <1>3, <1>4, <1>5, <1>6, <1>7 DEF Next, Proceed

------------------------------------------------------------------------------
(***************************************************************************)
(* Refinement.                                                             *)
(***************************************************************************)
LEMMA CreateCommitReserves ==
    ASSUME IInv, NEW o \in Orders, NEW a \in Answers, CreateCommit(o, a)
    PROVE  Booking!Reserve(o, asked[o].seatId) /\ asked[o].seatId \in Seats
  <1>. DEFINE s == asked[o].seatId
  <1>1. s \in Seats /\ order[o] = "ABSENT" /\ LiveOrders(s) = {}
    BY DEF IInv, CreateChecked, SeatLedger, CreateCommit
  <1>2. /\ \A p \in Orders : order'[p] = IF p = o THEN "PENDING" ELSE order[p]
        /\ asked' = asked
    BY DEF IInv, TypeOK, CreateCommit, input
  <1>3. \A t \in Seats : LiveOrders(t)' = IF t = s THEN {o} ELSE LiveOrders(t)
    BY <1>1, <1>2 DEF LiveOrders
  <1>4. \A p \in Orders : fateOf(order[p])' = IF p = o THEN "pending" ELSE fateOf(order[p])
    BY <1>2 DEF fateOf
  <1>5. fateOf(order[o]) = "none"
    BY <1>1 DEF fateOf
  <1>. QED BY <1>1, <1>3, <1>4, <1>5 DEF Booking!Reserve

LEMMA HookWritesSettles ==
    ASSUME IInv, NEW d \in Deliveries, pc[d] = "commit", HookWrites(d)
    PROVE  Booking!Confirm(OrderOf(d)) \/ Booking!Release(OrderOf(d))
  <1>. DEFINE o == OrderOf(d)
              s == SeatOf(d)
              success == hook[d].status = "SUCCESS"
  <1>1. /\ o \in Orders /\ order[o] = "PENDING"
        /\ hook[d].status \in {"SUCCESS", "FAILED"}
    BY DEF IInv, TypeOK, HookChecked, Payload, OrderOf
  <1>2. s \in Seats /\ s = asked[o].seatId /\ LiveOrders(s) = {o}
    BY <1>1, PendingIsReserved DEF SeatOf
  <1>3. /\ \A p \in Orders : order'[p] = IF p # o THEN order[p]
                                         ELSE IF success THEN "CONFIRMED" ELSE "FAILED"
        /\ asked' = asked
    <2>1. order' = [order EXCEPT ![o] = IF success THEN "CONFIRMED" ELSE "FAILED"]
      BY <1>1, <1>2, HookWritesRows DEF IInv
    <2>2. order \in [Orders -> OrderStatus \cup {"ABSENT"}]
      BY DEF IInv, TypeOK
    <2>3. asked' = asked
      BY DEF HookWrites, input
    <2>. QED BY <1>1, <2>1, <2>2, <2>3
  <1>4. fateOf(order[o]) = "pending"
    BY <1>1 DEF fateOf
  <1>5. \A p \in Orders : fateOf(order[p])' = IF p # o THEN fateOf(order[p])
                                              ELSE IF success THEN "confirmed" ELSE "failed"
    BY <1>3 DEF fateOf
  <1>6. \A t \in Seats : LiveOrders(t)' = IF success THEN LiveOrders(t)
                                          ELSE LiveOrders(t) \ {o}
    BY <1>1, <1>2, <1>3 DEF LiveOrders
  <1>7. CASE success
    BY <1>1, <1>4, <1>5, <1>6, <1>7 DEF Booking!Confirm
  <1>8. CASE ~success
    BY <1>1, <1>4, <1>5, <1>6, <1>8 DEF Booking!Release
  <1>. QED BY <1>7, <1>8

LEMMA NoWriteStutters ==
    ASSUME UNCHANGED <<tables, input>>
    PROVE  UNCHANGED Booking!vars
  BY DEF tables, input, Booking!vars, LiveOrders, fateOf

\* Whatever the interleaving and the faults, the tables of order-service go
\* through the states of the abstract booking: one holder per seat, one
\* settlement per order.  (createOrder, processWebhook)
THEOREM Refinement == Spec => Promise
  <1>1. Init => Booking!Init
    BY DEF Init, Booking!Init, LiveOrders, fateOf
  <1>2. IInv /\ [Next]_vars => [Booking!Next]_(Booking!vars)
    <2>. SUFFICES ASSUME IInv, [Next]_vars
                  PROVE  Booking!Next \/ UNCHANGED Booking!vars
      OBVIOUS
    <2>1. CASE UNCHANGED vars
      BY <2>1, NoWriteStutters DEF vars
    <2>2. CASE UNCHANGED <<tables, input>>
      BY <2>2, NoWriteStutters
    <2>3. ASSUME NEW o \in Orders, NEW a \in Answers, CreateCommit(o, a)
          PROVE  Booking!Next
      BY <2>3, CreateCommitReserves DEF Booking!Next
    <2>4. ASSUME NEW d \in Deliveries, pc[d] = "commit", HookWrites(d)
          PROVE  Booking!Next
      <3>1. OrderOf(d) \in Orders
        BY DEF IInv, TypeOK, Payload, OrderOf
      <3>. QED BY <2>4, <3>1, HookWritesSettles DEF Booking!Next
    <2>. QED BY <2>1, <2>2, <2>3, <2>4, OnlyCommitsWrite
  <1>. QED BY <1>1, <1>2, Invariance, PTL DEF Spec, Promise, Booking!Spec

------------------------------------------------------------------------------
(***************************************************************************)
(* Orders and payments together.                                           *)
(***************************************************************************)
\* The rows of order o go from one status to the next and no others are written;
\* the row of a sold seat is left alone.
LEMMA CreateCommitBoth ==
    ASSUME IInv, NEW o \in Orders, NEW a \in Answers, CreateCommit(o, a)
    PROVE  /\ \A p \in Orders : p # o => UNCHANGED <<order[p], payment[p]>>
           /\ order[o] = "ABSENT" /\ payment[o] = "ABSENT"
           /\ order'[o] = "PENDING" /\ payment'[o] = "PENDING"
           /\ \A p \in Orders : order[p] = "CONFIRMED" => UNCHANGED seat[asked[p].seatId]
  <1>. DEFINE s == asked[o].seatId
  <1>1. s \in Seats /\ order[o] = "ABSENT" /\ LiveOrders(s) = {}
    BY DEF IInv, CreateChecked, SeatLedger, CreateCommit
  <1>2. payment[o] = "ABSENT"
    BY <1>1 DEF IInv, Settlement, PaymentMatches
  <1>3. /\ order' = [order EXCEPT ![o] = "PENDING"] /\ order \in [Orders -> OrderStatus \cup {"ABSENT"}]
        /\ payment' = [payment EXCEPT ![o] = "PENDING"]
        /\ payment \in [Orders -> PaymentStatus \cup {"ABSENT"}]
    BY DEF CreateCommit, IInv, TypeOK
  <1>4. \A t \in Seats : t # s => seat'[t] = seat[t]
    BY DEF CreateCommit, IInv, TypeOK
  <1>5. asked' = asked
    BY DEF CreateCommit, input
  <1>6. ASSUME NEW p \in Orders, order[p] = "CONFIRMED"
        PROVE  UNCHANGED seat[asked[p].seatId]
    <2>1. asked[p].seatId \in Seats
      BY <1>6 DEF IInv, CreateChecked
    <2>2. asked[p].seatId # s
      BY <1>1, <1>6 DEF LiveOrders
    <2>. QED BY <1>4, <1>5, <2>1, <2>2
  <1>. QED BY <1>1, <1>2, <1>3, <1>6

LEMMA HookWritesBoth ==
    ASSUME IInv, NEW d \in Deliveries, pc[d] = "commit", HookWrites(d)
    PROVE  LET o == OrderOf(d) IN
           /\ \A p \in Orders : p # o => UNCHANGED <<order[p], payment[p]>>
           /\ order[o] = "PENDING" /\ payment[o] = "PENDING"
           /\ \/ order'[o] = "CONFIRMED" /\ payment'[o] = "SUCCESS"
              \/ order'[o] = "FAILED" /\ payment'[o] = "FAILED"
           /\ \A p \in Orders : order[p] = "CONFIRMED" => UNCHANGED seat[asked[p].seatId]
  <1>. DEFINE o == OrderOf(d)
              s == SeatOf(d)
              status == hook[d].status
  <1>1. o \in Orders /\ order[o] = "PENDING" /\ status \in {"SUCCESS", "FAILED"}
    BY DEF IInv, TypeOK, HookChecked, Payload, OrderOf
  <1>2. s \in Seats /\ s = asked[o].seatId /\ LiveOrders(s) = {o}
    BY <1>1, PendingIsReserved DEF SeatOf
  <1>3. payment[o] = "PENDING"
    BY <1>1 DEF IInv, Settlement, PaymentMatches
  <1>4. order' = [order EXCEPT ![o] = IF status = "SUCCESS" THEN "CONFIRMED" ELSE "FAILED"]
    BY <1>1, <1>2, HookWritesRows DEF IInv
  <1>5. payment' = [payment EXCEPT ![o] = status]
    BY <1>3 DEF HookWrites
  <1>6. /\ order \in [Orders -> OrderStatus \cup {"ABSENT"}]
        /\ payment \in [Orders -> PaymentStatus \cup {"ABSENT"}]
        /\ seat \in [Seats -> Seat]
    BY DEF IInv, TypeOK
  <1>7. (\A t \in Seats : t # s => seat'[t] = seat[t]) /\ asked' = asked
    BY <1>6 DEF HookWrites, input
  <1>8. ASSUME NEW p \in Orders, order[p] = "CONFIRMED"
        PROVE  UNCHANGED seat[asked[p].seatId]
    <2>1. asked[p].seatId \in Seats
      BY <1>8 DEF IInv, CreateChecked
    <2>2. asked[p].seatId # s
      BY <1>1, <1>2, <1>8 DEF LiveOrders
    <2>. QED BY <1>7, <2>1, <2>2
  <1>. QED BY <1>1, <1>3, <1>4, <1>5, <1>6, <1>8

\* However many webhooks, bookings and faults come later, a settled order and its
\* payment stay as they are, and so does the row of a sold seat.  (createOrder,
\* processWebhook)
THEOREM SettledStays == Spec => SettledForGood
  <1>. DEFINE Moves ==
         \A o \in Orders :
            /\ \/ UNCHANGED <<order[o], payment[o]>>
               \/ /\ order[o] = "ABSENT" /\ payment[o] = "ABSENT"
                  /\ order'[o] = "PENDING" /\ payment'[o] = "PENDING"
               \/ /\ order[o] = "PENDING" /\ payment[o] = "PENDING"
                  /\ <<order'[o], payment'[o]>> \in {<<"CONFIRMED", "SUCCESS">>,
                                                    <<"FAILED", "FAILED">>}
            /\ order[o] = "CONFIRMED" => UNCHANGED seat[asked[o].seatId]
  <1>1. IInv /\ [Next]_vars => [Moves]_vars
    <2>. SUFFICES ASSUME IInv, Next
                  PROVE  Moves
      OBVIOUS
    <2>1. CASE UNCHANGED <<tables, input>>
      BY <2>1 DEF tables, input
    <2>2. ASSUME NEW o \in Orders, NEW a \in Answers, CreateCommit(o, a)
          PROVE  Moves
      BY <2>2, CreateCommitBoth
    <2>3. ASSUME NEW d \in Deliveries, pc[d] = "commit", HookWrites(d)
          PROVE  Moves
      BY <2>3, HookWritesBoth
    <2>. QED BY <2>1, <2>2, <2>3, OnlyCommitsWrite
  <1>. QED BY <1>1, Invariance, PTL DEF Spec, SettledForGood

\* The status column of the seats table is no more than what the orders say: who
\* reads the seats (SeatRepository.findAll) sees what the bookings of SeatBooking
\* imply, which is how the modules that compose it list them.
THEOREM SeatStatusDerived ==
    Spec => [](\A s \in Seats :
                  seat[s].status = IF LiveOrders(s) = {} THEN "AVAILABLE"
                                   ELSE IF \E o \in LiveOrders(s) : order[o] = "PENDING"
                                   THEN "RESERVED" ELSE "BOOKED")
  <1>. DEFINE Derived == \A s \in Seats :
                 seat[s].status = IF LiveOrders(s) = {} THEN "AVAILABLE"
                                  ELSE IF \E o \in LiveOrders(s) : order[o] = "PENDING"
                                  THEN "RESERVED" ELSE "BOOKED"
  <1>1. IInv => Derived
    <2>. SUFFICES ASSUME IInv, NEW s \in Seats
                  PROVE  seat[s].status = IF LiveOrders(s) = {} THEN "AVAILABLE"
                                  ELSE IF \E o \in LiveOrders(s) : order[o] = "PENDING"
                                  THEN "RESERVED" ELSE "BOOKED"
      OBVIOUS
    <2>1. seat[s].status \in {"AVAILABLE", "RESERVED", "BOOKED"}
      BY DEF IInv, TypeOK, Seat, SeatStatus
    <2>. QED BY <2>1 DEF IInv, SeatLedger
  <1>. QED BY <1>1, Invariance, PTL

------------------------------------------------------------------------------
(***************************************************************************)
(* Answers.                                                                *)
(***************************************************************************)
LEMMA PayloadsIdentified == Spec => []SameWebhookSamePayload
  <1>1. Init => SameWebhookSamePayload
    BY DEF Init
  <1>2. SameWebhookSamePayload /\ [Next]_vars => SameWebhookSamePayload'
    <2>1. Next => UNCHANGED input
      BY OnlyCommitsWrite DEF CreateCommit, HookWrites, input, tables
    <2>. QED BY <2>1 DEF SameWebhookSamePayload, vars, input
  <1>. QED BY <1>1, <1>2, PTL DEF Spec

\* A seat that is not AVAILABLE has a live order, and not this one.
LEMMA ConflictJustified ==
    ASSUME IInv, NEW o \in Orders, CreateConflict(o)
    PROVE  LiveOrders(asked[o].seatId) \ {o} # {}
  <1>. DEFINE s == asked[o].seatId
  <1>1. s \in Seats /\ seat[s].status \in {"RESERVED", "BOOKED"} /\ order[o] = "ABSENT"
    BY DEF IInv, TypeOK, CreateConflict, CreateChecked, Seat, SeatStatus
  <1>2. o \notin LiveOrders(s)
    BY <1>1 DEF LiveOrders
  <1>3. PICK p \in Orders : LiveOrders(s) = {p}
    BY <1>1 DEF IInv, SeatLedger
  <1>. QED BY <1>2, <1>3

\* A logged webhook has settled its order.
LEMMA LoggedIsSettled ==
    ASSUME IInv, NEW e \in webhookLog
    PROVE  order[OrderOf(e)] \in {"CONFIRMED", "FAILED"}
  <1>1. hook[e].status \in {"SUCCESS", "FAILED"} /\ hook[e].status \in PaymentStatus
    BY DEF IInv, TypeOK, HookChecked, PaymentStatus
  <1>. QED BY <1>1, MapsTyped DEF IInv, Settlement, LogMatches

\* Whatever makes a delivery end with 200 or 409 leaves no payment undecided.
LEMMA HookAnswerJustified ==
    ASSUME IInv, SameWebhookSamePayload, NEW d \in Deliveries,
           \/ HookAlreadyProcessed(d) \/ HookOrderNotFound(d)
           \/ HookConflict(d) \/ HookAudit(d)
    PROVE  \/ order[OrderOf(d)] \in {"ABSENT", "CONFIRMED", "FAILED"}
           \/ hook[d].status = "PENDING"
  <1>1. OrderOf(d) \in Orders /\ hook[d].status \in PaymentStatus
    BY DEF IInv, TypeOK, Payload, OrderOf
  <1>2. CASE HookAlreadyProcessed(d)
    <2>1. PICK e \in webhookLog : hook[e].webhookId = hook[d].webhookId
      BY <1>2 DEF HookAlreadyProcessed, Logged
    <2>2. hook[e] = hook[d]
      BY <2>1 DEF IInv, TypeOK, SameWebhookSamePayload
    <2>. QED BY <2>2, LoggedIsSettled DEF OrderOf
  <1>3. CASE HookOrderNotFound(d)
    BY <1>3 DEF HookOrderNotFound
  <1>4. CASE HookConflict(d)
    <2>1. order[OrderOf(d)] \in {"ABSENT", "PENDING", "CONFIRMED", "FAILED"}
      BY <1>1 DEF IInv, CreateChecked
    <2>2. \/ order[OrderOf(d)] # "PENDING"
          \/ mapPaymentStatusToOrderStatus(hook[d].status) \notin {"CONFIRMED", "FAILED"}
      BY <1>4 DEF HookConflict, validTransition
    <2>. QED BY <1>1, <2>1, <2>2, MapsTyped DEF PaymentStatus
  <1>5. CASE HookAudit(d)
    BY <1>5, LoggedIsSettled DEF IInv, HookChecked, HookAudit
  <1>. QED BY <1>2, <1>3, <1>4, <1>5

Replied(r, a) == reply' = [reply EXCEPT ![r] = a]

\* The answer each step gives.
LEMMA Replies ==
    /\ \A o \in Orders :
          /\ CreateBegin(o) \/ CreateLockSeat(o) => reply' = reply
          /\ CreateSeatNotFound(o) => Replied(o, "notFound")
          /\ CreateConflict(o) => Replied(o, "conflict")
          /\ CreateCommit(o, "ok") => Replied(o, "ok")
          /\ CreateCommitUnacknowledged(o) => Replied(o, "error")
    /\ \A d \in Deliveries :
          /\ HookBegin(d) \/ HookLockOrder(d) \/ HookLockSeat(d) \/ HookCommit(d)
                => reply' = reply
          /\ HookAlreadyProcessed(d) \/ HookOrderNotFound(d) \/ HookAudit(d)
                => Replied(d, "ok")
          /\ HookConflict(d) => Replied(d, "conflict")
          /\ HookCommitUnacknowledged(d) \/ HookAuditFails(d) => Replied(d, "error")
    /\ \A r \in Requests :
          /\ Serialization(r) => Replied(r, "serialization")
          /\ StatementFails(r) => Replied(r, "error")
  <1>. USE DEF Replied, Answer
  <1>1. ASSUME NEW o \in Orders
        PROVE  /\ CreateBegin(o) \/ CreateLockSeat(o) => reply' = reply
               /\ CreateSeatNotFound(o) => Replied(o, "notFound")
               /\ CreateConflict(o) => Replied(o, "conflict")
               /\ CreateCommit(o, "ok") => Replied(o, "ok")
               /\ CreateCommitUnacknowledged(o) => Replied(o, "error")
    BY DEF CreateBegin, CreateLockSeat, CreateSeatNotFound, CreateConflict, CreateCommit,
           CreateCommitUnacknowledged
  <1>2. ASSUME NEW d \in Deliveries
        PROVE  /\ HookBegin(d) \/ HookLockOrder(d) \/ HookLockSeat(d) \/ HookCommit(d)
                     => reply' = reply
               /\ HookAlreadyProcessed(d) \/ HookOrderNotFound(d) \/ HookAudit(d)
                     => Replied(d, "ok")
               /\ HookConflict(d) => Replied(d, "conflict")
               /\ HookCommitUnacknowledged(d) \/ HookAuditFails(d) => Replied(d, "error")
    BY DEF HookBegin, HookLockOrder, HookLockSeat, HookCommit, HookAlreadyProcessed,
           HookOrderNotFound, HookAudit, HookConflict, HookCommitUnacknowledged,
           HookAuditFails
  <1>3. ASSUME NEW r \in Requests
        PROVE  /\ Serialization(r) => Replied(r, "serialization")
               /\ StatementFails(r) => Replied(r, "error")
    BY DEF Serialization, StatementFails
  <1>. QED BY <1>1, <1>2, <1>3

LEMMA ReplyTyped == IInv => reply \in [Requests -> Answers \cup {"none"}]
  BY DEF IInv, TypeOK

\* A delivery is answered 200 or 409 by these steps only, a createOrder call 409
\* by CreateConflict only.
LEMMA WhoAnswers ==
    ASSUME IInv, Next, NEW r \in Requests, reply[r] = "none",
           reply'[r] \in {"ok", "conflict"}
    PROVE  /\ r \in Deliveries => \/ HookAlreadyProcessed(r) \/ HookOrderNotFound(r)
                                  \/ HookConflict(r) \/ HookAudit(r)
           /\ r \in Orders /\ reply'[r] = "conflict" => CreateConflict(r)
  <1>. DEFINE Goal == /\ r \in Deliveries => \/ HookAlreadyProcessed(r) \/ HookOrderNotFound(r)
                                             \/ HookConflict(r) \/ HookAudit(r)
                      /\ r \in Orders /\ reply'[r] = "conflict" => CreateConflict(r)
  <1>1. \A q \in Requests : \A a : Replied(q, a) => q = r /\ a \in {"ok", "conflict"}
    BY ReplyTyped DEF Replied
  <1>2. reply' # reply
    OBVIOUS
  <1>3. \A q \in Requests : \A a : Replied(q, a) => reply'[q] = a
    BY ReplyTyped DEF Replied
  <1>4. ASSUME NEW o \in Orders,
               CreateOrder(o) \/ CreateBegin(o) \/ CreateCommitUnacknowledged(o)
        PROVE  Goal
    <2>1. CreateConflict(o) \/ CreateCommit(o, "ok")
      BY <1>1, <1>2, <1>4, Replies DEF CreateOrder
    <2>2. o = r /\ (reply'[r] = "conflict" => ~CreateCommit(o, "ok"))
      BY <1>1, <1>3, <2>1, Replies
    <2>. QED BY <2>1, <2>2
  <1>5. ASSUME NEW d \in Deliveries,
               \/ HookAlreadyProcessed(d) \/ HookOrderNotFound(d) \/ HookBegin(d)
               \/ HookCommitUnacknowledged(d) \/ HookAuditFails(d) \/ ProcessWebhook(d)
        PROVE  Goal
    <2>1. \/ HookAlreadyProcessed(d) \/ HookOrderNotFound(d)
          \/ HookConflict(d) \/ HookAudit(d)
      BY <1>1, <1>2, <1>5, Replies DEF ProcessWebhook
    <2>2. d = r
      BY <1>1, <2>1, Replies
    <2>. QED BY <2>1, <2>2
  <1>6. \A q \in Requests : ~Serialization(q) /\ ~StatementFails(q)
    BY <1>1, Replies
  <1>7. ~Crash
    BY DEF Crash
  <1>8. ~Quiescent
    BY <1>2 DEF Quiescent, vars
  <1>. QED BY <1>4, <1>5, <1>6, <1>7, <1>8 DEF Next, Proceed

\* No payment outcome is dropped with a final answer, no buyer is turned away
\* from a free seat.  (createOrder, processWebhook)
THEOREM AnswersCorrect == Spec => AnswersJustified
  <1>. DEFINE Justified ==
         /\ \A o \in Orders : reply[o] = "none" /\ reply'[o] = "conflict" =>
               LiveOrders(asked[o].seatId) \ {o} # {}
         /\ \A d \in Deliveries : reply[d] = "none" /\ reply'[d] \in {"ok", "conflict"} =>
               \/ order[OrderOf(d)] \in {"ABSENT", "CONFIRMED", "FAILED"}
               \/ hook[d].status = "PENDING"
  <1>1. IInv /\ SameWebhookSamePayload /\ [Next]_vars => [Justified]_vars
    BY WhoAnswers, ConflictJustified, HookAnswerJustified
  <1>. QED BY <1>1, Invariance, PayloadsIdentified, PTL DEF Spec, AnswersJustified
==============================================================================
