--------------------------- MODULE PaymentPipeline ---------------------------
(***************************************************************************)
(* How an order gets paid: order-service publishes a message after its     *)
(* transaction (SqsProducerService), the SQS FIFO queue hands it to a      *)
(* payment-service consumer (SqsConsumerService), which calls the gateway  *)
(* with retries (PaymentGatewayService) and deletes the message; the       *)
(* gateway runs the payment on its own and posts a webhook back, which     *)
(* settles the order.  The transactions of order-service are the actions   *)
(* of SeatBooking, which OrderTransactions implements.                     *)
(*                                                                         *)
(* The queue is modelled from how the code uses it: messages of one group  *)
(* (the account) are delivered in order, a received message hides its      *)
(* group until it is deleted or its visibility timeout passes, a message   *)
(* with a deduplication id (the order) already accepted is dropped, and a  *)
(* receipt is void once the timeout has passed.                            *)
(***************************************************************************)
EXTENDS Naturals, SequencesExt

CONSTANTS Seats, Orders, Accounts,
          Consumers,     \* the payment-service instances
          MaxRetries,    \* attempts of one processPayment call of the gateway client
          NULL,          \* the absent value
          Faults,        \* which faults may happen: a subset of FaultKinds
          MaxFaults      \* BOUND: how many faults happen in a behaviour

FaultKinds == {"sendUnacknowledged", "sendFails", "orderServiceCrash",
               "callLost", "callFails", "ackFails", "ackSlow", "consumerCrash",
               "receiveLost", "webhookFails", "gatewayCrash"}

ASSUME PaymentPipelineAssumption ==
    /\ MaxRetries \in Nat \ {0}
    /\ MaxFaults \in Nat
    /\ Faults \subseteq FaultKinds
    /\ NULL \notin Orders \cup Consumers

VARIABLES
    holder, fate,  \* the bookings, see SeatBooking
    account,       \* account[o]: the account of order o
    outbox,        \* the orders whose message order-service is still sending
    sent,          \* every message the queue accepted, in order
    queue,         \* the messages not yet deleted, in order
    receiver,      \* receiver[o]: the consumer that holds a valid receipt for o
    consumer,      \* what each consumer is doing
    payments,      \* every payment the gateway accepted, in order
    running,       \* running[o]: payments of o the gateway is still working on
    aborted,       \* history: the orders of which PostgreSQL aborted a webhook
    faults         \* how many faults have happened

bookings == <<holder, fate>>
producer == <<outbox, sent>>
gateway == <<payments, running, aborted>>
vars == <<bookings, account, producer, queue, receiver, consumer, gateway, faults>>

Booking == INSTANCE SeatBooking

Idle == [pc |-> "idle", order |-> NULL, retry |-> 0]
Calling(o, n) == [pc |-> "calling", order |-> o, retry |-> n]
Acking(o) == [pc |-> "acking", order |-> o, retry |-> 0]

\* What a consumer may be doing.
Doings == {Idle} \cup {Calling(o, n) : o \in Orders, n \in 0 .. MaxRetries - 1}
                 \cup {Acking(o) : o \in Orders}

InQueue(o) == o \in ToSet(queue)

\* Every variable has the type the messages and the services give it.
TypeOK ==
    /\ Booking!TypeOK
    /\ account \in [Orders -> Accounts]
    /\ outbox \subseteq Orders
    /\ sent \in Seq(Orders) /\ queue \in Seq(Orders) /\ payments \in Seq(Orders)
    /\ receiver \in [Orders -> Consumers \cup {NULL}]
    /\ consumer \in [Consumers -> Doings]
    /\ running \in [Orders -> Nat]
    /\ aborted \subseteq Orders
    /\ faults \in 0 .. MaxFaults

Init ==
    /\ Booking!Init
    /\ account \in [Orders -> Accounts]
    /\ outbox = {}
    /\ sent = <<>> /\ queue = <<>> /\ payments = <<>>
    /\ receiver = [o \in Orders |-> NULL]
    /\ consumer = [c \in Consumers |-> Idle]
    /\ running = [o \in Orders |-> 0]
    /\ aborted = {}
    /\ faults = 0

Fault(kind) == /\ kind \in Faults
               /\ faults < MaxFaults
               /\ faults' = faults + 1

NoFault == UNCHANGED faults

------------------------------------------------------------------------------
(***************************************************************************)
(* order-service: the order is committed, then its message is sent without *)
(* waiting for the outcome; several sends may be under way.                *)
(***************************************************************************)
CreateOrder(o, s) ==
    /\ Booking!Reserve(o, s)
    /\ outbox' = outbox \cup {o}
    /\ NoFault
    /\ UNCHANGED <<account, sent, queue, receiver, consumer, gateway>>

\* The queue takes the message, unless it took one for this order before.
Accept(o) ==
    IF o \in ToSet(sent)
    THEN UNCHANGED <<sent, queue>>
    ELSE sent' = Append(sent, o) /\ queue' = Append(queue, o)

Send(o) ==
    /\ o \in outbox
    /\ Accept(o)
    /\ outbox' = outbox \ {o}
    /\ NoFault
    /\ UNCHANGED <<bookings, account, receiver, consumer, gateway>>

\* The queue took the message but the answer was lost: the client sends again.
SendUnacknowledged(o) ==
    /\ o \in outbox
    /\ Fault("sendUnacknowledged")
    /\ Accept(o)
    /\ UNCHANGED <<bookings, account, outbox, receiver, consumer, gateway>>

\* The message is given up after the client's own retries: an error is logged.
SendFails(o) ==
    /\ o \in outbox
    /\ Fault("sendFails")
    /\ outbox' = outbox \ {o}
    /\ UNCHANGED <<bookings, account, sent, queue, receiver, consumer, gateway>>

\* The process dies: the messages it was sending exist nowhere else.
OrderServiceCrash ==
    /\ outbox # {}
    /\ Fault("orderServiceCrash")
    /\ outbox' = {}
    /\ UNCHANGED <<bookings, account, sent, queue, receiver, consumer, gateway>>

------------------------------------------------------------------------------
(***************************************************************************)
(* The queue, and the consumer loop of payment-service: one message at a   *)
(* time, deleted only after the gateway took the payment.                  *)
(***************************************************************************)
FirstOfGroup(o) ==
    \E i \in DOMAIN queue :
       /\ queue[i] = o
       /\ \A j \in 1 .. i - 1 : account[queue[j]] # account[o]

\* A faulty variant: the message is received without becoming invisible.
DeliverableWhileHeld(o) == FirstOfGroup(o)

Deliverable(o) == FirstOfGroup(o) /\ receiver[o] = NULL

Receive(c, o) ==
    /\ consumer[c].pc = "idle"
    /\ Deliverable(o)
    /\ receiver' = [receiver EXCEPT ![o] = c]
    /\ consumer' = [consumer EXCEPT ![c] = Calling(o, 0)]
    /\ NoFault
    /\ UNCHANGED <<bookings, account, producer, queue, gateway>>

\* The queue handed the message out, the consumer never got the answer.
ReceiveLost(c, o) ==
    /\ consumer[c].pc = "idle"
    /\ Deliverable(o)
    /\ Fault("receiveLost")
    /\ receiver' = [receiver EXCEPT ![o] = c]
    /\ UNCHANGED <<bookings, account, producer, queue, consumer, gateway>>

\* POST /pay: the gateway starts a payment, whatever it did for the order before.
Charge(o) == /\ payments' = Append(payments, o)
             /\ running' = [running EXCEPT ![o] = @ + 1]
             /\ UNCHANGED aborted

CallGateway(c) ==
    LET o == consumer[c].order IN
    /\ consumer[c].pc = "calling"
    /\ Charge(o)
    /\ consumer' = [consumer EXCEPT ![c] = Acking(o)]
    /\ NoFault
    /\ UNCHANGED <<bookings, account, producer, queue, receiver>>

\* Faulty variants: the last attempt is acknowledged like a success; the retries
\* never end.
NextAttemptThenAck(c) ==
    consumer' = [consumer EXCEPT ![c] =
                   IF @.retry < MaxRetries - 1 THEN Calling(@.order, @.retry + 1)
                                               ELSE Acking(@.order)]
NextAttemptUnbounded(c) ==
    consumer' = [consumer EXCEPT ![c] = Calling(@.order, @.retry + 1)]

\* A failed attempt: retry, or give up and leave the message to its timeout.
NextAttempt(c) ==
    consumer' = [consumer EXCEPT ![c] =
                   IF @.retry < MaxRetries - 1 THEN Calling(@.order, @.retry + 1)
                                               ELSE Idle]

\* The gateway started the payment, but the call timed out or broke.
CallLost(c) ==
    /\ consumer[c].pc = "calling"
    /\ Fault("callLost")
    /\ Charge(consumer[c].order)
    /\ NextAttempt(c)
    /\ UNCHANGED <<bookings, account, producer, queue, receiver>>

CallFails(c) ==
    /\ consumer[c].pc = "calling"
    /\ Fault("callFails")
    /\ NextAttempt(c)
    /\ UNCHANGED <<bookings, account, producer, queue, receiver, gateway>>

\* The message of order o leaves the queue.
Delete(o) == \E i \in DOMAIN queue : queue[i] = o /\ queue' = RemoveAt(queue, i)

\* DeleteMessage: without effect when the receipt is no longer valid.
Ack(c) ==
    LET o == consumer[c].order IN
    /\ consumer[c].pc = "acking"
    /\ consumer' = [consumer EXCEPT ![c] = Idle]
    /\ IF receiver[o] = c
       THEN /\ Delete(o)
            /\ receiver' = [receiver EXCEPT ![o] = NULL]
       ELSE UNCHANGED <<queue, receiver>>
    /\ NoFault
    /\ UNCHANGED <<bookings, account, producer, gateway>>

\* A delete that fails is logged and forgotten.
AckFails(c) ==
    /\ consumer[c].pc = "acking"
    /\ Fault("ackFails")
    /\ consumer' = [consumer EXCEPT ![c] = Idle]
    /\ UNCHANGED <<bookings, account, producer, queue, receiver, gateway>>

\* The delete (which has no timeout) outlasts the visibility of the message.
AckSlow(c) ==
    LET o == consumer[c].order IN
    /\ consumer[c].pc = "acking"
    /\ receiver[o] = c
    /\ Fault("ackSlow")
    /\ receiver' = [receiver EXCEPT ![o] = NULL]
    /\ UNCHANGED <<bookings, account, producer, queue, consumer, gateway>>

ConsumerCrash(c) ==
    /\ consumer[c].pc # "idle"
    /\ Fault("consumerCrash")
    /\ consumer' = [consumer EXCEPT ![c] = Idle]
    /\ UNCHANGED <<bookings, account, producer, queue, receiver, gateway>>

\* Faulty variants: an undeleted message is never handed out again; the retries
\* outlast the visibility timeout.
VisibilityTimeoutNever(o) == receiver[o] # NULL /\ UNCHANGED vars
VisibilityTimeoutAnyTime(o) ==
    /\ receiver[o] # NULL
    /\ receiver' = [receiver EXCEPT ![o] = NULL]
    /\ NoFault
    /\ UNCHANGED <<bookings, account, producer, queue, consumer, gateway>>

\* The longest a consumer is busy with the gateway, in seconds: every attempt
\* runs into its timeout of 5 s, and attempt n is followed by a wait of n s.
secondsCalling == 5 * MaxRetries + (MaxRetries * (MaxRetries - 1)) \div 2

\* A receipt becomes void after VisibilityTimeout = 30 s; not while the consumer
\* is still calling the gateway, if the attempts take less (18 s for three).
VisibilityTimeout(o) ==
    /\ receiver[o] # NULL
    /\ consumer[receiver[o]].order # o \/ secondsCalling >= 30
    /\ receiver' = [receiver EXCEPT ![o] = NULL]
    /\ NoFault
    /\ UNCHANGED <<bookings, account, producer, queue, consumer, gateway>>

------------------------------------------------------------------------------
(***************************************************************************)
(* The gateway, and the webhook it posts back (always SUCCESS, once).      *)
(***************************************************************************)
\* processWebhook settles a pending order and refuses a settled one.
Webhook(o) ==
    /\ running[o] > 0
    /\ running' = [running EXCEPT ![o] = @ - 1]
    /\ \/ Booking!Confirm(o)
       \/ fate[o] # "pending" /\ UNCHANGED bookings
    /\ NoFault
    /\ UNCHANGED <<account, producer, queue, receiver, consumer, payments, aborted>>

\* Another SERIALIZABLE transaction may be under way beside a webhook of o: a
\* second webhook of o, one of another order, or the booking of one.
Overlapped(o) == \/ running[o] > 1
                 \/ \E p \in Orders \ {o} : running[p] > 0 \/ fate[p] = "none"

\* PostgreSQL aborts one of the two (40001), also when they are about different
\* orders: processWebhook reads payments by order_id, which has no index, and both
\* write.  The handler answers 500; the gateway logs it and does not send again.
WebhookAborted(o) ==
    /\ running[o] > 0
    /\ Overlapped(o)
    /\ running' = [running EXCEPT ![o] = @ - 1]
    /\ aborted' = aborted \cup {o}
    /\ NoFault
    /\ UNCHANGED <<bookings, account, producer, queue, receiver, consumer, payments>>

\* The webhook is lost, refused or fails: an error is logged, it is not resent.
WebhookFails(o) ==
    /\ running[o] > 0
    /\ Fault("webhookFails")
    /\ running' = [running EXCEPT ![o] = @ - 1]
    /\ UNCHANGED <<bookings, account, producer, queue, receiver, consumer, payments, aborted>>

\* The payments the gateway runs are timers in its memory.
GatewayCrash ==
    /\ \E o \in Orders : running[o] > 0
    /\ Fault("gatewayCrash")
    /\ running' = [o \in Orders |-> 0]
    /\ UNCHANGED <<bookings, account, producer, queue, receiver, consumer, payments, aborted>>

\* Nothing is under way anywhere.
Quiescent == /\ outbox = {} /\ queue = <<>>
             /\ \A c \in Consumers : consumer[c] = Idle
             /\ \A o \in Orders : running[o] = 0
             /\ UNCHANGED vars

Next ==
    \/ \E o \in Orders : \/ \E s \in Seats : CreateOrder(o, s)
                         \/ Send(o) \/ SendUnacknowledged(o) \/ SendFails(o)
                         \/ VisibilityTimeout(o)
                         \/ Webhook(o) \/ WebhookAborted(o) \/ WebhookFails(o)
    \/ \E c \in Consumers : \/ \E o \in Orders : Receive(c, o) \/ ReceiveLost(c, o)
                            \/ CallGateway(c) \/ CallLost(c) \/ CallFails(c)
                            \/ Ack(c) \/ AckFails(c) \/ AckSlow(c)
                            \/ ConsumerCrash(c)
    \/ OrderServiceCrash
    \/ GatewayCrash
    \/ Quiescent

Spec == Init /\ [][Next]_vars

\* What is under way goes on: sends, polls, calls, deletes, timeouts, timers; a
\* webhook's transaction ends one way or the other.
Fairness ==
    /\ \A o \in Orders : /\ WF_vars(Send(o))
                         /\ WF_vars(VisibilityTimeout(o))
                         /\ WF_vars(Webhook(o) \/ WebhookAborted(o))
    /\ \A c \in Consumers : /\ WF_vars(\E o \in Orders : Receive(c, o))
                            /\ WF_vars(CallGateway(c) \/ Ack(c))

FairSpec == Spec /\ Fairness

------------------------------------------------------------------------------
(***************************************************************************)
(* Properties.                                                             *)
(***************************************************************************)
\* p was accepted by the queue no later than q.
SentBefore(p, q) ==
    \E i, j \in DOMAIN sent : i <= j /\ sent[i] = p /\ sent[j] = q

\* The payments of one account reach the gateway in the order its messages
\* reached the queue, repeated ones included: once a later order was charged, no
\* retry, redelivery or stale receipt charges an earlier one.  (MessageGroupId =
\* accountId, consumeMessages, PaymentGatewayService.processPayment)
AccountSerial ==
    \A i, j \in DOMAIN payments :
       i < j /\ account[payments[i]] = account[payments[j]] =>
          SentBefore(payments[i], payments[j])

\* A message leaves the queue only once the gateway took its payment: no
\* failure of the consumer loses one.  (processMessage, acknowledgeMessage)
DeletedIsCharged == ToSet(sent) \subseteq ToSet(queue) \cup ToSet(payments)

\* Without a fault nobody pays twice: each repeated payment is owed to a fault
\* of its own, however many consumers poll.  (visibility, deduplication)
RepeatsNeedFaults ==
    Len(payments) <= Cardinality(ToSet(payments)) + faults

\* The seat is never lost between the services: an unpaid order is being sent,
\* queued or paid, unless PostgreSQL aborted its webhook, its message or its webhook
\* was given up, or the process that held it died.  (createOrder's fire and forget,
\* processWebhook's rethrow, callWebhook's catch)
NothingForgotten ==
    Faults \cap {"sendFails", "orderServiceCrash", "webhookFails", "gatewayCrash"} = {}
    => \A o \in Orders : fate[o] = "pending" =>
          o \in outbox \/ InQueue(o) \/ running[o] > 0 \/ o \in aborted

\* If only the payment service and the queue fail now and then, every order is
\* paid and its seat sold, but for those whose webhook met another transaction and
\* was aborted: nobody sends it again, and the seat may be blocked for ever.  (the
\* whole pipeline)
EveryOrderIsPaid ==
    \A o \in Orders : fate[o] = "pending" ~> fate[o] = "confirmed" \/ o \in aborted

\* Whatever fails, a message the queue took is consumed: paid for and deleted.
\* (startConsuming, consumeMessages: no exit from the loop)
EveryMessageIsConsumed ==
    \A o \in Orders : InQueue(o) ~> ~InQueue(o)
==============================================================================
