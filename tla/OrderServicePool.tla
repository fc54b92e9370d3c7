--------------------------- MODULE OrderServicePool ---------------------------
(***************************************************************************)
(* The PostgreSQL connection pool of order-service under the transactions  *)
(* of OrderTransactions and the read requests beside them.  The data       *)
(* source sets neither a size nor a waiting time, so the driver's apply: a *)
(* few clients, and a request that finds none waits without limit.         *)
(* processWebhook keeps its client until its finally block, hence also     *)
(* while it waits for row locks and while MongoDB writes the audit entry;  *)
(* a plain query takes a client and gives it back, so findWithPayment      *)
(* queues twice.  A request that waits for a row holds a client, and the   *)
(* request that will free the row may be waiting for one: the pool and the *)
(* row locks together must not bring each other to a standstill.           *)
(***************************************************************************)
EXTENDS OrderTransactions, Naturals

CONSTANTS Reads,     \* requests that only read
          PoolSize,  \* the driver's number of clients
          MayRefuse  \* whether PostgreSQL may refuse to start a transaction

ASSUME PoolAssumption == /\ Reads \cap Requests = {}
                         /\ PoolSize \in Nat \ {0}
                         /\ MayRefuse \in BOOLEAN

VARIABLES client,    \* where each request stands with the pool
          queries    \* the queries each read request still has to make

poolVars == <<vars, client, queries>>

All == Requests \cup Reads

SeatReads == {"getSeats", "getSeatById"}
OrderReads == {"getOrder", "getOrderStatus"}

\* findWithPayment asks for the order and then for its payment.
queriesOf(read) == IF read = "getOrderStatus" THEN 2 ELSE 1

PoolInit ==
    /\ Init
    /\ client = [r \in All |-> "unasked"]
    /\ \E read \in [Reads -> SeatReads \cup OrderReads] :
          queries = [r \in Reads |-> queriesOf(read[r])]

\* Clients in use; "leaked" is a client whose request is over and that nobody
\* will ever give back.
InUse == {r \in All : client[r] \in {"held", "leaked"}}
Leaked == {r \in All : client[r] = "leaked"}

\* A request reaches its handler, which asks the pool for a client.
Arrive(r) == /\ client[r] = "unasked"
             /\ client' = [client EXCEPT ![r] = "waiting"]
             /\ UNCHANGED <<vars, queries>>

\* The pool hands out a client that is free.
Connect(r) == /\ client[r] = "waiting"
              /\ Cardinality(InUse) < PoolSize
              /\ client' = [client EXCEPT ![r] = "held"]
              /\ UNCHANGED <<vars, queries>>

\* A faulty variant: the client is given back at the end of the try block.
GiveBackOnSuccess(r) ==
    client' = [client EXCEPT ![r] = IF pc'[r] # "done" THEN @
                                    ELSE IF reply'[r] = "ok" THEN "returned"
                                    ELSE "leaked"]

\* finally { queryRunner.release() }, on every way out of the handler.
GiveBack(r) ==
    client' = [client EXCEPT ![r] = IF pc'[r] = "done" THEN "returned" ELSE @]

\* The handler's first statements, and those that follow.
Begin(r) == \/ r \in Orders /\ CreateBegin(r)
            \/ /\ r \in Deliveries
               /\ HookAlreadyProcessed(r) \/ HookOrderNotFound(r) \/ HookBegin(r)

Carry(r) == /\ client[r] = "held"
            /\ Begin(r) \/ Proceed(r)
            /\ GiveBack(r)
            /\ UNCHANGED queries

\* What may go wrong while the client is held.
CarryFails(r) == /\ client[r] = "held"
                 /\ \/ StatementFails(r)
                    \/ r \in Orders /\ CreateCommitUnacknowledged(r)
                    \/ /\ r \in Deliveries
                       /\ HookCommitUnacknowledged(r) \/ HookAuditFails(r)
                 /\ GiveBack(r)
                 /\ UNCHANGED queries

\* A faulty variant: the refusal is caught and the request answered 200.
StartRefusedSwallowed(r) ==
    /\ MayRefuse
    /\ client[r] = "held"
    /\ pc[r] = "idle"
    /\ Answer(r, "ok")
    /\ client' = [client EXCEPT ![r] = "returned"]
    /\ UNCHANGED queries

\* START TRANSACTION or SET TRANSACTION is refused on a connection that stays
\* up.  createOrder's transaction() gives the client back; processWebhook throws
\* before its try block and never does.
StartRefused(r) ==
    /\ MayRefuse
    /\ client[r] = "held"
    /\ pc[r] = "idle"
    /\ StatementFails(r)
    /\ client' = [client EXCEPT ![r] = IF r \in Deliveries THEN "leaked"
                                       ELSE "returned"]
    /\ UNCHANGED queries

\* A faulty variant: the second query is the last whatever came before.
ReadQueryCountsDown(r) ==
    /\ client[r] = "held"
    /\ queries' = [queries EXCEPT ![r] = @ - 1]
    /\ client' = [client EXCEPT ![r] = IF queries[r] = 0 THEN "returned" ELSE "waiting"]
    /\ UNCHANGED vars

\* One query of a read request.  It waits for no row lock.  findWithPayment
\* returns after the first if there is no such order.
ReadQuery(r) ==
    /\ client[r] = "held"
    /\ \E left \in {0, queries[r] - 1} :
          /\ left = 0 /\ queries[r] = 2 => \E o \in Orders : order[o] = "ABSENT"
          /\ queries' = [queries EXCEPT ![r] = left]
          /\ client' = [client EXCEPT ![r] = IF left = 0 THEN "returned" ELSE "waiting"]
    /\ UNCHANGED vars

\* The process dies, and the pool with it: whoever waited or was served is
\* gone, and the process that replaces it starts with free clients.
PoolCrash ==
    /\ "crash" \in Faults
    /\ Crash \/ (UNCHANGED vars /\ \A r \in Requests : pc[r] \in {"idle", "done"})
    /\ client' = [r \in All |-> IF client[r] = "unasked" THEN "unasked" ELSE "returned"]
    /\ client' # client
    /\ UNCHANGED queries

PoolQuiescent == /\ \A r \in All : \/ client[r] \in {"returned", "leaked"}
                                   \/ client[r] = "waiting" /\ Cardinality(Leaked) = PoolSize
                 /\ UNCHANGED poolVars

PoolNext == \/ \E r \in All : Arrive(r) \/ Connect(r)
            \/ \E r \in Requests : Carry(r) \/ CarryFails(r) \/ StartRefused(r)
            \/ \E r \in Reads : ReadQuery(r)
            \/ PoolCrash
            \/ PoolQuiescent

\* Clients are handed out while there are any, and the handlers that have one
\* are carried on.
PoolFairness == /\ \A r \in All : WF_poolVars(Connect(r))
                /\ \A r \in Requests : WF_poolVars(Carry(r))
                /\ \A r \in Reads : WF_poolVars(ReadQuery(r))

PoolSpec == PoolInit /\ [][PoolNext]_poolVars /\ PoolFairness

------------------------------------------------------------------------------
(***************************************************************************)
(* Properties.                                                             *)
(***************************************************************************)
Standings == {"unasked", "waiting", "held", "leaked", "returned"}

\* Every variable has its type, and no more clients are in use than there are.
PoolTypeOK ==
    /\ TypeOK
    /\ client \in [All -> Standings]
    /\ queries \in [Reads -> 0 .. 2]
    /\ Cardinality(InUse) \in 0 .. PoolSize

\* A request inside its transaction, or at its audit, has its client; one that is
\* over has given it back.  The exception is a delivery that could not start its
\* transaction: its client is lost, but it wrote nothing and its sender was told,
\* so that the webhook may come again.  (the finally block of processWebhook and
\* its startTransaction before the try, dataSource.transaction in createOrder)
ClientsReturned ==
    \A r \in Requests :
       /\ pc[r] \in Running \cup {"audit"} => client[r] = "held"
       /\ pc[r] = "done" /\ client[r] # "returned" =>
             /\ r \in Deliveries \ webhookLog
             /\ client[r] = "leaked" /\ reply[r] = "error" /\ auditLog[r] = NULL

\* Request r waits for a row that q has locked.
BlockedBy(r, q) ==
    \/ pc[r] = "lockOrder" /\ HoldsOrder(q, OrderOf(r))
    \/ /\ pc[r] = "lockSeat"
       /\ HoldsSeat(q, IF r \in Orders THEN asked[r].seatId ELSE SeatOf(r))

\* Pool and row locks cannot bring each other to a standstill: whoever has a row
\* that another one waits for has a client too, and waits itself for nothing but
\* a row of somebody who is about to commit, client in hand.  (createOrder locks
\* the seat, processWebhook the order and then the seat, both before they write)
WaitsEnd ==
    \A r, q \in Requests : BlockedBy(r, q) =>
       /\ client[q] = "held"
       /\ \A p \in Requests : BlockedBy(q, p) => client[p] = "held" /\ pc[p] = "commit"

\* Whatever the pool does to them, being short of clients, losing them, or dying,
\* the requests are those of OrderTransactions, and all it promises is kept.
TransactionsKept == Spec

\* A client outlives its request only where processWebhook could not start its
\* transaction; and as long as the pool has not lost all its clients that way,
\* every request, also the second query of a read, gets one and is answered,
\* although others keep theirs while they wait for rows, for each other and for
\* the audit.  (every exit path of createOrder, processWebhook and the reads)
EveryRequestServed ==
    \A r \in All :
       client[r] = "waiting" ~> \/ client[r] = "returned"
                                \/ client[r] = "leaked" /\ reply[r] = "error"
                                \/ Cardinality(Leaked) = PoolSize

------------------------------------------------------------------------------
(***************************************************************************)
(* Why the safety properties hold: the inductive invariant, in parts.      *)
(***************************************************************************)
\* A request without a client has not begun.
Unbegun == \A r \in Requests : client[r] \in {"unasked", "waiting"} => pc[r] = "idle"

\* Only deliveries lose clients, and a read that is not over has a query to make.
ReadsLeft == \A r \in Reads : /\ client[r] # "leaked"
                              /\ client[r] # "returned" => queries[r] > 0

\* The inductive invariant, on top of that of the transactions.
PoolIInv == /\ PoolTypeOK
            /\ IsFiniteSet(InUse)
            /\ ClientsReturned
            /\ Unbegun
            /\ ReadsLeft
==============================================================================
