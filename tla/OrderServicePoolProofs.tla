------------------------ MODULE OrderServicePoolProofs ------------------------
(***************************************************************************)
(* Theorems about OrderServicePool, for any number of requests, reads and  *)
(* clients: the pool changes nothing about the transactions, loses clients *)
(* only where processWebhook does, and comes to no standstill with the     *)
(* row locks.                                                              *)
(***************************************************************************)
EXTENDS OrderServicePool, OrderTransactionsRefinement, FiniteSetTheorems

USE OrderTransactionsAssumption, PoolAssumption DEF Requests, All

------------------------------------------------------------------------------
(***************************************************************************)
(* Composition.                                                            *)
(***************************************************************************)
LEMMA CarryIsNext ==
    ASSUME NEW r \in Requests, Carry(r)
    PROVE  Next
  <1>1. CASE Proceed(r)
    BY <1>1 DEF Next
  <1>2. CASE r \in Orders /\ CreateBegin(r)
    BY <1>2 DEF Next
  <1>3. CASE r \in Deliveries /\ (HookAlreadyProcessed(r) \/ HookOrderNotFound(r) \/ HookBegin(r))
    BY <1>3 DEF Next
  <1>. QED BY <1>1, <1>2, <1>3 DEF Carry, Begin

LEMMA FailureIsNext ==
    ASSUME NEW r \in Requests, CarryFails(r) \/ StartRefused(r)
    PROVE  Next
  <1>1. CASE StatementFails(r)
    BY <1>1 DEF Next
  <1>2. CASE r \in Orders /\ CreateCommitUnacknowledged(r)
    BY <1>2 DEF Next
  <1>3. CASE r \in Deliveries /\ (HookCommitUnacknowledged(r) \/ HookAuditFails(r))
    BY <1>3 DEF Next
  <1>. QED BY <1>1, <1>2, <1>3 DEF CarryFails, StartRefused

\* Whatever a pool of any size does, order-service does what OrderTransactions
\* says: waiting for clients, losing them and restarting add no behaviour.
\* (createOrder, processWebhook and the reads over the driver's pool)
THEOREM Composition == PoolSpec => TransactionsKept
  <1>1. PoolInit => Init
    BY DEF PoolInit
  <1>2. [PoolNext]_poolVars => [Next]_vars
    <2>1. ASSUME NEW r \in All, Arrive(r) \/ Connect(r)
          PROVE  UNCHANGED vars
      BY <2>1 DEF Arrive, Connect
    <2>2. ASSUME NEW r \in Reads, ReadQuery(r)
          PROVE  UNCHANGED vars
      BY <2>2 DEF ReadQuery
    <2>3. PoolCrash => Next \/ UNCHANGED vars
      BY DEF PoolCrash, Next
    <2>4. PoolQuiescent \/ UNCHANGED poolVars => UNCHANGED vars
      BY DEF PoolQuiescent, poolVars
    <2>. QED BY <2>1, <2>2, <2>3, <2>4, CarryIsNext, FailureIsNext DEF PoolNext
  <1>. QED BY <1>1, <1>2, PTL DEF PoolSpec, Spec, TransactionsKept

\* Hence what was proved of the transactions holds under the pool as well: the
\* abstract booking is implemented, the answers are justified, what is settled
\* stays so, the tables agree.
THEOREM PoolKeepsPromise ==
    PoolSpec => Promise /\ AnswersJustified /\ SettledForGood /\ []IInv
  BY Composition, Refinement, AnswersCorrect, SettledStays, Invariance, PTL
     DEF TransactionsKept

------------------------------------------------------------------------------
(***************************************************************************)
(* How many clients are in use.                                            *)
(***************************************************************************)
LEMMA NoMoreInUse ==
    ASSUME IsFiniteSet(InUse), Cardinality(InUse) \in 0 .. PoolSize,
           InUse' \subseteq InUse
    PROVE  IsFiniteSet(InUse)' /\ (Cardinality(InUse) \in 0 .. PoolSize)'
  BY FS_Subset, FS_CardinalityType

LEMMA OneMoreInUse ==
    ASSUME IsFiniteSet(InUse), Cardinality(InUse) \in 0 .. PoolSize,
           Cardinality(InUse) < PoolSize,
           NEW r, InUse' = InUse \cup {r}
    PROVE  IsFiniteSet(InUse)' /\ (Cardinality(InUse) \in 0 .. PoolSize)'
  <1>1. /\ IsFiniteSet(InUse \cup {r})
        /\ Cardinality(InUse \cup {r}) \in {Cardinality(InUse), Cardinality(InUse) + 1}
    BY FS_AddElement
  <1>2. Cardinality(InUse)' = Cardinality(InUse \cup {r})
    OBVIOUS
  <1>. QED BY <1>1, <1>2

------------------------------------------------------------------------------
(***************************************************************************)
(* What a step of one request does, and leaves alone.                      *)
(***************************************************************************)
LEMMA StepOfOne ==
    ASSUME IInv, NEW r \in Requests,
           Begin(r) \/ Proceed(r) \/ CarryFails(r) \/ StatementFails(r)
    PROVE  /\ \A q \in Requests : q # r => pc'[q] = pc[q] /\ reply'[q] = reply[q]
           /\ \A d \in Deliveries : d # r => /\ d \in webhookLog' <=> d \in webhookLog
                                             /\ auditLog'[d] = auditLog[d]
           /\ pc'[r] \in Running \cup {"audit", "done"}
  <1>. DEFINE Ours == /\ \A q \in Requests : q # r => pc'[q] = pc[q] /\ reply'[q] = reply[q]
                      /\ \A d \in Deliveries : d # r => /\ d \in webhookLog' <=> d \in webhookLog
                                                        /\ auditLog'[d] = auditLog[d]
                      /\ pc'[r] \in Running \cup {"audit", "done"}
  <1>. USE DEF Goto, Answer, tables, Running
  <1>1. /\ pc \in [Requests -> Running \cup {"idle", "audit", "done"}]
        /\ reply \in [Requests -> Answers \cup {"none"}]
        /\ auditLog \in [Deliveries -> AuditEntry \cup {NULL}]
    BY DEF IInv, TypeOK
  <1>2. CASE r \in Orders /\ (CreateBegin(r) \/ CreateOrder(r) \/ CreateCommitUnacknowledged(r))
    BY <1>1, <1>2 DEF CreateBegin, CreateOrder, CreateSeatNotFound, CreateConflict,
                      CreateLockSeat, CreateCommit, CreateCommitUnacknowledged
  <1>3. CASE r \in Deliveries /\ (HookAlreadyProcessed(r) \/ HookOrderNotFound(r) \/ HookBegin(r))
    BY <1>1, <1>3 DEF HookAlreadyProcessed, HookOrderNotFound, HookBegin
  <1>4. CASE r \in Deliveries /\ (HookConflict(r) \/ HookLockOrder(r) \/ HookLockSeat(r))
    BY <1>1, <1>4 DEF HookConflict, HookLockOrder, HookLockSeat
  <1>5. CASE r \in Deliveries /\ (HookCommit(r) \/ HookCommitUnacknowledged(r))
    BY <1>1, <1>5 DEF HookCommit, HookCommitUnacknowledged, HookWrites
  <1>6. CASE r \in Deliveries /\ (HookAudit(r) \/ HookAuditFails(r))
    BY <1>1, <1>6 DEF HookAudit, HookAuditFails
  <1>7. CASE Serialization(r) \/ StatementFails(r)
    BY <1>1, <1>7 DEF Serialization, StatementFails
  <1>. QED BY <1>2, <1>3, <1>4, <1>5, <1>6, <1>7
           DEF Begin, Proceed, CarryFails, ProcessWebhook

------------------------------------------------------------------------------
(***************************************************************************)
(* The inductive invariant.                                                *)
(***************************************************************************)
\* Initially every request is to come.
LEMMA PoolInitOK == PoolInit => PoolIInv
  <1>. SUFFICES ASSUME PoolInit
                PROVE  PoolIInv
    OBVIOUS
  <1>1. TypeOK
    BY InitIInv DEF PoolInit, IInv
  <1>2. InUse = {}
    BY DEF PoolInit, InUse
  <1>3. IsFiniteSet(InUse) /\ Cardinality(InUse) \in 0 .. PoolSize
    BY <1>2, FS_EmptySet
  <1>4. client \in [All -> Standings] /\ queries \in [Reads -> 1 .. 2]
    BY DEF PoolInit, Standings, queriesOf
  <1>5. ClientsReturned /\ Unbegun /\ ReadsLeft
    BY <1>4 DEF PoolInit, Init, ClientsReturned, Unbegun, ReadsLeft, Running
  <1>. QED BY <1>1, <1>3, <1>4, <1>5 DEF PoolIInv, PoolTypeOK

\* A step of a request that has its client, and keeps it or gives it up.
LEMMA StepKeepsPool ==
    ASSUME IInv, IInv', PoolIInv, NEW r \in Requests, client[r] = "held",
           Begin(r) \/ Proceed(r) \/ CarryFails(r) \/ StatementFails(r),
           NEW standing \in {"held", "returned", "leaked"},
           client' = [client EXCEPT ![r] = standing],
           pc'[r] # "done" => standing = "held",
           pc'[r] = "done" => \/ standing = "returned"
                              \/ /\ standing = "leaked"
                                 /\ r \in Deliveries \ webhookLog'
                                 /\ reply'[r] = "error" /\ auditLog'[r] = NULL,
           UNCHANGED queries
    PROVE  PoolIInv'
  <1>1. client' \in [All -> Standings] /\ client \in [All -> Standings]
    BY DEF PoolIInv, PoolTypeOK, Standings
  <1>2. InUse' \subseteq InUse
    BY <1>1 DEF InUse
  <1>3. \A q \in All : client'[q] = IF q = r THEN standing ELSE client[q]
    BY <1>1
  <1>4. ClientsReturned'
    <2>. SUFFICES ASSUME NEW q \in Requests
                  PROVE  /\ pc'[q] \in Running \cup {"audit"} => client'[q] = "held"
                         /\ pc'[q] = "done" /\ client'[q] # "returned" =>
                               /\ q \in Deliveries \ webhookLog'
                               /\ client'[q] = "leaked" /\ reply'[q] = "error"
                               /\ auditLog'[q] = NULL
      BY DEF ClientsReturned
    <2>1. CASE q = r
      BY <1>3, <2>1, StepOfOne DEF Running
    <2>2. CASE q # r
      BY <1>3, <2>2, StepOfOne DEF PoolIInv, ClientsReturned
    <2>. QED BY <2>1, <2>2
  <1>5. Unbegun' /\ ReadsLeft'
    BY <1>3, StepOfOne DEF PoolIInv, Unbegun, ReadsLeft
  <1>6. PoolTypeOK' /\ IsFiniteSet(InUse)'
    BY <1>1, <1>2, NoMoreInUse DEF PoolIInv, PoolTypeOK, IInv
  <1>. QED BY <1>4, <1>5, <1>6 DEF PoolIInv

LEMMA CarryKeepsPool ==
    ASSUME IInv, IInv', PoolIInv, NEW r \in Requests,
           Carry(r) \/ CarryFails(r) \/ StartRefused(r)
    PROVE  PoolIInv'
  <1>1. CASE Carry(r) \/ CarryFails(r)
    <2>. DEFINE standing == IF pc'[r] = "done" THEN "returned" ELSE "held"
    <2>1. client[r] = "held" /\ client' = [client EXCEPT ![r] = standing] /\ UNCHANGED queries
      BY <1>1 DEF Carry, CarryFails, GiveBack
    <2>. QED BY <1>1, <2>1, StepKeepsPool DEF Carry
  <1>2. CASE StartRefused(r)
    <2>. DEFINE standing == IF r \in Deliveries THEN "leaked" ELSE "returned"
    <2>1. /\ client[r] = "held" /\ client' = [client EXCEPT ![r] = standing]
          /\ UNCHANGED queries
          /\ pc[r] = "idle" /\ StatementFails(r)
      BY <1>2 DEF StartRefused
    <2>2. pc'[r] = "done" /\ reply'[r] = "error"
      BY <2>1 DEF StatementFails, Answer, Goto, IInv, TypeOK
    <2>3. r \in Deliveries => r \notin webhookLog' /\ auditLog'[r] = NULL
      BY <2>1 DEF StatementFails, Answer, tables, IInv, HookChecked, AuditTruthful
    <2>. QED BY <2>1, <2>2, <2>3, StepKeepsPool
  <1>. QED BY <1>1, <1>2

\* What the pool and the reads do by themselves.
LEMMA PoolStepsKeep ==
    ASSUME PoolIInv, UNCHANGED vars,
           \/ \E r \in All : Arrive(r) \/ Connect(r)
           \/ \E r \in Reads : ReadQuery(r)
    PROVE  PoolIInv'
  <1>. USE DEF Standings
  <1>1. PoolTypeOK /\ TypeOK' /\ client \in [All -> Standings] /\ queries \in [Reads -> 0 .. 2]
    BY DEF PoolIInv, PoolTypeOK, TypeOK, vars, tables, input
  <1>2. ASSUME NEW r \in All, Arrive(r)
        PROVE  PoolIInv'
    <2>1. InUse' \subseteq InUse
      BY <1>1, <1>2 DEF Arrive, InUse
    <2>2. client' \in [All -> Standings] /\ queries' \in [Reads -> 0 .. 2]
      BY <1>1, <1>2 DEF Arrive
    <2>3. ClientsReturned' /\ Unbegun' /\ ReadsLeft'
      BY <1>1, <1>2 DEF Arrive, PoolIInv, ClientsReturned, Unbegun, ReadsLeft, Running,
                        vars, tables
    <2>. QED BY <1>1, <2>1, <2>2, <2>3, NoMoreInUse DEF PoolIInv, PoolTypeOK
  <1>3. ASSUME NEW r \in All, Connect(r)
        PROVE  PoolIInv'
    <2>1. InUse' = InUse \cup {r}
      BY <1>1, <1>3 DEF Connect, InUse
    <2>2. client' \in [All -> Standings] /\ queries' \in [Reads -> 0 .. 2]
      BY <1>1, <1>3 DEF Connect
    <2>3. ClientsReturned' /\ Unbegun' /\ ReadsLeft'
      BY <1>1, <1>3 DEF Connect, PoolIInv, ClientsReturned, Unbegun, ReadsLeft, Running,
                        vars, tables
    <2>4. IsFiniteSet(InUse)' /\ (Cardinality(InUse) \in 0 .. PoolSize)'
      BY <1>3, <2>1, OneMoreInUse DEF Connect, PoolIInv, PoolTypeOK
    <2>. QED BY <1>1, <2>2, <2>3, <2>4 DEF PoolIInv, PoolTypeOK
  <1>4. ASSUME NEW r \in Reads, ReadQuery(r)
        PROVE  PoolIInv'
    <2>1. PICK left \in {0, queries[r] - 1} :
             /\ queries' = [queries EXCEPT ![r] = left]
             /\ client' = [client EXCEPT ![r] = IF left = 0 THEN "returned" ELSE "waiting"]
      BY <1>4 DEF ReadQuery
    <2>2. queries[r] \in 1 .. 2 /\ client[r] = "held"
      BY <1>1, <1>4 DEF ReadQuery, PoolIInv, ReadsLeft
    <2>3. left \in 0 .. 1
      BY <2>2
    <2>4. client' \in [All -> Standings] /\ queries' \in [Reads -> 0 .. 2]
      BY <1>1, <2>1, <2>3
    <2>5. InUse' \subseteq InUse
      BY <1>1, <2>1 DEF InUse
    <2>6. \A q \in Requests : client'[q] = client[q]
      BY <1>1, <2>1
    <2>7. ClientsReturned' /\ Unbegun'
      BY <2>6 DEF PoolIInv, ClientsReturned, Unbegun, vars, tables
    <2>8. ReadsLeft'
      BY <1>1, <2>1, <2>3 DEF PoolIInv, ReadsLeft
    <2>. QED BY <1>1, <2>4, <2>5, <2>7, <2>8, NoMoreInUse DEF PoolIInv, PoolTypeOK
  <1>. QED BY <1>2, <1>3, <1>4

LEMMA CrashKeepsPool ==
    ASSUME IInv, IInv', PoolIInv, PoolCrash
    PROVE  PoolIInv'
  <1>1. client' = [r \in All |-> IF client[r] = "unasked" THEN "unasked" ELSE "returned"]
    BY DEF PoolCrash
  <1>2. client' \in [All -> Standings] /\ UNCHANGED queries
    BY <1>1 DEF PoolCrash, Standings
  <1>3. InUse' \subseteq InUse
    BY <1>1 DEF InUse
  <1>4. \A r \in Requests : /\ pc'[r] \notin Running \cup {"audit"}
                            /\ pc[r] = "idle" => pc'[r] = "idle"
    BY DEF PoolCrash, Crash, Running, IInv, TypeOK, vars
  <1>5. ClientsReturned' /\ Unbegun'
    BY <1>1, <1>4 DEF PoolIInv, ClientsReturned, Unbegun
  <1>6. ReadsLeft'
    BY <1>1, <1>2 DEF PoolIInv, ReadsLeft
  <1>. QED BY <1>2, <1>3, <1>5, <1>6, NoMoreInUse DEF PoolIInv, PoolTypeOK, IInv

\* The pool's invariant, on top of that of the transactions.
THEOREM PoolInvariance == PoolSpec => []PoolIInv
  <1>1. PoolInit => PoolIInv
    BY PoolInitOK
  <1>2. IInv /\ IInv' /\ PoolIInv /\ [PoolNext]_poolVars => PoolIInv'
    <2>. SUFFICES ASSUME IInv, IInv', PoolIInv, [PoolNext]_poolVars
                  PROVE  PoolIInv'
      OBVIOUS
    <2>1. ASSUME NEW r \in All, Arrive(r) \/ Connect(r)
          PROVE  PoolIInv'
      BY <2>1, PoolStepsKeep DEF Arrive, Connect
    <2>2. ASSUME NEW r \in Reads, ReadQuery(r)
          PROVE  PoolIInv'
      BY <2>2, PoolStepsKeep DEF ReadQuery
    <2>3. CASE PoolQuiescent \/ UNCHANGED poolVars
      BY <2>3 DEF PoolQuiescent, poolVars, vars, tables, input, PoolIInv, PoolTypeOK, TypeOK,
                  InUse, ClientsReturned, Unbegun, ReadsLeft
    <2>. QED BY <2>1, <2>2, <2>3, CarryKeepsPool, CrashKeepsPool DEF PoolNext
  <1>. QED BY <1>1, <1>2, PoolKeepsPromise, PTL DEF PoolSpec

\* The variables of the pool keep their types, and no client is handed out that is
\* not there.  (the driver's pool)
THEOREM PoolTypeCorrect == PoolSpec => []PoolTypeOK
  <1>1. PoolIInv => PoolTypeOK
    BY DEF PoolIInv
  <1>. QED BY <1>1, PoolInvariance, PTL

\* Clients come back on every way out of a request but one, where nothing was
\* written.  (release, dataSource.transaction, startTransaction before the try)
THEOREM ClientsCorrect == PoolSpec => []ClientsReturned
  <1>1. PoolIInv => ClientsReturned
    BY DEF PoolIInv
  <1>. QED BY <1>1, PoolInvariance, PTL

\* However few clients there are, a wait for a row ends with somebody who needs
\* neither a row nor a client to commit.  (createOrder, processWebhook)
THEOREM WaitsCorrect == PoolSpec => []WaitsEnd
  <1>1. PoolIInv => WaitsEnd
    <2>. SUFFICES ASSUME PoolIInv, NEW r \in Requests, NEW q \in Requests, BlockedBy(r, q)
                  PROVE  /\ client[q] = "held"
                         /\ \A p \in Requests :
                               BlockedBy(q, p) => client[p] = "held" /\ pc[p] = "commit"
      BY DEF WaitsEnd
    <2>1. \A p \in Requests : pc[p] \in {"lockSeat", "commit"} => client[p] = "held"
      BY DEF PoolIInv, ClientsReturned, Running
    <2>2. pc[q] \in {"lockSeat", "commit"}
      BY DEF BlockedBy, HoldsOrder, HoldsSeat
    <2>3. \A p \in Requests : BlockedBy(q, p) => pc[p] = "commit"
      BY <2>2 DEF BlockedBy, HoldsSeat
    <2>. QED BY <2>1, <2>2, <2>3
  <1>. QED BY <1>1, PoolInvariance, PTL
=============================================================================
