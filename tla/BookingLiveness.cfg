CONSTANTS
    o1 = o1
    d1 = d1
    w1 = w1
    Seats = {s1}
    Orders = {o1, o2}
    Deliveries = {d1, d2}
    Webhooks = {w1, w2}
    Users = {alice}
    NULL = NULL
    Faults = {"statement", "commit", "audit", "crash"}
    Reads = {q1}
    PoolSize = 2
    MayRefuse = TRUE
SPECIFICATION MCSpec
INVARIANTS
    PoolTypeOK
    ClientsReturned
    WaitsEnd
PROPERTIES
    TransactionsKept
    EveryRequestServed
