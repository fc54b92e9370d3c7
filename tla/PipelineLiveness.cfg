CONSTANTS
    Seats = {s1, s2}
    Orders = {o1, o2}
    Accounts = {a1}
    Consumers = {c1, c2}
    MaxRetries = 2
    NULL = NULL
    Faults = {"sendUnacknowledged", "callLost", "callFails", "ackFails", "ackSlow",
              "consumerCrash", "receiveLost"}
    MaxFaults = 3
SPECIFICATION FairSpec
INVARIANT NothingForgotten
PROPERTIES
    EveryOrderIsPaid
    EveryMessageIsConsumed
