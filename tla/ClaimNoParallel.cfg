CONSTANTS
    Seats = {s1, s2}
    Orders = {o1, o2}
    Accounts = {a1}
    Consumers = {c1}
    MaxRetries = 3
    NULL = NULL
    Faults = {}
    MaxFaults = 1
SPECIFICATION Spec
INVARIANT NoParallelPayments
