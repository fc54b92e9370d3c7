CONSTANTS
    Seats = {s1}
    Orders = {o1, o2}
    Deliveries = {d1}
    Webhooks = {w1}
    Users = {alice}
    NULL = NULL
    Faults = {}
SPECIFICATION Spec
INVARIANT LoserGetsConflict
