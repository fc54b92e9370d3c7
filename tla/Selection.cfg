CONSTANTS
    Users = {alice, bob}
    Seats = {s1, s2}
    Orders = {o1, o2}
    NULL = NULL
    Faults = {"listFails", "rejected", "connectionLost", "unacknowledged"}
    MaxFaults = 1
    MaxVisits = 2
SPECIFICATION FairSpec
INVARIANTS
    TypeOK
    PageKnowsItsOrders
PROPERTY ConfirmationEnds
