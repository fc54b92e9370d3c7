CONSTANTS
    Seats = {s1}
    Orders = {o1, o2}
    Deliveries = {d1, d2, d3}
    Webhooks = {w1, w2, w3}
    Users = {alice}
    NULL = NULL
    Faults = {"statement", "commit", "audit", "crash"}
SPECIFICATION MCSpec
SYMMETRY Symmetry
INVARIANTS
    TypeOK
    SeatLedger
    Settlement
    AuditTruthful
    IInv
PROPERTIES
    AnswersJustified
    SettledForGood
    Promise
