CONSTANTS
    Seats = {s1, s2, s3}
    Orders = {o1, o2, o3}
    Accounts = {a1, a2}
    Consumers = {c1, c2}
    MaxRetries = 2
    NULL = NULL
    Faults = {"sendUnacknowledged", "sendFails", "orderServiceCrash", "callLost",
              "callFails", "ackFails", "ackSlow", "consumerCrash", "receiveLost",
              "webhookFails", "gatewayCrash"}
    MaxFaults = 2
SPECIFICATION Spec
SYMMETRY Symmetry
INVARIANTS
    TypeOK
    AccountSerial
    DeletedIsCharged
    RepeatsNeedFaults
