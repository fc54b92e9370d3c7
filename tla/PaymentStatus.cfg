CONSTANTS
    Seats = {s1}
    Orders = {o1, o2}
    Updates = {u1, u2, u3}
    NULL = NULL
    MayFail = TRUE
SPECIFICATION Spec
INVARIANTS
    TypeOK
    PaymentAgrees
    SeatsSafeIfPending
PROPERTIES
    OverwritesWhatItMet
    BookingsKeptIfPending
