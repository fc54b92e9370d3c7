----------------------------- MODULE SeatBooking -----------------------------
(***************************************************************************)
(* What the booking system promises, without transactions, locks, queues   *)
(* or services: a seat is held by at most one booking, a booking holds its *)
(* seat from the moment it is made, and its payment settles it once, for   *)
(* good, either way.  OrderTransactions and PaymentPipeline implement it.  *)
(***************************************************************************)
CONSTANTS Seats,    \* the seats on sale
          Orders    \* the orders that may ever be made

VARIABLES holder,   \* holder[s]: the live orders of seat s
          fate      \* fate[o]: what has become of order o

vars == <<holder, fate>>

Fates == {"none", "pending", "confirmed", "failed"}

TypeOK == /\ holder \in [Seats -> SUBSET Orders]
          /\ fate \in [Orders -> Fates]

Init == /\ holder = [s \in Seats |-> {}]
        /\ fate = [o \in Orders |-> "none"]

\* createOrder commits: the seat was free and now belongs to the new order.
Reserve(o, s) == /\ fate[o] = "none"
                 /\ holder[s] = {}
                 /\ holder' = [holder EXCEPT ![s] = {o}]
                 /\ fate' = [fate EXCEPT ![o] = "pending"]

\* The payment succeeded: the order keeps its seat for ever.
Confirm(o) == /\ fate[o] = "pending"
              /\ fate' = [fate EXCEPT ![o] = "confirmed"]
              /\ UNCHANGED holder

\* The payment failed: the order gives its seat back.
Release(o) == /\ fate[o] = "pending"
              /\ fate' = [fate EXCEPT ![o] = "failed"]
              /\ holder' = [s \in Seats |-> holder[s] \ {o}]

Next == \E o \in Orders : \/ \E s \in Seats : Reserve(o, s)
                          \/ Confirm(o)
                          \/ Release(o)

Spec == Init /\ [][Next]_vars
==============================================================================
