------------------------- MODULE MCOrderTransactions -------------------------
(* OrderTransactions on small sets of model values.  Among the inputs at most
   one is odd: a booking of a seat that does not exist, or a webhook with the
   status PENDING. *)
EXTENDS OrderTransactions, TLC

Symmetry == Permutations(Seats) \cup Permutations(Orders)
            \cup Permutations(Deliveries) \cup Permutations(Webhooks)

Odd == {o \in Orders : asked[o].seatId \notin Seats}
       \cup {d \in Deliveries : hook[d].status = "PENDING"}

MCInit == Init /\ \A x, y \in Odd : x = y

MCSpec == MCInit /\ [][Next]_vars
==============================================================================
