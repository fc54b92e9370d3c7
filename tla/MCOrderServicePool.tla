-------------------------- MODULE MCOrderServicePool --------------------------
(* OrderServicePool on small sets, with bookings that ask for a seat that
   exists, a read of two queries, and webhooks that settle: the first delivery
   is w1, by which the first order fails; the second one is a duplicate, one by
   which the first order succeeds, or one by which the other order fails. *)
EXTENDS OrderServicePool

CONSTANTS o1, d1, w1

MCInit == /\ PoolInit
          /\ \A o \in Orders : asked[o].seatId \in Seats
          /\ hook[d1] = [webhookId |-> w1, orderId |-> o1, status |-> "FAILED"]
          /\ \A d \in Deliveries \ {d1} : hook[d] # hook[d1] =>
                hook[d].status = IF hook[d].orderId = o1 THEN "SUCCESS" ELSE "FAILED"
          /\ \A r \in Reads : queries[r] = 2

MCSpec == MCInit /\ [][PoolNext]_poolVars /\ PoolFairness
==============================================================================
