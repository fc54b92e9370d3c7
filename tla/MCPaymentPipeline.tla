-------------------------- MODULE MCPaymentPipeline --------------------------
(* PaymentPipeline on small sets of model values. *)
EXTENDS PaymentPipeline, TLC

Symmetry == Permutations(Seats) \cup Permutations(Orders)
            \cup Permutations(Accounts) \cup Permutations(Consumers)
==============================================================================
