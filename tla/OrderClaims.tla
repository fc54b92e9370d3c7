----------------------------- MODULE OrderClaims -----------------------------
(***************************************************************************)
(* What a document of the repository says of createOrder, and the code     *)
(* does not do.  Refuted by a run.                                         *)
(***************************************************************************)
EXTENDS OrderTransactions

\* .clinerules/review-task.md:110, "Double booking attempt -> ConflictError from
\* SELECT FOR UPDATE": without faults, a createOrder call that does not get its
\* (existing) seat gets the conflict.  The loser of a race gets PostgreSQL's
\* serialization failure instead.  (createOrder)
LoserGetsConflict ==
    \A o \in Orders : pc[o] = "done" => reply[o] \in {"ok", "conflict", "notFound"}
==============================================================================
