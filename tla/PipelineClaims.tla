---------------------------- MODULE PipelineClaims ----------------------------
(***************************************************************************)
(* What documents of the repository say of the payment pipeline, and the   *)
(* code does not do.  Refuted by a run.                                    *)
(***************************************************************************)
EXTENDS PaymentPipeline

\* .clinerules/review-task.md:90, "SQS FIFO partitioned by accountId -> no two
\* payments for same account run in parallel".  POST /pay answers as soon as the
\* payment has started, so the next message follows.  (processMessage)
NoParallelPayments ==
    \A o, p \in Orders :
       o # p /\ account[o] = account[p] => running[o] = 0 \/ running[p] = 0
==============================================================================
