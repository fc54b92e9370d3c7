---------------------------- MODULE ProgressClaims ----------------------------
(***************************************************************************)
(* What the comments of PaymentProgressView say of the page, and the page  *)
(* does not do.                                                            *)
(***************************************************************************)
EXTENDS PaymentProgress

\* "Polling loop: poll every POLL_INTERVAL while isPolling is true"
\* (PaymentProgressView.tsx:209).  Once the polling effect has been cleaned up
\* because isPolling is false, no poll is sent.
PollsOnlyWhilePolling ==
    [][effected # NULL /\ ~effected.isPolling =>
          \A p \in Polls : poll'[p].at = "sent" => \/ poll[p].at = "sent"
                                                   \/ effected'.isPolling]_vars
===============================================================================
