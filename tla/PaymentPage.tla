----------------------------- MODULE PaymentPage -----------------------------
(***************************************************************************)
(* What the payment page promises about its order, without polls, timers,  *)
(* effects or flags: a spinner until the order is settled, then what it    *)
(* was settled as, until the user retries a failed one or goes; and what   *)
(* was shown last stays when the user is gone.  PaymentProgress implements *)
(* it, and so does a page of WebSession while it has one order.            *)
(***************************************************************************)
VARIABLES fate,   \* what has become of the order
          shown,  \* what the page shows
          open    \* whether the page is there

vars == <<fate, shown, open>>

TypeOK == /\ fate \in {"pending", "confirmed", "failed"}
          /\ shown \in {"spinner", "success", "error"}
          /\ open \in BOOLEAN

Init == /\ fate = "pending"
        /\ shown = "spinner"
        /\ open = TRUE

\* processWebhook commits.
Settle == /\ fate = "pending"
          /\ fate' \in {"confirmed", "failed"}
          /\ UNCHANGED <<shown, open>>

\* The user learns of it.
Show == /\ open
        /\ shown = "spinner"
        /\ \/ fate = "confirmed" /\ shown' = "success"
           \/ fate = "failed" /\ shown' = "error"
        /\ UNCHANGED <<fate, open>>

\* The button of the error.
Retry == /\ open
         /\ shown = "error"
         /\ shown' = "spinner"
         /\ UNCHANGED <<fate, open>>

Leave == /\ open
         /\ open' = FALSE
         /\ UNCHANGED <<fate, shown>>

Next == Settle \/ Show \/ Retry \/ Leave

Spec == Init /\ [][Next]_vars
==============================================================================
