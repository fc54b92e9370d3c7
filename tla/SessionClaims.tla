---------------------------- MODULE SessionClaims ----------------------------
(***************************************************************************)
(* What the payment page says of itself, and does not keep when the router *)
(* gives a mounted page another order.  Refuted by a run.                  *)
(***************************************************************************)
EXTENDS WebSession

\* PaymentProgressView.tsx:66, "Displays a step-by-step payment progress flow
\* driven by real order and payment status from the backend": "Reservation
\* Confirmed!" is shown for an order that is confirmed.  An answer that comes
\* late, or the back button, changes the order of the mounted page, and its
\* isComplete stays.  (PaymentProgressView)
DrivenByRealStatus ==
    view.component = "/payment-progress" /\ view.outcome = "complete" /\ here.orderId # NULL
       => fate[here.orderId] = "confirmed"
==============================================================================
