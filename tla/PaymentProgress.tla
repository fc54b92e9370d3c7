--------------------------- MODULE PaymentProgress ---------------------------
(***************************************************************************)
(* The page that follows an order after it is placed (PaymentProgressView) *)
(* with the order service's answer to its polls (findWithPayment).  The    *)
(* page polls from an effect: one poll at once, and a chain of polls, each *)
(* armed by a timer when the one before it has ended.  All its loops share *)
(* one abort flag and one timer reference.                                 *)
(*                                                                         *)
(* React is modelled from how the page uses it: the state set by a handler *)
(* is one update, and effects run later, when a dependency changed; timers *)
(* and answers may come in between.  A click is handled with all earlier   *)
(* effects run.  getToken keeps its identity, so only isPolling restarts   *)
(* the polling effect.                                                     *)
(***************************************************************************)
EXTENDS Integers

CONSTANTS NULL,        \* the absent value
          MaxClicks,   \* BOUND: clicks on Retry
          MaxFailures  \* BOUND: polls that fail

\* What the effects depend on.
Deps == [isPolling : BOOLEAN, isComplete : BOOLEAN, error : BOOLEAN]

ASSUME PaymentProgressAssumption ==
    /\ MaxClicks \in Nat
    /\ MaxFailures \in Nat
    /\ NULL \notin Nat \cup Deps

\* A loop is one run of the polling effect: it has a poll sent at once and a
\* chain of polls, of which one at most is under way.
Loops == 1 .. MaxClicks + 1
Polls == Loops \X {"immediate", "chained"}

VARIABLES
    order, payment,  \* the status of the order and of its payment
    poll,            \* the polls under way
    timers,          \* the loops whose timer is armed
    pollRef,         \* the loop that armed a timer last
    abort,           \* abortRef
    view,            \* the React state of the page
    effected,        \* the dependencies the effects last ran with
    loops,           \* the number of loops started
    page,            \* "shown", "leaving" (Back was clicked) or "gone"
    clicks, failures

backend == <<order, payment>>
limits == <<clicks, failures>>
vars == <<backend, poll, timers, pollRef, abort, view, effected, loops, page, limits>>

Final == {"CONFIRMED", "FAILED"}
OrderStatus == {"PENDING"} \cup Final
PaymentStatus == {"PENDING", "SUCCESS", "FAILED"}

View == [isPolling : BOOLEAN, isComplete : BOOLEAN, error : BOOLEAN,
         current : 0 .. 2, completed : -1 .. 2]

PollState == [at : {"off", "sent", "orderRead", "answered"},
              order : OrderStatus \cup {NULL}, payment : PaymentStatus \cup {NULL}]
NoPoll == [at |-> "off", order |-> NULL, payment |-> NULL]
Sent == [NoPoll EXCEPT !.at = "sent"]

dependencies == [isPolling |-> view.isPolling, isComplete |-> view.isComplete,
                 error |-> view.error]
EffectsRun == effected = dependencies

\* What the page shows, and which buttons: Back with "success" and "error",
\* Retry with "error"; the others are spinners.
card == CASE view.isComplete                       -> "success"
          [] ~view.isComplete /\ view.error        -> "error"
          [] ~view.isComplete /\ ~view.error
                /\ ~view.isPolling                 -> "initializing"
          [] OTHER                                 -> "processing"

\* Every variable has the type the page and the entities give it.
TypeOK ==
    /\ order \in OrderStatus /\ payment \in PaymentStatus
    /\ poll \in [Polls -> PollState]
    /\ timers \subseteq Loops
    /\ pollRef \in Loops \cup {NULL}
    /\ abort \in BOOLEAN
    /\ view \in View
    /\ effected \in Deps \cup {NULL}
    /\ loops \in {0} \cup Loops
    /\ page \in {"shown", "leaving", "gone"}
    /\ clicks \in 0 .. MaxClicks /\ failures \in 0 .. MaxFailures

\* The page is mounted for an order just placed; no effect has run yet.
Init ==
    /\ order = "PENDING" /\ payment = "PENDING"
    /\ poll = [p \in Polls |-> NoPoll]
    /\ timers = {}
    /\ pollRef = NULL
    /\ abort = FALSE
    /\ view = [isPolling |-> FALSE, isComplete |-> FALSE, error |-> FALSE,
               current |-> 0, completed |-> -1]
    /\ effected = NULL
    /\ loops = 0
    /\ page = "shown"
    /\ clicks = 0 /\ failures = 0

------------------------------------------------------------------------------
(***************************************************************************)
(* order-service.                                                          *)
(***************************************************************************)
\* processWebhook commits the order and its payment together, once.
Settle ==
    /\ order = "PENDING"
    /\ \/ order' = "CONFIRMED" /\ payment' = "SUCCESS"
       \/ order' = "FAILED" /\ payment' = "FAILED"
    /\ UNCHANGED <<poll, timers, pollRef, abort, view, effected, loops, page, limits>>

\* findWithPayment is two queries, each on the tables as they are then.
ReadOrder(p) ==
    /\ poll[p].at = "sent"
    /\ poll' = [poll EXCEPT ![p].at = "orderRead", ![p].order = order]
    /\ UNCHANGED <<backend, timers, pollRef, abort, view, effected, loops, page, limits>>

ReadPayment(p) ==
    /\ poll[p].at = "orderRead"
    /\ poll' = [poll EXCEPT ![p].at = "answered", ![p].payment = payment]
    /\ UNCHANGED <<backend, timers, pollRef, abort, view, effected, loops, page, limits>>

------------------------------------------------------------------------------
(***************************************************************************)
(* The page: effects.                                                      *)
(***************************************************************************)
\* clearTimeout(pollRef.current): at most one timer is cleared.
Cleared == timers \ {pollRef}

\* The two effects with changing dependencies, after a render that changed one:
\* the cleanup of the polling effect, the start of polling, the polling effect.
\* Only the latter cares for isPolling alone.
Effects ==
    LET wasPolling == effected # NULL /\ effected.isPolling
        starts == ~view.isPolling /\ ~view.isComplete /\ ~view.error
        begins == view.isPolling /\ ~wasPolling /\ ~abort
        ends == ~view.isPolling /\ wasPolling
    IN
    /\ page # "gone"
    /\ ~EffectsRun
    /\ effected' = dependencies
    /\ view' = [view EXCEPT !.isPolling = @ \/ starts]
    /\ abort' = (abort /\ ~starts)
    /\ loops' = IF begins THEN loops + 1 ELSE loops
    /\ poll' = IF begins THEN [poll EXCEPT ![<<loops + 1, "immediate">>] = Sent] ELSE poll
    /\ timers' = CASE begins -> timers \cup {loops + 1}
                   [] ends   -> Cleared
                   [] OTHER  -> timers
    /\ pollRef' = CASE begins -> loops + 1
                    [] ends   -> NULL
                    [] OTHER  -> pollRef
    /\ UNCHANGED <<backend, page, limits>>

------------------------------------------------------------------------------
(***************************************************************************)
(* The page: polls.                                                        *)
(***************************************************************************)
\* A timer fires: pollStatus sends a poll, unless the page was left.
FireTimer(l) ==
    /\ l \in timers
    /\ timers' = timers \ {l}
    /\ poll' = IF abort THEN poll ELSE [poll EXCEPT ![<<l, "chained">>] = Sent]
    /\ UNCHANGED <<backend, pollRef, abort, view, effected, loops, page, limits>>

\* A faulty variant: the next poll is scheduled only while the last one worked.
EndPollStopsAfterFailure(p) ==
    LET again == p[2] = "chained" /\ ~abort /\ poll[p].at = "answered" IN
    /\ poll' = [poll EXCEPT ![p] = NoPoll]
    /\ timers' = IF again THEN timers \cup {p[1]} ELSE timers
    /\ pollRef' = IF again THEN p[1] ELSE pollRef

\* The poll's promise is fulfilled: a chained one arms the timer of the next,
\* whether or not the page is still polling.
EndPoll(p) ==
    LET again == p[2] = "chained" /\ ~abort IN
    /\ poll' = [poll EXCEPT ![p] = NoPoll]
    /\ timers' = IF again THEN timers \cup {p[1]} ELSE timers
    /\ pollRef' = IF again THEN p[1] ELSE pollRef

\* Faulty variants: a payment that exists completes its step, as the comments
\* have it; the confirmed step is the fourth.
stepsPaymentExists(o, p) == IF o = "CONFIRMED" THEN 3 ELSE 2
stepsOffByOne(o, p) == IF o = "CONFIRMED" /\ p = "SUCCESS" THEN 4 ELSE 1

\* deriveStepStatus, for an order that is not FAILED: the steps completed.
steps(o, p) ==
    CASE p = "SUCCESS" /\ o = "CONFIRMED" -> 3
      [] p = "SUCCESS" /\ o # "CONFIRMED" -> 2
      [] OTHER                            -> 1

\* A faulty variant: each answer sets the outcome anew, also one that comes late.
AdvancedAnew(o, p) ==
    [view EXCEPT !.error = (o = "FAILED"), !.isComplete = (steps(o, p) >= 3)]

\* What pollStatus makes of an answer.
Advanced(o, p) ==
    IF o = "FAILED"
    THEN [view EXCEPT !.error = TRUE, !.isPolling = FALSE]
    ELSE LET n == steps(o, p) IN
         [view EXCEPT !.current = IF n >= 2 THEN 2 ELSE 1,
                      !.completed = n - 1,
                      !.isComplete = @ \/ n >= 3,
                      !.isPolling = @ /\ n < 3]

\* The answer arrives; an answer to a page that was left is dropped.
TakeAnswer(p) ==
    /\ poll[p].at = "answered"
    /\ view' = IF abort THEN view ELSE Advanced(poll[p].order, poll[p].payment)
    /\ EndPoll(p)
    /\ UNCHANGED <<backend, abort, effected, loops, page, limits>>

\* No token, no connection or an error status: logged, to be retried.
PollFails(p) ==
    /\ failures < MaxFailures
    /\ poll[p].at # "off"
    /\ failures' = failures + 1
    /\ EndPoll(p)
    /\ UNCHANGED <<backend, abort, view, effected, loops, page, clicks>>

------------------------------------------------------------------------------
(***************************************************************************)
(* The page: the user.                                                     *)
(***************************************************************************)
\* A faulty variant: the flag is not lowered again after Cancel.
RetryWithoutReset ==
    /\ clicks < MaxClicks
    /\ page # "gone" /\ EffectsRun
    /\ card = "error"
    /\ clicks' = clicks + 1
    /\ view' = [view EXCEPT !.error = FALSE, !.isComplete = FALSE, !.isPolling = TRUE]
    /\ UNCHANGED <<backend, poll, timers, pollRef, abort, effected, loops, page, failures>>

\* handleRetry: the button is there while an error is shown.
Retry ==
    /\ clicks < MaxClicks
    /\ page # "gone" /\ EffectsRun
    /\ card = "error"
    /\ clicks' = clicks + 1
    /\ view' = [view EXCEPT !.error = FALSE, !.isComplete = FALSE, !.isPolling = TRUE]
    /\ abort' = FALSE
    /\ UNCHANGED <<backend, poll, timers, pollRef, effected, loops, page, failures>>

\* handleBack: the button is there when the order is settled; the navigation is
\* a transition, the page stays a while.
Back ==
    /\ page = "shown" /\ EffectsRun
    /\ card \in {"success", "error"}
    /\ page' = "leaving"
    /\ abort' = TRUE
    /\ view' = [view EXCEPT !.isPolling = FALSE]
    /\ timers' = Cleared
    /\ pollRef' = NULL
    /\ UNCHANGED <<backend, poll, effected, loops, limits>>

\* A faulty variant: the page clears its timer and leaves the flag alone.
UnmountWithoutAbort ==
    /\ page # "gone"
    /\ page' = "gone"
    /\ timers' = Cleared
    /\ pollRef' = NULL
    /\ UNCHANGED <<backend, poll, abort, view, effected, loops, limits>>

\* The navigation arrives, or the user follows another link of the layout.
Unmount ==
    /\ page # "gone"
    /\ page' = "gone"
    /\ abort' = TRUE
    /\ timers' = Cleared
    /\ pollRef' = NULL
    /\ UNCHANGED <<backend, poll, view, effected, loops, limits>>

\* Nothing is left of the page.
Quiescent == /\ page = "gone"
             /\ timers = {}
             /\ \A p \in Polls : poll[p].at = "off"
             /\ UNCHANGED vars

Serve(p) == ReadOrder(p) \/ ReadPayment(p) \/ TakeAnswer(p)

Next ==
    \/ Settle
    \/ \E p \in Polls : Serve(p) \/ PollFails(p)
    \/ \E l \in Loops : FireTimer(l)
    \/ Effects
    \/ Retry \/ Back \/ Unmount
    \/ Quiescent

Spec == Init /\ [][Next]_vars

\* The browser runs effects and timers, and a poll that does not fail is
\* answered; the user and the payment are free not to act.
FairSpec == /\ Spec
            /\ WF_vars(Effects)
            /\ \A p \in Polls : WF_vars(Serve(p))
            /\ \A l \in Loops : WF_vars(FireTimer(l))

------------------------------------------------------------------------------
(***************************************************************************)
(* Properties.                                                             *)
(***************************************************************************)
\* What the page says is so: success is shown for a confirmed order, an error
\* for a failed one, a completed payment step for a payment that succeeded,
\* although the order and the payment are read at different moments and the
\* answers arrive in any order.  (findWithPayment, pollStatus)
ShownIsTrue ==
    /\ card = "success" => order = "CONFIRMED"
    /\ card = "error" => order = "FAILED"
    /\ view.completed >= 1 => payment = "SUCCESS"

\* While the page shows a spinner, a next poll is under way or its timer armed:
\* no failure, late answer or click leaves a spinner nobody will ever update.
\* (the polling effect, scheduleNext, handleRetry)
NeverStalls ==
    page = "shown" /\ EffectsRun /\ card \in {"initializing", "processing"} =>
       /\ ~abort
       /\ \E l \in Loops : l \in timers \/ poll[<<l, "chained">>].at # "off"

\* A page that was left sends no poll and shows nothing more, although only one
\* of the timers of its loops was cleared.  (the unmount effect, pollStatus)
QuietAfterLeaving ==
    [][page = "gone" => /\ view' = view
                        /\ \A p \in Polls : poll'[p].at = "sent" => poll[p].at = "sent"]_vars

\* What has become of the order, and what of it the page shows.
fateOf(status) == CASE status = "CONFIRMED" -> "confirmed"
                    [] status = "FAILED"    -> "failed"
                    [] OTHER                -> "pending"
outcomeShown == IF card \in {"initializing", "processing"} THEN "spinner" ELSE card

Promised == INSTANCE PaymentPage WITH
    fate <- fateOf(order),
    shown <- outcomeShown,
    open <- page # "gone"

\* Polls, timers, effects and flags together make the simple page the user is
\* meant to have: an outcome once shown is never taken back by a late answer, a
\* timer or an effect, only by a click on Retry, and nothing is shown to nobody.
\* (PaymentProgressView)
Promise == Promised!Spec

\* A settled order is eventually shown as such, whatever polls failed and
\* however often the user retried, unless the user leaves.  (pollStatus)
SettledIsShown ==
    /\ order = "CONFIRMED" ~> card = "success" \/ page = "gone"
    /\ order = "FAILED" ~> card = "error" \/ page = "gone"
==============================================================================
