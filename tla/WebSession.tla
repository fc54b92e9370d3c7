------------------------------ MODULE WebSession ------------------------------
(***************************************************************************)
(* One browser tab: who is signed in (Clerk), where the tab is (React      *)
(* Router's history), which page is mounted there, the confirmations under *)
(* way, and the gateway and order-service behind them.  The seats and the  *)
(* details of polling are the subject of SeatSelection and PaymentProgress;*)
(* here they are the background of what happens when the user moves about  *)
(* while answers are under way.                                            *)
(*                                                                         *)
(* The libraries are modelled from how the code uses them: a page is       *)
(* mounted anew when the router renders another component, and keeps its   *)
(* state when only location.state changed; history entries keep their      *)
(* state, over a reload as well; a reload ends all that was under way.     *)
(***************************************************************************)
EXTENDS Naturals, Sequences

CONSTANTS Users,
          Orders,      \* POST /api/orders requests, and the orders they make
          NULL,        \* the absent value
          MaxHistory,  \* BOUND: entries the browser remembers
          MaxLoads     \* BOUND: full page loads

Paths == {"/", "/booking", "/payment-progress", "/sign-in"}
Entry == [path : Paths, orderId : Orders \cup {NULL}]

\* What the gateway puts into the headers, and order-service stores.
Identity == [userId : Users, accountId : Users]

\* A confirmation: who clicked, the token it was sent with, how far it is, and
\* whether the JavaScript that waits for it is.
Request == [clicked : Users, token : Users \cup {NULL},
            step : {"getToken", "sent", "created", "error"}, alive : BOOLEAN]

ASSUME WebSessionAssumption ==
    /\ NULL \notin Users \cup Orders \cup Paths \cup Identity \cup Request
    /\ "anonymous" \notin Users
    /\ MaxHistory \in Nat \ {0}
    /\ MaxLoads \in Nat

VARIABLES
    auth,     \* useAuth(): isLoaded, and the user of the session
    history,  \* the entries of the tab: the path and location.state.orderId
    at,       \* the current entry
    view,     \* the mounted component and its state
    request,  \* request[o]: the confirmation o, NULL if not made yet
    owner,    \* the identity order-service stored with each order
    fate,     \* what has become of each order
    loads

location == <<history, at>>
backend == <<owner, fate>>
vars == <<auth, location, view, request, backend, loads>>

Page(path) == [path |-> path, orderId |-> NULL]
here == history[at]

\* isBooking is TRUE while the page waits for a confirmation; outcome is
\* isComplete or error; polls are the orders whose answers are under way;
\* orders are those the mounted page has been given so far.
View == [component : Paths \cup {"Loading", "Navigate"},
         waitsFor : Orders \cup {NULL},
         outcome : {"none", "complete", "failed"},
         polls : SUBSET Orders,
         orders : SUBSET Orders]

\* Every variable has the type the pages and handlers give it; no order is
\* stored without the identity of a user.
TypeOK ==
    /\ auth \in [isLoaded : BOOLEAN, user : Users \cup {NULL}]
    /\ history \in Seq(Entry)
    /\ Len(history) <= MaxHistory
    /\ at \in 1 .. Len(history)
    /\ view \in View
    /\ request \in [Orders -> Request \cup {NULL}]
    /\ owner \in [Orders -> Identity \cup {NULL}]
    /\ fate \in [Orders -> {"none", "pending", "confirmed", "failed"}]
    /\ loads \in 0 .. MaxLoads

------------------------------------------------------------------------------
(***************************************************************************)
(* What the router renders.                                                *)
(***************************************************************************)
\* The <Navigate> a component renders instead of itself, NULL if none.
RootRedirect(a) == IF a.user # NULL THEN "/booking" ELSE "/sign-in"

ProtectedRoute(a) == IF a.user = NULL THEN "/sign-in" ELSE NULL

\* A faulty variant: the form sends everybody on to the booking page.
SignInViewAlways(a) == "/booking"

SignInView(a) == IF a.user # NULL THEN "/booking" ELSE NULL

Navigate(a, e) ==
    IF ~a.isLoaded THEN NULL
    ELSE CASE e.path = "/"        -> RootRedirect(a)
           [] e.path = "/sign-in" -> SignInView(a)
           [] OTHER               -> ProtectedRoute(a)

\* The component at entry e for a session a.
App(a, e) == IF ~a.isLoaded THEN "Loading"
             ELSE IF Navigate(a, e) # NULL THEN "Navigate" ELSE e.path

\* Where the tab is sent without the user: by <Navigate>, or by the effect of
\* the payment page when it has no order.
redirectsTo(a, e) ==
    IF App(a, e) = "/payment-progress" /\ e.orderId = NULL THEN "/booking"
    ELSE Navigate(a, e)

Mount(component, ids) == [component |-> component, waitsFor |-> NULL,
                          outcome |-> "none", polls |-> {}, orders |-> ids]

\* A faulty variant: the state of the page is kept in Layout, which stays.
RenderKeepingOutcome(a, e) ==
    LET ids == {e.orderId} \ {NULL} IN
    view' = IF App(a, e) = view.component
            THEN [view EXCEPT !.orders = @ \cup ids]
            ELSE [Mount(App(a, e), ids) EXCEPT !.outcome = view.outcome]

\* React renders entry e for session a: the same component keeps its state.
Render(a, e) ==
    LET ids == {e.orderId} \ {NULL} IN
    view' = IF App(a, e) = view.component
            THEN [view EXCEPT !.orders = @ \cup ids]
            ELSE Mount(App(a, e), ids)

\* navigate(path, {state}) of React Router; the browser forgets old entries.
Push(e) == LET longer == Append(SubSeq(history, 1, at), e) IN
           /\ history' = IF Len(longer) > MaxHistory THEN Tail(longer) ELSE longer
           /\ at' = Len(history')
           /\ Render(auth, e)

\* navigate(path, {replace: true}), <Navigate replace />: no location.state.
Redirect ==
    LET path == redirectsTo(auth, here) IN
    /\ path # NULL
    /\ history' = [history EXCEPT ![at] = Page(path)]
    /\ Render(auth, Page(path))
    /\ UNCHANGED <<auth, at, request, backend, loads>>

Init ==
    /\ \E u \in Users \cup {NULL} : auth = [isLoaded |-> FALSE, user |-> u]
    /\ \E path \in Paths : history = <<Page(path)>>
    /\ at = 1
    /\ view = Mount("Loading", {})
    /\ request = [o \in Orders |-> NULL]
    /\ owner = [o \in Orders |-> NULL]
    /\ fate = [o \in Orders |-> "none"]
    /\ loads = 0

------------------------------------------------------------------------------
(***************************************************************************)
(* The user, the browser and Clerk.                                        *)
(***************************************************************************)
SetAuth(a) == /\ auth' = a
              /\ Render(a, here)
              /\ UNCHANGED <<location, request, backend, loads>>

ClerkLoads == /\ ~auth.isLoaded
              /\ SetAuth([auth EXCEPT !.isLoaded = TRUE])

SignIn(u) == /\ view.component = "/sign-in"
             /\ SetAuth([auth EXCEPT !.user = u])

\* Logout in the header, or the session ends: it expires, or another tab signs
\* out.  A sign-out that fails is caught and changes nothing.
SignOut == /\ auth.isLoaded
           /\ auth.user # NULL
           /\ SetAuth([auth EXCEPT !.user = NULL])

\* The page is loaded anew, here or at an address the user or Clerk gives: all
\* that JavaScript had under way is gone.
Load(h, i) == /\ loads < MaxLoads
              /\ loads' = loads + 1
              /\ history' = h
              /\ at' = i
              /\ auth' = [auth EXCEPT !.isLoaded = FALSE]
              /\ view' = Mount("Loading", {})
              /\ request' = [o \in Orders |-> IF request[o] = NULL THEN NULL
                                              ELSE [request[o] EXCEPT !.alive = FALSE]]
              /\ UNCHANGED backend

Reload == Load(history, at)
Visit(path) == /\ at < MaxHistory
               /\ Load(Append(SubSeq(history, 1, at), Page(path)), at + 1)

\* The back and forward buttons: no load, the entry keeps its location.state.
Go(i) == /\ i # at
         /\ at' = i
         /\ Render(auth, history[i])
         /\ UNCHANGED <<auth, history, request, backend, loads>>

\* The link in the header, or Back to Booking on the payment page.
ToBooking == /\ view.component = "/payment-progress"
             /\ Push(Page("/booking"))
             /\ UNCHANGED <<auth, request, backend, loads>>

------------------------------------------------------------------------------
(***************************************************************************)
(* A confirmation: from the click through the gateway to order-service.    *)
(***************************************************************************)
handleConfirmBooking(o) ==
    /\ view.component = "/booking"
    /\ view.waitsFor = NULL
    /\ request[o] = NULL
    /\ request' = [request EXCEPT ![o] =
          [clicked |-> auth.user, token |-> NULL, step |-> "getToken", alive |-> TRUE]]
    /\ view' = [view EXCEPT !.waitsFor = o]
    /\ UNCHANGED <<auth, location, backend, loads>>

\* A faulty variant: the token is that of whoever is signed in when it comes.
tokenLate(o) == auth.user

\* getToken asks the session of the moment of the click.
token(o) == request[o].clicked

\* await getToken() is over, maybe without a token: the request is sent.
SendOrder(o) ==
    /\ request[o] # NULL
    /\ request[o].step = "getToken"
    /\ request[o].alive
    /\ \E t \in {token(o), NULL} :
          request' = [request EXCEPT ![o].step = "sent", ![o].token = t]
    /\ UNCHANGED <<auth, location, view, backend, loads>>

\* A faulty variant: the 401 is written, and next() called all the same.
clerkAuthMiddlewareGoesOn(t) == [refused |-> FALSE, sub |-> t]

\* The identity the gateway puts into the headers, unless it answers 401.
clerkAuthMiddleware(t) == [refused |-> t = NULL, sub |-> t]

\* OrderController.createOrder: the identity in the headers.
identity(sub) == LET userId == IF sub = NULL THEN "anonymous" ELSE sub IN
                 [userId |-> userId,
                  accountId |-> IF sub = NULL THEN userId ELSE sub]

\* The order is made; the answer may get lost on its way.
CreateOrder(o) ==
    /\ request[o] # NULL
    /\ request[o].step = "sent"
    /\ LET passed == clerkAuthMiddleware(request[o].token) IN
          /\ ~passed.refused
          /\ owner' = [owner EXCEPT ![o] = identity(passed.sub)]
    /\ fate' = [fate EXCEPT ![o] = "pending"]
    /\ \E answer \in {"created", "error"} : request' = [request EXCEPT ![o].step = answer]
    /\ UNCHANGED <<auth, location, view, loads>>

\* 401, the seat is taken, or order-service cannot be reached.
Refuse(o) ==
    /\ request[o] # NULL
    /\ request[o].step = "sent"
    /\ request' = [request EXCEPT ![o].step = "error"]
    /\ UNCHANGED <<auth, location, view, backend, loads>>

\* The answer comes, wherever the user is by now: on to the payment page, or
\* the error, which a page no longer mounted cannot show.
Answered(o) ==
    /\ request[o] # NULL
    /\ request[o].step \in {"created", "error"}
    /\ request[o].alive
    /\ request' = [request EXCEPT ![o].alive = FALSE]
    /\ IF request[o].step = "created"
       THEN Push([path |-> "/payment-progress", orderId |-> o])
       ELSE /\ view' = [view EXCEPT !.waitsFor = IF @ = o THEN NULL ELSE @]
            /\ UNCHANGED location
    /\ UNCHANGED <<auth, backend, loads>>

\* processWebhook.
Settle(o) ==
    /\ fate[o] = "pending"
    /\ \E end \in {"confirmed", "failed"} : fate' = [fate EXCEPT ![o] = end]
    /\ UNCHANGED <<auth, location, view, request, owner, loads>>

------------------------------------------------------------------------------
(***************************************************************************)
(* The payment page.                                                       *)
(***************************************************************************)
\* A poll is sent for the order of the page, or by a chain that has survived
\* from an order it had before.
Poll(o) == /\ view.component = "/payment-progress"
           /\ o \in view.orders
           /\ o = here.orderId => view.outcome = "none"
           /\ view' = [view EXCEPT !.polls = @ \cup {o}]
           /\ view' # view
           /\ UNCHANGED <<auth, location, request, backend, loads>>

\* A faulty variant: an order that exists counts as complete.
outcomeEarly(o) == CASE fate[o] \in {"pending", "confirmed"} -> "complete"
                     [] OTHER -> "failed"

\* What the answer of a poll makes of the page: complete shows before error.
outcome(o) == CASE fate[o] = "confirmed" -> "complete"
                [] fate[o] = "failed" /\ view.outcome = "none" -> "failed"
                [] OTHER -> view.outcome

PollAnswered(o) ==
    /\ o \in view.polls
    /\ view' = [view EXCEPT !.polls = @ \ {o}, !.outcome = outcome(o)]
    /\ UNCHANGED <<auth, location, request, backend, loads>>

handleRetry == /\ view.outcome = "failed"
               /\ view' = [view EXCEPT !.outcome = "none"]
               /\ UNCHANGED <<auth, location, request, backend, loads>>

Next ==
    \/ ClerkLoads \/ SignOut \/ \E u \in Users : SignIn(u)
    \/ Redirect \/ Reload \/ \E path \in Paths : Visit(path)
    \/ \E i \in DOMAIN history : Go(i)
    \/ ToBooking \/ handleRetry
    \/ \E o \in Orders : \/ handleConfirmBooking(o) \/ SendOrder(o)
                         \/ CreateOrder(o) \/ Refuse(o) \/ Answered(o)
                         \/ Settle(o) \/ Poll(o) \/ PollAnswered(o)

Spec == Init /\ [][Next]_vars

\* Clerk loads, and React runs the effects of what it rendered.
FairSpec == Spec /\ WF_vars(ClerkLoads) /\ WF_vars(Redirect)

------------------------------------------------------------------------------
(***************************************************************************)
(* Properties.                                                             *)
(***************************************************************************)
\* An order belongs to the user who clicked, whoever is signed in when the
\* token comes, the request is sent or the order is made; and it is in that
\* user's group of the queue.  (handleConfirmBooking, clerkAuthMiddleware,
\* OrderController.createOrder)
IdentityKept ==
    \A o \in Orders : owner[o] # NULL =>
       owner[o] = [userId |-> request[o].clicked, accountId |-> request[o].clicked]

\* While a payment page has had one order only, what it says of it is so: no
\* answer of an earlier page, of another order or of before a sign-out gets
\* into it.  (pollStatus, the cleanups on unmount)
FreshPageIsTrue ==
    view.component = "/payment-progress" =>
       \A o \in Orders : view.orders = {o} =>
          /\ view.outcome = "complete" => fate[o] = "confirmed"
          /\ view.outcome = "failed" => fate[o] = "failed"

\* The page of order o as the user is meant to see it.
Promised(o) == INSTANCE PaymentPage WITH
    fate <- IF fate[o] \in {"confirmed", "failed"} THEN fate[o] ELSE "pending",
    shown <- CASE view.outcome = "complete" -> "success"
               [] view.outcome = "failed"   -> "error"
               [] OTHER                     -> "spinner",
    open <- view.component = "/payment-progress"

\* While the tab stays on a payment page that has had one order only, it is the
\* page that PaymentProgress is proved to be, whatever is left under way by the
\* pages before it, by confirmations and by whoever was signed in.
\* (PaymentProgressView as App mounts it)
PageKeepsPromise ==
    [][\A o \in Orders :
          (view.component = "/payment-progress" /\ view.orders = {o})
             /\ (view.component = "/payment-progress" /\ view.orders = {o})'
          => [Promised(o)!Next]_(Promised(o)!vars)]_vars

\* A redirect never leads to another: the rules of the routes and of the payment
\* page, which answer for themselves, agree on where a tab may stay.
\* (RootRedirect, ProtectedRoute, SignInView, PaymentProgressView)
RedirectOnce == [][Redirect => (redirectsTo(auth, here) = NULL)']_vars

\* The redirects of the routes, which look at the session and at the order,
\* never send the tab round in circles: it settles on a page, whoever signs in
\* or out, and whatever entry the user goes back to.  (RootRedirect,
\* ProtectedRoute, SignInView, PaymentProgressView)
RedirectsEnd == []<>(auth.isLoaded /\ redirectsTo(auth, here) = NULL)
==============================================================================
