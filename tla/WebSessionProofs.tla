---------------------------- MODULE WebSessionProofs ----------------------------
(***************************************************************************)
(* Theorems about WebSession, for any number of users and confirmations,   *)
(* and a tab of any history and any number of loads.                       *)
(***************************************************************************)
EXTENDS WebSession, TLAPS, SequenceTheorems

\* The router shows what the session and the entry call for.
PageOK ==
    /\ auth \in [isLoaded : BOOLEAN, user : Users \cup {NULL}]
    /\ history \in Seq(Entry)
    /\ Len(history) <= MaxHistory
    /\ at \in 1 .. Len(history)
    /\ view \in View
    /\ view.component = App(auth, here)

\* A request carries no token but that of its click, and has no order before
\* order-service has seen it.
RequestOK(o) ==
    IF request[o] = NULL
    THEN owner[o] = NULL /\ fate[o] = "none"
    ELSE /\ request[o].token \in {request[o].clicked, NULL}
         /\ request[o].step \in {"getToken", "sent"} => fate[o] = "none"

OrdersOK ==
    /\ request \in [Orders -> Request \cup {NULL}]
    /\ owner \in [Orders -> Identity \cup {NULL}]
    /\ fate \in [Orders -> {"none", "pending", "confirmed", "failed"}]
    /\ \A o \in Orders : RequestOK(o)
    /\ IdentityKept

\* A page asks for its own orders, and says of them what is so of one of them.
ViewTrue ==
    /\ view.polls \subseteq view.orders
    /\ view.outcome = "complete" => \E o \in view.orders : fate[o] = "confirmed"
    /\ view.outcome = "failed" => \E o \in view.orders : fate[o] = "failed"

LoadsOK == loads \in 0 .. MaxLoads

IInv == PageOK /\ OrdersOK /\ ViewTrue /\ LoadsOK

USE WebSessionAssumption

------------------------------------------------------------------------------
(***************************************************************************)
(* The router.                                                             *)
(***************************************************************************)
\* A component is mounted for a path only at an entry of that path.
LEMMA AppTyped ==
    ASSUME NEW a, NEW e \in Entry
    PROVE  /\ App(a, e) \in {"Loading", "Navigate", e.path}
           /\ App(a, e) = "/booking" => a.user # NULL
  <1>1. e.path \in Paths /\ "/booking" \in Paths
    BY DEF Entry, Paths
  <1>2. CASE e.path = "/booking"
    BY <1>2 DEF App, Navigate, ProtectedRoute, Paths
  <1>3. CASE e.path # "/booking"
    BY <1>1, <1>3 DEF App, Paths
  <1> QED
    BY <1>2, <1>3 DEF App

LEMMA RenderOK ==
    ASSUME view \in View, ViewTrue, NEW a, NEW e \in Entry, Render(a, e)
    PROVE  /\ view' \in View
           /\ view'.component = App(a, e)
           /\ fate' = fate => ViewTrue'
  <1>. DEFINE ids == {e.orderId} \ {NULL}
  <1>1. ids \subseteq Orders /\ App(a, e) \in Paths \cup {"Loading", "Navigate"}
    BY AppTyped DEF Entry
  <1>2. CASE App(a, e) = view.component
    <2>1. view' = [view EXCEPT !.orders = @ \cup ids]
      BY <1>2 DEF Render
    <2>2. /\ view' \in View /\ view'.component = view.component
          /\ view'.polls = view.polls /\ view'.outcome = view.outcome
          /\ view'.orders = view.orders \cup ids
      BY <1>1, <2>1 DEF View
    <2> QED
      BY <1>2, <2>2 DEF ViewTrue
  <1>3. CASE App(a, e) # view.component
    <2>1. view' = Mount(App(a, e), ids)
      BY <1>3 DEF Render
    <2>2. /\ view' \in View /\ view'.component = App(a, e)
          /\ view'.polls = {} /\ view'.outcome = "none"
      BY <1>1, <2>1 DEF View, Mount
    <2> QED
      BY <2>2 DEF ViewTrue
  <1> QED
    BY <1>2, <1>3

\* The history after a push ends with the new entry, which is the current one.
LEMMA PushHistory ==
    ASSUME PageOK, NEW e \in Entry, Push(e)
    PROVE  /\ history' \in Seq(Entry)
           /\ Len(history') <= MaxHistory
           /\ at' \in 1 .. Len(history')
           /\ here' = e
  <1>. DEFINE before == SubSeq(history, 1, at)
              longer == Append(before, e)
  <1>1. /\ history \in Seq(Entry) /\ Len(history) \in Nat /\ Len(history) <= MaxHistory
        /\ at \in Int /\ 1 <= at /\ at <= Len(history)
    BY LenProperties DEF PageOK
  <1>2. \A i \in 1 .. at : history[i] \in Entry
    BY <1>1, LenProperties
  <1>3. before \in Seq(Entry) /\ Len(before) = at
    BY <1>1, <1>2, SubSeqProperties
  <1>. HIDE DEF before
  <1>4. /\ longer \in Seq(Entry) /\ longer # << >>
        /\ Len(longer) = at + 1 /\ longer[at + 1] = e
    BY <1>3, AppendProperties
  <1>. HIDE DEF longer
  <1>5. /\ Tail(longer) \in Seq(Entry) /\ Len(Tail(longer)) = at
        /\ Tail(longer)[at] = e
    BY <1>1, <1>4, HeadTailProperties
  <1>6. /\ history' = IF Len(longer) > MaxHistory THEN Tail(longer) ELSE longer
        /\ at' = Len(history')
    BY DEF Push, before, longer
  <1>7. CASE Len(longer) > MaxHistory
    BY <1>1, <1>4, <1>5, <1>6, <1>7 DEF here
  <1>8. CASE ~(Len(longer) > MaxHistory)
    BY <1>1, <1>4, <1>6, <1>8 DEF here
  <1> QED
    BY <1>7, <1>8

LEMMA HereTyped == ASSUME PageOK PROVE here \in Entry
  BY LenProperties DEF PageOK, here

\* What keeps the orders, and what keeps the page.
LEMMA OrdersKept ==
    ASSUME OrdersOK, UNCHANGED <<request, backend>>
    PROVE  OrdersOK'
  BY DEF OrdersOK, RequestOK, IdentityKept, backend

LEMMA PageKept ==
    ASSUME PageOK, UNCHANGED <<auth, location, view>>
    PROVE  PageOK'
  BY DEF PageOK, here, location

\* The user's own moves: the page is rendered anew, the orders are as they were.
LEMMA Moves ==
    ASSUME IInv,
           auth' \in [isLoaded : BOOLEAN, user : Users \cup {NULL}],
           history' \in Seq(Entry), Len(history') <= MaxHistory,
           at' \in 1 .. Len(history'),
           Render(auth', here'), UNCHANGED fate
    PROVE  PageOK' /\ ViewTrue'
  <1>1. here' \in Entry
    BY LenProperties DEF here
  <1>2. view' \in View /\ view'.component = App(auth', here') /\ ViewTrue'
    BY <1>1, RenderOK DEF IInv, PageOK
  <1> QED
    BY <1>2 DEF PageOK, App, Navigate, RootRedirect, SignInView, ProtectedRoute

LEMMA Pushes ==
    ASSUME IInv, NEW e \in Entry, Push(e), UNCHANGED <<auth, fate>>
    PROVE  PageOK' /\ ViewTrue'
  <1>1. /\ history' \in Seq(Entry) /\ Len(history') <= MaxHistory
        /\ at' \in 1 .. Len(history') /\ here' = e
    BY PushHistory DEF IInv
  <1>2. Render(auth', here')
    BY <1>1 DEF Push
  <1> QED
    BY <1>1, <1>2, Moves DEF IInv, PageOK

------------------------------------------------------------------------------
(***************************************************************************)
(* Initial states, and the steps of the user, the browser and Clerk.       *)
(***************************************************************************)
LEMMA MountTyped ==
    ASSUME NEW component \in Paths \cup {"Loading", "Navigate"}, NEW ids \in SUBSET Orders
    PROVE  /\ Mount(component, ids) \in View
           /\ Mount(component, ids).component = component
           /\ Mount(component, ids).polls = {}
           /\ Mount(component, ids).outcome = "none"
  BY DEF Mount, View

LEMMA InitInv == Init => IInv
  <1> SUFFICES ASSUME Init PROVE IInv
    OBVIOUS
  <1>1. PICK path \in Paths : history = <<Page(path)>>
    BY DEF Init
  <1>2. Page(path) \in Entry
    BY DEF Page, Entry
  <1>3. history \in Seq(Entry) /\ Len(history) = 1 /\ history[1] = Page(path)
    BY <1>1, <1>2
  <1>4. /\ auth \in [isLoaded : BOOLEAN, user : Users \cup {NULL}]
        /\ ~auth.isLoaded
    BY DEF Init
  <1>5. view \in View /\ view.component = "Loading" /\ view.polls = {} /\ view.outcome = "none"
    BY MountTyped DEF Init
  <1>6. PageOK
    BY <1>3, <1>4, <1>5 DEF Init, PageOK, App
  <1>7. OrdersOK
    BY DEF Init, OrdersOK, RequestOK, IdentityKept
  <1> QED
    BY <1>5, <1>6, <1>7 DEF Init, IInv, ViewTrue, LoadsOK

LEMMA SetAuthInv ==
    ASSUME IInv, NEW a \in [isLoaded : BOOLEAN, user : Users \cup {NULL}], SetAuth(a)
    PROVE  IInv'
  <1>1. here' = here
    BY DEF SetAuth, here, location
  <1>2. PageOK' /\ ViewTrue'
    BY <1>1, Moves DEF IInv, PageOK, SetAuth, location, backend
  <1>3. OrdersOK'
    BY OrdersKept DEF IInv, SetAuth
  <1> QED
    BY <1>2, <1>3 DEF IInv, LoadsOK, SetAuth

LEMMA AuthInv ==
    ASSUME IInv, ClerkLoads \/ SignOut \/ \E u \in Users : SignIn(u)
    PROVE  IInv'
  <1>1. auth \in [isLoaded : BOOLEAN, user : Users \cup {NULL}]
    BY DEF IInv, PageOK
  <1>2. CASE ClerkLoads
    BY <1>1, <1>2, SetAuthInv DEF ClerkLoads
  <1>3. CASE SignOut
    BY <1>1, <1>3, SetAuthInv DEF SignOut
  <1>4. ASSUME NEW u \in Users, SignIn(u) PROVE IInv'
    BY <1>1, <1>4, SetAuthInv DEF SignIn
  <1> QED
    BY <1>2, <1>3, <1>4

LEMMA RedirectInv ==
    ASSUME IInv, Redirect
    PROVE  IInv'
  <1>. DEFINE path == redirectsTo(auth, here)
  <1>1. path \in Paths
    <2>1. path # NULL
      BY DEF Redirect
    <2>2. \A e : Navigate(auth, e) \in Paths \cup {NULL}
      <3> SUFFICES ASSUME NEW e PROVE Navigate(auth, e) \in Paths \cup {NULL}
        OBVIOUS
      <3>1. RootRedirect(auth) \in Paths
        BY DEF RootRedirect, Paths
      <3>2. SignInView(auth) \in Paths \cup {NULL}
        BY DEF SignInView, Paths
      <3>3. ProtectedRoute(auth) \in Paths \cup {NULL}
        BY DEF ProtectedRoute, Paths
      <3> QED
        BY <3>1, <3>2, <3>3 DEF Navigate
    <2> QED
      BY <2>1, <2>2 DEF redirectsTo, Paths
  <1>. HIDE DEF path
  <1>2. Page(path) \in Entry
    BY <1>1 DEF Page, Entry
  <1>3. history' = [history EXCEPT ![at] = Page(path)] /\ Render(auth, Page(path))
    BY DEF Redirect, path
  <1>4. /\ history' \in Seq(Entry) /\ Len(history') = Len(history)
        /\ history'[at] = Page(path)
    BY <1>2, <1>3, ExceptSeq DEF IInv, PageOK
  <1>5. at' = at /\ auth' = auth /\ UNCHANGED <<request, backend, loads>>
    BY DEF Redirect
  <1>6. PageOK' /\ ViewTrue'
    BY <1>3, <1>4, <1>5, Moves DEF IInv, PageOK, here, backend
  <1> QED
    BY <1>5, <1>6, OrdersKept DEF IInv, LoadsOK

\* A load leaves nothing under way, and forgets what the page said.
LEMMA LoadInv ==
    ASSUME IInv, NEW h \in Seq(Entry), Len(h) <= MaxHistory, NEW i \in 1 .. Len(h),
           Load(h, i)
    PROVE  IInv'
  <1>1. history' = h /\ at' = i /\ view' = Mount("Loading", {})
    BY DEF Load
  <1>2. /\ auth' \in [isLoaded : BOOLEAN, user : Users \cup {NULL}]
        /\ ~auth'.isLoaded
    BY DEF Load, IInv, PageOK
  <1>3. /\ view' \in View /\ view'.component = "Loading"
        /\ view'.polls = {} /\ view'.outcome = "none"
    BY <1>1, MountTyped
  <1>4. PageOK'
    BY <1>1, <1>2, <1>3 DEF PageOK, App
  <1>5. \A o \in Orders :
           IF request[o] = NULL THEN request'[o] = NULL
           ELSE /\ request'[o] \in Request
                /\ request'[o].clicked = request[o].clicked
                /\ request'[o].token = request[o].token
                /\ request'[o].step = request[o].step
    <2> SUFFICES ASSUME NEW o \in Orders, request[o] # NULL
                 PROVE  /\ request'[o] \in Request
                        /\ request'[o].clicked = request[o].clicked
                        /\ request'[o].token = request[o].token
                        /\ request'[o].step = request[o].step
      BY DEF Load
    <2>1. request[o] \in Request
      BY DEF IInv, OrdersOK
    <2>2. request'[o] = [request[o] EXCEPT !.alive = FALSE]
      BY DEF Load
    <2> QED
      BY <2>1, <2>2 DEF Request
  <1>6. request' \in [Orders -> Request \cup {NULL}]
    BY <1>5 DEF Load
  <1>7. UNCHANGED <<owner, fate>>
    BY DEF Load, backend
  <1>8. \A o \in Orders : request'[o] = NULL <=> request[o] = NULL
    BY <1>5
  <1>9. OrdersOK'
    BY <1>5, <1>6, <1>7, <1>8 DEF IInv, OrdersOK, RequestOK, IdentityKept
  <1> QED
    BY <1>3, <1>4, <1>9 DEF IInv, ViewTrue, LoadsOK, Load

LEMMA VisitInv ==
    ASSUME IInv, NEW path \in Paths, Visit(path)
    PROVE  IInv'
  <1>. DEFINE before == SubSeq(history, 1, at)
  <1>1. Page(path) \in Entry
    BY DEF Page, Entry
  <1>2. /\ at \in Int /\ 1 <= at /\ at <= Len(history) /\ at < MaxHistory
        /\ \A i \in 1 .. at : history[i] \in Entry
    BY LenProperties DEF Visit, IInv, PageOK
  <1>3. before \in Seq(Entry) /\ Len(before) = at
    BY <1>2, SubSeqProperties
  <1>. HIDE DEF before
  <1>4. Append(before, Page(path)) \in Seq(Entry) /\ Len(Append(before, Page(path))) = at + 1
    BY <1>1, <1>3, AppendProperties
  <1>. DEFINE longer == Append(before, Page(path))
  <1>5. Load(longer, at + 1)
    BY DEF Visit, before
  <1>6. longer \in Seq(Entry) /\ Len(longer) <= MaxHistory /\ at + 1 \in 1 .. Len(longer)
    BY <1>2, <1>4
  <1>. HIDE DEF longer
  <1> QED
    BY <1>5, <1>6, LoadInv

LEMMA GoInv ==
    ASSUME IInv, NEW i \in DOMAIN history, Go(i)
    PROVE  IInv'
  <1>1. i \in 1 .. Len(history)
    BY LenProperties DEF IInv, PageOK
  <1>2. at' = i /\ here' = history[i] /\ Render(auth', here')
    BY DEF Go, here
  <1>3. PageOK' /\ ViewTrue'
    BY <1>1, <1>2, Moves DEF IInv, PageOK, Go, backend
  <1> QED
    BY <1>3, OrdersKept DEF IInv, LoadsOK, Go

LEMMA ToBookingInv ==
    ASSUME IInv, ToBooking
    PROVE  IInv'
  <1>1. Page("/booking") \in Entry
    BY DEF Page, Entry, Paths
  <1>2. PageOK' /\ ViewTrue'
    BY <1>1, Pushes DEF ToBooking, backend
  <1> QED
    BY <1>2, OrdersKept DEF IInv, LoadsOK, ToBooking

------------------------------------------------------------------------------
(***************************************************************************)
(* The steps of a confirmation.                                            *)
(***************************************************************************)
\* A step of one request, which keeps the clicking user and the orders.
LEMMA RequestMoves ==
    ASSUME OrdersOK, UNCHANGED backend, NEW o \in Orders, NEW r \in Request,
           request[o] # NULL, request' = [request EXCEPT ![o] = r],
           r.clicked = request[o].clicked,
           r.token \in {r.clicked, NULL},
           r.step \in {"getToken", "sent"} => fate[o] = "none"
    PROVE  OrdersOK'
  <1>1. request' \in [Orders -> Request \cup {NULL}] /\ r # NULL
    BY DEF OrdersOK
  <1>2. \A p \in Orders : request'[p] = IF p = o THEN r ELSE request[p]
    BY DEF OrdersOK
  <1>3. \A p \in Orders : RequestOK(p)'
    BY <1>1, <1>2 DEF OrdersOK, RequestOK, backend
  <1>4. IdentityKept'
    BY <1>2 DEF OrdersOK, IdentityKept, backend
  <1> QED
    BY <1>1, <1>3, <1>4 DEF OrdersOK, backend

\* The booking page is only mounted for somebody, whose click it is.
LEMMA ClickInv ==
    ASSUME IInv, NEW o \in Orders, handleConfirmBooking(o)
    PROVE  IInv'
  <1>. DEFINE r == [clicked |-> auth.user, token |-> NULL, step |-> "getToken", alive |-> TRUE]
  <1>1. /\ view.component = "/booking" /\ request[o] = NULL
        /\ request' = [request EXCEPT ![o] = r]
        /\ view' = [view EXCEPT !.waitsFor = o]
        /\ UNCHANGED <<auth, location, backend, loads>>
    BY DEF handleConfirmBooking
  <1>2. auth.user \in Users
    <2>1. here \in Entry /\ App(auth, here) = "/booking"
      BY <1>1, HereTyped DEF IInv, PageOK
    <2> QED
      BY <2>1, AppTyped DEF IInv, PageOK
  <1>3. r \in Request /\ r # NULL
    <2>1. r \in Request
      BY <1>2 DEF Request
    <2> QED
      BY <2>1
  <1>4. OrdersOK'
    <2>1. request' \in [Orders -> Request \cup {NULL}]
      BY <1>1, <1>3 DEF IInv, OrdersOK
    <2>2. \A p \in Orders : request'[p] = IF p = o THEN r ELSE request[p]
      BY <1>1 DEF IInv, OrdersOK
    <2>3. owner[o] = NULL /\ fate[o] = "none"
      BY <1>1 DEF IInv, OrdersOK, RequestOK
    <2>4. \A p \in Orders : RequestOK(p)'
      BY <1>1, <1>3, <2>2, <2>3 DEF IInv, OrdersOK, RequestOK, backend
    <2>5. IdentityKept'
      BY <1>1, <2>2, <2>3 DEF IInv, OrdersOK, IdentityKept, backend
    <2> QED
      BY <1>1, <2>1, <2>4, <2>5 DEF IInv, OrdersOK, backend
  <1>5. /\ view' \in View /\ view'.component = view.component
        /\ view'.polls = view.polls /\ view'.orders = view.orders
        /\ view'.outcome = view.outcome
    BY <1>1 DEF IInv, PageOK, View
  <1>6. PageOK' /\ ViewTrue'
    BY <1>1, <1>5 DEF IInv, PageOK, ViewTrue, here, location, backend
  <1> QED
    BY <1>1, <1>4, <1>6 DEF IInv, LoadsOK

LEMMA SendOrderInv ==
    ASSUME IInv, NEW o \in Orders, SendOrder(o)
    PROVE  IInv'
  <1>1. PICK t \in {token(o), NULL} :
           request' = [request EXCEPT ![o].step = "sent", ![o].token = t]
    BY DEF SendOrder
  <1>. DEFINE r == [request[o] EXCEPT !.step = "sent", !.token = t]
  <1>2. request[o] \in Request /\ request[o] # NULL /\ request[o].step = "getToken"
    BY DEF SendOrder, IInv, OrdersOK
  <1>3. /\ r \in Request /\ r.clicked = request[o].clicked /\ r.token = t
        /\ r.step = "sent"
    BY <1>2 DEF Request, token
  <1>4. fate[o] = "none"
    BY <1>2 DEF IInv, OrdersOK, RequestOK
  <1>5. request' = [request EXCEPT ![o] = r]
    BY <1>1
  <1>. HIDE DEF r
  <1>6. OrdersOK'
    BY <1>2, <1>3, <1>4, <1>5, RequestMoves DEF IInv, SendOrder, token
  <1> QED
    BY <1>6, PageKept DEF IInv, ViewTrue, LoadsOK, SendOrder, backend

\* Refuse and Answered leave the orders alone and a request with another step
\* that says nothing of its order, or without the JavaScript that waits for it.
LEMMA RefuseInv ==
    ASSUME IInv, NEW o \in Orders, Refuse(o)
    PROVE  IInv'
  <1>. DEFINE r == [request[o] EXCEPT !.step = "error"]
  <1>1. request[o] \in Request /\ request[o] # NULL
    BY DEF Refuse, IInv, OrdersOK
  <1>2. /\ r \in Request /\ r.clicked = request[o].clicked /\ r.token = request[o].token
        /\ r.step = "error"
        /\ request' = [request EXCEPT ![o] = r]
    BY <1>1 DEF Request, Refuse
  <1>3. request[o].token \in {request[o].clicked, NULL}
    BY <1>1 DEF IInv, OrdersOK, RequestOK
  <1>. HIDE DEF r
  <1>4. OrdersOK'
    BY <1>1, <1>2, <1>3, RequestMoves DEF IInv, Refuse
  <1> QED
    BY <1>4, PageKept DEF IInv, ViewTrue, LoadsOK, Refuse, backend

LEMMA AnsweredInv ==
    ASSUME IInv, NEW o \in Orders, Answered(o)
    PROVE  IInv'
  <1>. DEFINE r == [request[o] EXCEPT !.alive = FALSE]
              e == [path |-> "/payment-progress", orderId |-> o]
  <1>1. request[o] \in Request /\ request[o] # NULL /\ request[o].step \in {"created", "error"}
    BY DEF Answered, IInv, OrdersOK
  <1>2. /\ r \in Request /\ r.clicked = request[o].clicked /\ r.token = request[o].token
        /\ r.step = request[o].step
        /\ request' = [request EXCEPT ![o] = r]
    BY <1>1 DEF Request, Answered
  <1>3. request[o].token \in {request[o].clicked, NULL}
    BY <1>1 DEF IInv, OrdersOK, RequestOK
  <1>. HIDE DEF r
  <1>4. OrdersOK'
    BY <1>1, <1>2, <1>3, RequestMoves DEF IInv, Answered
  <1>5. e \in Entry
    BY DEF Entry, Paths
  <1>6. UNCHANGED <<auth, backend, loads>>
    BY DEF Answered
  <1>7. CASE request[o].step = "created"
    <2>1. Push(e)
      BY <1>7 DEF Answered
    <2>2. PageOK' /\ ViewTrue'
      BY <1>5, <1>6, <2>1, Pushes DEF backend
    <2> QED
      BY <1>4, <1>6, <2>2 DEF IInv, LoadsOK
  <1>8. CASE request[o].step # "created"
    <2>1. /\ view' = [view EXCEPT !.waitsFor = IF @ = o THEN NULL ELSE @]
          /\ UNCHANGED location
      BY <1>8 DEF Answered
    <2>2. /\ view' \in View /\ view'.component = view.component
          /\ view'.polls = view.polls /\ view'.orders = view.orders
          /\ view'.outcome = view.outcome
      BY <2>1 DEF IInv, PageOK, View
    <2>3. PageOK' /\ ViewTrue'
      BY <1>6, <2>1, <2>2 DEF IInv, PageOK, ViewTrue, here, location, backend
    <2> QED
      BY <1>4, <1>6, <2>3 DEF IInv, LoadsOK
  <1> QED
    BY <1>7, <1>8

\* Steps of one order that was not settled say nothing new of the page.
LEMMA FateMoves ==
    ASSUME ViewTrue, NEW o \in Orders, view \in View,
           fate \in [Orders -> {"none", "pending", "confirmed", "failed"}],
           fate[o] \in {"none", "pending"}, NEW f,
           fate' = [fate EXCEPT ![o] = f], UNCHANGED view
    PROVE  ViewTrue'
  <1>1. view.orders \subseteq Orders
    BY DEF View
  <1>2. \A p \in Orders : fate[p] \in {"confirmed", "failed"} => fate'[p] = fate[p]
    OBVIOUS
  <1> QED
    BY <1>1, <1>2 DEF ViewTrue

\* An order made for a request is made with the token of its click.
LEMMA CreateOrderInv ==
    ASSUME IInv, NEW o \in Orders, CreateOrder(o)
    PROVE  IInv'
  <1>1. PICK answer \in {"created", "error"} : request' = [request EXCEPT ![o].step = answer]
    BY DEF CreateOrder
  <1>. DEFINE r == [request[o] EXCEPT !.step = answer]
  <1>2. request[o] \in Request /\ request[o] # NULL /\ request[o].step = "sent"
    BY DEF CreateOrder, IInv, OrdersOK
  <1>3. /\ r \in Request /\ r.clicked = request[o].clicked /\ r.token = request[o].token
        /\ r.step = answer
    BY <1>2 DEF Request
  <1>4. /\ request' \in [Orders -> Request \cup {NULL}]
        /\ \A p \in Orders : request'[p] = IF p = o THEN r ELSE request[p]
    BY <1>1, <1>3 DEF IInv, OrdersOK
  <1>. HIDE DEF r
  <1>5. fate[o] = "none" /\ request[o].token \in {request[o].clicked, NULL}
    BY <1>2 DEF IInv, OrdersOK, RequestOK
  <1>. DEFINE c == request[o].clicked
              id == [userId |-> c, accountId |-> c]
  <1>6. owner' = [owner EXCEPT ![o] = id] /\ c \in Users
    <2>1. request[o].token # NULL /\ owner' = [owner EXCEPT ![o] = identity(request[o].token)]
      BY DEF CreateOrder, clerkAuthMiddleware
    <2>2. request[o].token = c /\ c \in Users
      BY <1>2, <1>5, <2>1 DEF Request
    <2>3. identity(c) = id
      BY <2>2 DEF identity
    <2> QED
      BY <2>1, <2>2, <2>3
  <1>7. id \in Identity
    BY <1>6 DEF Identity
  <1>8. owner' \in [Orders -> Identity \cup {NULL}]
        /\ \A p \in Orders : owner'[p] = IF p = o THEN id ELSE owner[p]
    BY <1>6, <1>7 DEF IInv, OrdersOK
  <1>9. fate' = [fate EXCEPT ![o] = "pending"]
        /\ fate' \in [Orders -> {"none", "pending", "confirmed", "failed"}]
    BY DEF CreateOrder, IInv, OrdersOK
  <1>10. \A p \in Orders : RequestOK(p)'
    BY <1>3, <1>4, <1>5, <1>8, <1>9 DEF IInv, OrdersOK, RequestOK
  <1>11. IdentityKept'
    BY <1>3, <1>4, <1>8 DEF IInv, OrdersOK, IdentityKept
  <1>12. OrdersOK'
    BY <1>4, <1>8, <1>9, <1>10, <1>11 DEF OrdersOK
  <1>13. ViewTrue'
    BY <1>5, <1>9, FateMoves DEF CreateOrder, IInv, PageOK, OrdersOK
  <1> QED
    BY <1>12, <1>13, PageKept DEF IInv, LoadsOK, CreateOrder

LEMMA SettleInv ==
    ASSUME IInv, NEW o \in Orders, Settle(o)
    PROVE  IInv'
  <1>1. PICK end \in {"confirmed", "failed"} : fate' = [fate EXCEPT ![o] = end]
    BY DEF Settle
  <1>2. ViewTrue'
    BY <1>1, FateMoves DEF Settle, IInv, PageOK, OrdersOK
  <1>3. \A p \in Orders : RequestOK(p)'
    BY <1>1 DEF Settle, IInv, OrdersOK, RequestOK
  <1>4. OrdersOK'
    BY <1>1, <1>3 DEF Settle, IInv, OrdersOK, IdentityKept
  <1> QED
    BY <1>2, <1>4, PageKept DEF IInv, LoadsOK, Settle

------------------------------------------------------------------------------
(***************************************************************************)
(* The steps of the payment page.                                          *)
(***************************************************************************)
\* A step of the mounted page that says no more than is so.
LEMMA ViewMoves ==
    ASSUME IInv, UNCHANGED <<auth, location, request, backend, loads>>,
           view' \in View, view'.component = view.component, ViewTrue'
    PROVE  IInv'
  <1>1. PageOK'
    BY DEF IInv, PageOK, here, location
  <1> QED
    BY <1>1, OrdersKept DEF IInv, LoadsOK

LEMMA PollInv ==
    ASSUME IInv, NEW o \in Orders, Poll(o)
    PROVE  IInv'
  <1>1. /\ view' \in View /\ view'.component = view.component
        /\ view'.polls = view.polls \cup {o} /\ view'.orders = view.orders
        /\ view'.outcome = view.outcome
    BY DEF Poll, IInv, PageOK, View
  <1>2. ViewTrue'
    BY <1>1 DEF Poll, IInv, ViewTrue, backend
  <1> QED
    BY <1>1, <1>2, ViewMoves DEF Poll

\* An answer is about an order the page has been given.
LEMMA PollAnsweredInv ==
    ASSUME IInv, NEW o \in Orders, PollAnswered(o)
    PROVE  IInv'
  <1>1. view.outcome \in {"none", "complete", "failed"}
    BY DEF IInv, PageOK, View
  <1>2. outcome(o) \in {"none", "complete", "failed"}
    BY <1>1 DEF outcome
  <1>3. /\ view' \in View /\ view'.component = view.component
        /\ view'.polls = view.polls \ {o} /\ view'.orders = view.orders
        /\ view'.outcome = outcome(o)
    BY <1>2 DEF PollAnswered, IInv, PageOK, View
  <1>4. o \in view.orders
    BY DEF PollAnswered, IInv, ViewTrue
  <1>5. /\ outcome(o) = "complete" => fate[o] = "confirmed" \/ view.outcome = "complete"
        /\ outcome(o) = "failed" => fate[o] = "failed" \/ view.outcome = "failed"
    BY DEF outcome
  <1>6. fate' = fate
    BY DEF PollAnswered, backend
  <1>7. ViewTrue'
    BY <1>3, <1>4, <1>5, <1>6 DEF IInv, ViewTrue
  <1> QED
    BY <1>3, <1>7, ViewMoves DEF PollAnswered

LEMMA RetryInv ==
    ASSUME IInv, handleRetry
    PROVE  IInv'
  <1>1. /\ view' \in View /\ view'.component = view.component
        /\ view'.polls = view.polls /\ view'.orders = view.orders
        /\ view'.outcome = "none"
    BY DEF handleRetry, IInv, PageOK, View
  <1>2. ViewTrue'
    BY <1>1 DEF IInv, ViewTrue
  <1> QED
    BY <1>1, <1>2, ViewMoves DEF handleRetry

------------------------------------------------------------------------------
(***************************************************************************)
(* The theorems.                                                           *)
(***************************************************************************)
LEMMA NextInv == IInv /\ [Next]_vars => IInv'
  <1> SUFFICES ASSUME IInv, [Next]_vars PROVE IInv'
    OBVIOUS
  <1>1. CASE UNCHANGED vars
    BY <1>1, PageKept, OrdersKept DEF IInv, vars, location, ViewTrue, LoadsOK, backend
  <1>2. CASE ClerkLoads \/ SignOut \/ \E u \in Users : SignIn(u)
    BY <1>2, AuthInv
  <1>3. CASE Redirect
    BY <1>3, RedirectInv
  <1>4. CASE Reload
    <2>1. history \in Seq(Entry) /\ Len(history) <= MaxHistory /\ at \in 1 .. Len(history)
      BY DEF IInv, PageOK
    <2> QED
      BY <1>4, <2>1, LoadInv DEF Reload
  <1>5. ASSUME NEW path \in Paths, Visit(path) PROVE IInv'
    BY <1>5, VisitInv
  <1>6. ASSUME NEW i \in DOMAIN history, Go(i) PROVE IInv'
    BY <1>6, GoInv
  <1>7. CASE ToBooking
    BY <1>7, ToBookingInv
  <1>8. CASE handleRetry
    BY <1>8, RetryInv
  <1>9. ASSUME NEW o \in Orders,
               \/ handleConfirmBooking(o) \/ SendOrder(o) \/ CreateOrder(o) \/ Refuse(o)
               \/ Answered(o) \/ Settle(o) \/ Poll(o) \/ PollAnswered(o)
        PROVE  IInv'
    BY <1>9, ClickInv, SendOrderInv, CreateOrderInv, RefuseInv, AnsweredInv, SettleInv,
       PollInv, PollAnsweredInv
  <1> QED
    BY <1>1, <1>2, <1>3, <1>4, <1>5, <1>6, <1>7, <1>8, <1>9 DEF Next

\* The page shown is the one the session and the entry call for, a request
\* carries its own user's token, and a page says of its orders what is so of
\* one of them.  (App, handleConfirmBooking, pollStatus)
THEOREM Invariance == Spec => []IInv
  BY InitInv, NextInv, PTL DEF Spec

\* Every variable keeps its type.
THEOREM TypeCorrect == Spec => []TypeOK
  <1>1. IInv => TypeOK
    BY DEF IInv, PageOK, OrdersOK, LoadsOK, TypeOK
  <1> QED
    BY <1>1, Invariance, PTL

\* An order belongs to the user who clicked.  (handleConfirmBooking,
\* clerkAuthMiddleware, OrderController.createOrder)
THEOREM IdentityCorrect == Spec => []IdentityKept
  <1>1. IInv => IdentityKept
    BY DEF IInv, OrdersOK
  <1> QED
    BY <1>1, Invariance, PTL

\* What a payment page that has had one order says of it is so.  (pollStatus,
\* the cleanups on unmount)
THEOREM FreshPageCorrect == Spec => []FreshPageIsTrue
  <1>1. IInv => FreshPageIsTrue
    BY DEF IInv, ViewTrue, FreshPageIsTrue
  <1> QED
    BY <1>1, Invariance, PTL

\* One redirect is enough, for whoever is signed in and wherever the tab was.
\* (RootRedirect, ProtectedRoute, SignInView, PaymentProgressView)
THEOREM RedirectsOnce == Spec => RedirectOnce
  <1>1. ASSUME IInv, Redirect
        PROVE  (redirectsTo(auth, here) = NULL)'
    <2>. DEFINE path == redirectsTo(auth, here)
    <2>1. /\ path # NULL /\ history' = [history EXCEPT ![at] = Page(path)]
          /\ UNCHANGED <<auth, at>>
      BY <1>1 DEF Redirect
    <2>2. here' = Page(path)
      BY <1>1, <2>1, LenProperties DEF IInv, PageOK, here
    <2>3. auth.isLoaded /\ path = IF auth.user = NULL THEN "/sign-in" ELSE "/booking"
      <3>1. "/booking" # NULL /\ "/sign-in" # NULL
        BY DEF Paths
      <3>2. CASE App(auth, here) = "/payment-progress" /\ here.orderId = NULL
        BY <3>1, <3>2 DEF redirectsTo, App, Navigate, RootRedirect, SignInView, ProtectedRoute
      <3>3. CASE ~(App(auth, here) = "/payment-progress" /\ here.orderId = NULL)
        <4>1. path = Navigate(auth, here)
          BY <3>3 DEF redirectsTo
        <4>. HIDE DEF path
        <4>2. auth.isLoaded
          <5>1. ~auth.isLoaded => Navigate(auth, here) = NULL
            BY DEF Navigate
          <5> QED
            BY <2>1, <4>1, <5>1
        <4>3. CASE here.path = "/"
          BY <4>1, <4>2, <4>3 DEF Navigate, RootRedirect
        <4>4. CASE here.path = "/sign-in"
          BY <2>1, <4>1, <4>2, <4>4 DEF Navigate, SignInView
        <4>5. CASE here.path # "/" /\ here.path # "/sign-in"
          BY <2>1, <4>1, <4>2, <4>5 DEF Navigate, ProtectedRoute
        <4> QED
          BY <4>3, <4>4, <4>5
      <3> QED
        BY <3>2, <3>3
    <2>4. /\ redirectsTo(auth, Page("/sign-in")) = SignInView(auth)
          /\ redirectsTo(auth, Page("/booking")) = ProtectedRoute(auth)
      BY <2>3 DEF redirectsTo, App, Navigate, Page
    <2>. HIDE DEF path
    <2>5. redirectsTo(auth, Page(path)) = NULL
      BY <2>3, <2>4 DEF SignInView, ProtectedRoute
    <2>6. redirectsTo(auth', here') = NULL
      BY <2>1, <2>2, <2>5
    <2> QED
      BY <2>6 DEF redirectsTo, App, Navigate, RootRedirect, SignInView, ProtectedRoute
  <1>2. IInv /\ [Next]_vars => [Redirect => (redirectsTo(auth, here) = NULL)']_vars
    BY <1>1
  <1> QED
    BY <1>2, Invariance, PTL DEF Spec, RedirectOnce

------------------------------------------------------------------------------
(***************************************************************************)
(* WebSession's payment page implements PaymentPage.                       *)
(***************************************************************************)
OnPageOf(o) == view.component = "/payment-progress" /\ view.orders = {o}

\* A step that leaves the order's end and the outcome alone is a stutter.
LEMMA PageStutters ==
    ASSUME NEW o \in Orders, OnPageOf(o), OnPageOf(o)', view'.outcome = view.outcome,
           fate'[o] = fate[o] \/ {fate[o], fate'[o]} \subseteq {"none", "pending"}
    PROVE  UNCHANGED Promised(o)!vars
  BY DEF Promised!vars, OnPageOf

\* A page that is rendered again for the same order is the same page.
LEMMA RenderStutters ==
    ASSUME IInv, NEW o \in Orders, OnPageOf(o), OnPageOf(o)',
           NEW a, NEW e \in Entry, Render(a, e), UNCHANGED fate
    PROVE  UNCHANGED Promised(o)!vars
  <1>1. view \in View /\ view'.component = App(a, e)
    BY RenderOK DEF IInv, PageOK
  <1>2. view' = [view EXCEPT !.orders = @ \cup ({e.orderId} \ {NULL})]
    BY <1>1 DEF Render, OnPageOf
  <1>3. view'.outcome = view.outcome
    BY <1>1, <1>2 DEF View
  <1> QED
    BY <1>3, PageStutters

\* An answer to the page is one about its order, and shows what has become of it.
LEMMA AnswerShows ==
    ASSUME IInv, NEW o \in Orders, OnPageOf(o), OnPageOf(o)', NEW p \in Orders, PollAnswered(p)
    PROVE  Promised(o)!Show \/ UNCHANGED Promised(o)!vars
  <1>1. p = o
    BY DEF PollAnswered, IInv, ViewTrue, OnPageOf
  <1>2. fate' = fate /\ view'.outcome = outcome(o)
    BY <1>1 DEF PollAnswered, backend, IInv, PageOK, View
  <1>3. /\ view.outcome \in {"none", "complete", "failed"}
        /\ view.outcome = "complete" => fate[o] = "confirmed"
        /\ view.outcome = "failed" => fate[o] = "failed"
    BY DEF IInv, PageOK, View, ViewTrue, OnPageOf
  <1>4. CASE view.outcome = "none" /\ fate[o] = "confirmed"
    <2>1. view'.outcome = "complete"
      BY <1>2, <1>4 DEF outcome
    <2> QED
      BY <1>2, <1>4, <2>1 DEF Promised!Show, OnPageOf
  <1>5. CASE view.outcome = "none" /\ fate[o] = "failed"
    <2>1. view'.outcome = "failed"
      BY <1>2, <1>5 DEF outcome
    <2> QED
      BY <1>2, <1>5, <2>1 DEF Promised!Show, OnPageOf
  <1>6. CASE view.outcome # "none" \/ fate[o] \notin {"confirmed", "failed"}
    <2>1. view'.outcome = view.outcome
      BY <1>2, <1>3, <1>6 DEF outcome
    <2> QED
      BY <1>2, <2>1, PageStutters
  <1> QED
    BY <1>4, <1>5, <1>6

\* Steps that change the mounted page only in what it waits for, or not at all.
LEMMA PageLeftAlone ==
    ASSUME IInv, NEW o \in Orders, OnPageOf(o), OnPageOf(o)', NEW p \in Orders,
           \/ handleConfirmBooking(p) \/ SendOrder(p) \/ CreateOrder(p) \/ Refuse(p)
           \/ (Answered(p) /\ request[p].step # "created") \/ Poll(p)
    PROVE  UNCHANGED Promised(o)!vars
  <1>1. view'.outcome = view.outcome
    BY DEF handleConfirmBooking, SendOrder, CreateOrder, Refuse, Answered, Poll, IInv, PageOK, View
  <1>2. fate'[o] = fate[o] \/ {fate[o], fate'[o]} \subseteq {"none", "pending"}
    <2>1. CASE CreateOrder(p)
      <3>1. request[p] # NULL /\ request[p].step = "sent" /\ fate' = [fate EXCEPT ![p] = "pending"]
        BY <2>1 DEF CreateOrder
      <3>2. fate[p] = "none"
        BY <3>1 DEF IInv, OrdersOK, RequestOK
      <3> QED
        BY <3>1, <3>2 DEF IInv, OrdersOK
    <2>2. CASE ~CreateOrder(p)
      BY <2>2 DEF handleConfirmBooking, SendOrder, Refuse, Answered, Poll, backend
    <2> QED
      BY <2>1, <2>2
  <1> QED
    BY <1>1, <1>2, PageStutters

\* The user's moves either leave the page or keep it.
LEMMA MovesKeepPage ==
    ASSUME IInv, NEW o \in Orders, OnPageOf(o), OnPageOf(o)',
           \/ ClerkLoads \/ SignOut \/ \E u \in Users : SignIn(u)
           \/ Redirect \/ Reload \/ \E path \in Paths : Visit(path)
           \/ \E i \in DOMAIN history : Go(i)
           \/ ToBooking
           \/ \E p \in Orders : Answered(p) /\ request[p].step = "created"
    PROVE  UNCHANGED Promised(o)!vars
  <1>1. here \in Entry
    BY HereTyped DEF IInv
  <1>2. CASE ClerkLoads \/ SignOut \/ \E u \in Users : SignIn(u)
    <2>1. PICK a : SetAuth(a)
      BY <1>2 DEF ClerkLoads, SignOut, SignIn
    <2> QED
      BY <1>1, <2>1, RenderStutters DEF SetAuth, backend
  <1>3. CASE Redirect
    <2>1. view'.component # "/payment-progress"
      <3>. DEFINE path == redirectsTo(auth, here)
      <3>1. path \in {"/booking", "/sign-in"}
        BY <1>3 DEF Redirect, redirectsTo, Navigate, RootRedirect, SignInView, ProtectedRoute
      <3>2. Page(path) \in Entry /\ Page(path).path = path
        BY <3>1 DEF Page, Entry, Paths
      <3>. HIDE DEF path
      <3>3. view'.component = App(auth, Page(path))
        BY <1>3, <3>2, RenderOK DEF Redirect, IInv, PageOK, path
      <3>4. App(auth, Page(path)) \in {"Loading", "Navigate", path}
        BY <3>2, AppTyped
      <3> QED
        BY <3>1, <3>3, <3>4
    <2> QED
      BY <2>1 DEF OnPageOf
  <1>4. CASE Reload \/ \E path \in Paths : Visit(path)
    <2>1. view' = Mount("Loading", {})
      BY <1>4 DEF Reload, Visit, Load
    <2> QED
      BY <2>1 DEF Mount, OnPageOf
  <1>5. ASSUME NEW i \in DOMAIN history, Go(i)
        PROVE  UNCHANGED Promised(o)!vars
    <2>1. history[i] \in Entry
      BY LenProperties DEF IInv, PageOK
    <2> QED
      BY <1>5, <2>1, RenderStutters DEF Go, backend
  <1>6. CASE ToBooking
    <2>1. Page("/booking") \in Entry /\ Render(auth, Page("/booking")) /\ fate' = fate
      BY <1>6 DEF ToBooking, Push, backend, Page, Entry, Paths
    <2> QED
      BY <2>1, RenderStutters
  <1>7. ASSUME NEW p \in Orders, Answered(p), request[p].step = "created"
        PROVE  UNCHANGED Promised(o)!vars
    <2>. DEFINE e == [path |-> "/payment-progress", orderId |-> p]
    <2>1. e \in Entry
      BY DEF Entry, Paths
    <2>2. Render(auth, e) /\ fate' = fate
      BY <1>7 DEF Answered, Push, backend
    <2> QED
      BY <2>1, <2>2, RenderStutters
  <1> QED
    BY <1>2, <1>3, <1>4, <1>5, <1>6, <1>7

\* Answers show the outcome, Retry takes an error back, a webhook settles the
\* order; nothing else is seen.
LEMMA NextPromised ==
    ASSUME IInv, [Next]_vars, NEW o \in Orders, OnPageOf(o), OnPageOf(o)'
    PROVE  [Promised(o)!Next]_(Promised(o)!vars)
  <1>1. ASSUME NEW p \in Orders, PollAnswered(p)
        PROVE  [Promised(o)!Next]_(Promised(o)!vars)
    BY <1>1, AnswerShows DEF Promised!Next
  <1>2. CASE handleRetry
    <2>1. view.outcome = "failed" /\ view'.outcome = "none" /\ fate' = fate
      BY <1>2 DEF handleRetry, backend, IInv, PageOK, View
    <2> QED
      BY <2>1 DEF Promised!Next, Promised!Retry, OnPageOf
  <1>3. ASSUME NEW p \in Orders, Settle(p)
        PROVE  [Promised(o)!Next]_(Promised(o)!vars)
    <2>1. view' = view
      BY <1>3 DEF Settle
    <2>2. CASE p = o
      <3>1. fate[o] = "pending" /\ fate'[o] \in {"confirmed", "failed"}
        BY <1>3, <2>2 DEF Settle, IInv, OrdersOK
      <3> QED
        BY <2>1, <3>1 DEF Promised!Next, Promised!Settle, OnPageOf
    <2>3. CASE p # o
      <3>1. fate'[o] = fate[o]
        BY <1>3, <2>3 DEF Settle, IInv, OrdersOK
      <3> QED
        BY <2>1, <3>1, PageStutters
    <2> QED
      BY <2>2, <2>3
  <1>4. CASE UNCHANGED vars
    BY <1>4, PageStutters DEF vars, backend
  <1> QED
    BY <1>1, <1>2, <1>3, <1>4, MovesKeepPage, PageLeftAlone DEF Next

\* While the tab stays on the page of one order, that page is PaymentPage.
\* (PaymentProgressView as App mounts it)
THEOREM PagePromiseKept == Spec => PageKeepsPromise
  <1>1. IInv /\ [Next]_vars
           => [\A o \in Orders :
                 (view.component = "/payment-progress" /\ view.orders = {o})
                    /\ (view.component = "/payment-progress" /\ view.orders = {o})'
                 => [Promised(o)!Next]_(Promised(o)!vars)]_vars
    BY NextPromised DEF OnPageOf
  <1> QED
    BY <1>1, Invariance, PTL DEF Spec, PageKeepsPromise
==============================================================================
