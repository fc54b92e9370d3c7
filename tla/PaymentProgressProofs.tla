-------------------------- MODULE PaymentProgressProofs --------------------------
(***************************************************************************)
(* Theorems about PaymentProgress, for any number of clicks on Retry and   *)
(* of polls that fail.                                                     *)
(***************************************************************************)
EXTENDS PaymentProgress, TLAPS

\* What a poll has read was so when it was read, and a settled order stays.
Honest(p) ==
    /\ poll[p].at \in {"orderRead", "answered"} => poll[p].order \in {"PENDING", order}
    /\ poll[p].at = "answered" => poll[p].payment \in {"PENDING", payment}

Truth ==
    /\ <<order, payment>> \in {<<"PENDING", "PENDING">>, <<"CONFIRMED", "SUCCESS">>,
                               <<"FAILED", "FAILED">>}
    /\ \A p \in Polls : Honest(p)
    /\ view.isComplete => order = "CONFIRMED"
    /\ view.error => order = "FAILED"
    /\ view.completed >= 1 => payment = "SUCCESS"

\* Once the effects have run the page polls or has an outcome to show; polling
\* begins once, and once more for each click.
wasPolling == effected # NULL /\ effected.isPolling
Polling ==
    /\ effected = NULL => loops = 0 /\ ~view.isPolling
    /\ effected # NULL => /\ view.isPolling \/ view.isComplete \/ view.error
                          /\ loops <= clicks + 1
    /\ view.isPolling /\ ~wasPolling => loops <= clicks

\* The flag is down while the page is shown and up when it is gone; while it is
\* shown, a chain of polls goes on for as long as the polling effect is in force.
chainAlive(l) == l \in timers \/ poll[<<l, "chained">>].at # "off"
Chained ==
    /\ page = "shown" => ~abort
    /\ page = "gone" => abort
    /\ page = "shown" /\ wasPolling => \E l \in Loops : chainAlive(l)

IInv == TypeOK /\ Truth /\ Polling /\ Chained

USE PaymentProgressAssumption

------------------------------------------------------------------------------
(***************************************************************************)
(* Types.                                                                  *)
(***************************************************************************)
LEMMA PollsTyped ==
    /\ NoPoll \in PollState /\ NoPoll.at = "off"
    /\ Sent \in PollState /\ Sent.at = "sent"
    /\ \A l \in Loops : <<l, "immediate">> \in Polls /\ <<l, "chained">> \in Polls
    /\ \A p \in Polls : p[1] \in Loops /\ p = <<p[1], p[2]>>
  BY DEF NoPoll, Sent, PollState, Polls

\* The dependencies as they are, and as a record.
LEMMA DependenciesTyped ==
    ASSUME TypeOK
    PROVE  /\ dependencies \in Deps /\ dependencies # NULL
           /\ dependencies.isPolling = view.isPolling
           /\ dependencies.isComplete = view.isComplete
           /\ dependencies.error = view.error
  BY DEF TypeOK, View, dependencies, Deps

LEMMA InitInv == Init => IInv
  <1> SUFFICES ASSUME Init PROVE IInv
    OBVIOUS
  <1>1. \A p \in Polls : poll[p].at = "off"
    BY PollsTyped DEF Init
  <1>2. TypeOK
    <2>1. view \in View
      BY DEF Init, View
    <2>2. poll \in [Polls -> PollState]
      BY PollsTyped DEF Init
    <2>3. order \in OrderStatus /\ payment \in PaymentStatus
      BY DEF Init, OrderStatus, PaymentStatus
    <2>4. 0 \in 0 .. MaxClicks /\ 0 \in 0 .. MaxFailures
      OBVIOUS
    <2> QED
      BY <2>1, <2>2, <2>3, <2>4 DEF Init, TypeOK
  <1>3. Truth
    BY <1>1 DEF Init, Truth, Honest
  <1>4. Polling /\ Chained
    BY DEF Init, Polling, Chained, wasPolling
  <1> QED
    BY <1>2, <1>3, <1>4 DEF IInv

------------------------------------------------------------------------------
(***************************************************************************)
(* order-service.                                                          *)
(***************************************************************************)
LEMMA SettleInv == ASSUME IInv, Settle PROVE IInv'
  <1>1. /\ order = "PENDING"
        /\ <<order', payment'>> \in {<<"CONFIRMED", "SUCCESS">>, <<"FAILED", "FAILED">>}
        /\ UNCHANGED <<poll, timers, pollRef, abort, view, effected, loops, page, clicks, failures>>
    BY DEF Settle, limits
  <1>2. TypeOK'
    BY <1>1 DEF IInv, TypeOK, OrderStatus, PaymentStatus, Final
  <1>3. payment = "PENDING"
    BY <1>1 DEF IInv, Truth
  <1>4. Truth'
    BY <1>1, <1>3 DEF IInv, Truth, Honest
  <1>5. Polling' /\ Chained'
    BY <1>1 DEF IInv, Polling, Chained, wasPolling, chainAlive
  <1> QED
    BY <1>2, <1>4, <1>5 DEF IInv

LEMMA ReadInv ==
    ASSUME IInv, NEW p \in Polls, ReadOrder(p) \/ ReadPayment(p)
    PROVE  IInv'
  <1>1. UNCHANGED <<order, payment, timers, pollRef, abort, view, effected, loops, page, clicks,
                    failures>>
    BY DEF ReadOrder, ReadPayment, backend, limits
  <1>2. poll[p] \in PollState
    BY DEF IInv, TypeOK
  <1>3. PICK r \in PollState :
           /\ poll' = [poll EXCEPT ![p] = r]
           /\ poll[p].at # "off" /\ r.at \in {"orderRead", "answered"}
           /\ r.order \in {"PENDING", order}
           /\ r.at = "answered" => r.payment \in {"PENDING", payment}
    <2>1. CASE ReadOrder(p)
      <3>. DEFINE r == [poll[p] EXCEPT !.at = "orderRead", !.order = order]
      <3>1. r \in PollState /\ r.at = "orderRead" /\ r.order = order
        BY <1>2 DEF PollState, IInv, TypeOK
      <3> QED
        BY <2>1, <3>1 DEF ReadOrder
    <2>2. CASE ReadPayment(p)
      <3>. DEFINE r == [poll[p] EXCEPT !.at = "answered", !.payment = payment]
      <3>1. r \in PollState /\ r.at = "answered" /\ r.order = poll[p].order /\ r.payment = payment
        BY <1>2 DEF PollState, IInv, TypeOK
      <3>2. poll[p].order \in {"PENDING", order}
        BY <2>2 DEF ReadPayment, IInv, Truth, Honest
      <3> QED
        BY <2>2, <3>1, <3>2 DEF ReadPayment
    <2> QED
      BY <2>1, <2>2
  <1>4. poll'[p] = r /\ \A q \in Polls \ {p} : poll'[q] = poll[q]
    BY <1>3 DEF IInv, TypeOK
  <1>5. TypeOK'
    BY <1>1, <1>3 DEF IInv, TypeOK
  <1>6. Truth'
    BY <1>1, <1>3, <1>4 DEF IInv, Truth, Honest
  <1>7. \A l \in Loops : chainAlive(l) => chainAlive(l)'
    BY <1>1, <1>3, <1>4, PollsTyped DEF chainAlive
  <1>8. Polling' /\ Chained'
    BY <1>1, <1>7 DEF IInv, Polling, Chained, wasPolling
  <1> QED
    BY <1>5, <1>6, <1>8 DEF IInv

------------------------------------------------------------------------------
(***************************************************************************)
(* Effects and timers.                                                     *)
(***************************************************************************)
LEMMA FireTimerInv == ASSUME IInv, NEW l \in Loops, FireTimer(l) PROVE IInv'
  <1>1. /\ timers' = timers \ {l}
        /\ UNCHANGED <<order, payment, pollRef, abort, view, effected, loops, page, clicks, failures>>
    BY DEF FireTimer, backend, limits
  <1>2. \/ abort /\ poll' = poll
        \/ ~abort /\ poll' = [poll EXCEPT ![<<l, "chained">>] = Sent]
    BY DEF FireTimer
  <1>3. poll' \in [Polls -> PollState] /\ \A p \in Polls : poll'[p] \in {poll[p], Sent}
    BY <1>2, PollsTyped DEF IInv, TypeOK
  <1>4. TypeOK'
    BY <1>1, <1>3 DEF IInv, TypeOK
  <1>5. Truth'
    BY <1>1, <1>3, PollsTyped DEF IInv, Truth, Honest
  <1>6. ~abort => \A k \in Loops : chainAlive(k) => chainAlive(k)'
    <2>1. ASSUME ~abort, NEW k \in Loops, chainAlive(k) PROVE chainAlive(k)'
      <3>1. CASE k = l
        <4>1. poll'[<<l, "chained">>] = Sent
          BY <1>2, <2>1, PollsTyped DEF IInv, TypeOK
        <4> QED
          BY <3>1, <4>1, PollsTyped DEF chainAlive
      <3>2. CASE k # l
        BY <1>1, <1>3, <2>1, <3>2, PollsTyped DEF chainAlive
      <3> QED
        BY <3>1, <3>2
    <2> QED
      BY <2>1
  <1>7. Polling' /\ Chained'
    BY <1>1, <1>6 DEF IInv, Polling, Chained, wasPolling
  <1> QED
    BY <1>4, <1>5, <1>7 DEF IInv

\* The polling effect begins at most as often as polling was begun.
LEMMA EffectsInv == ASSUME IInv, Effects PROVE IInv'
  <1>. DEFINE starts == ~view.isPolling /\ ~view.isComplete /\ ~view.error
              begins == view.isPolling /\ ~wasPolling /\ ~abort
              ends == ~view.isPolling /\ wasPolling
  <1>1. /\ page # "gone" /\ effected' = dependencies
        /\ view' = [view EXCEPT !.isPolling = @ \/ starts]
        /\ abort' = (abort /\ ~starts)
        /\ UNCHANGED <<order, payment, page, clicks, failures>>
    BY DEF Effects, backend, limits
  <1>2. /\ loops' = IF begins THEN loops + 1 ELSE loops
        /\ poll' = IF begins THEN [poll EXCEPT ![<<loops + 1, "immediate">>] = Sent] ELSE poll
        /\ timers' = CASE begins -> timers \cup {loops + 1}
                       [] ends   -> Cleared
                       [] OTHER  -> timers
        /\ pollRef' = CASE begins -> loops + 1
                        [] ends   -> NULL
                        [] OTHER  -> pollRef
    BY DEF Effects, wasPolling
  <1>3. /\ dependencies \in Deps /\ dependencies # NULL
        /\ dependencies.isPolling = view.isPolling
    BY DependenciesTyped DEF IInv
  <1>4. /\ view' \in View
        /\ view'.isPolling <=> (view.isPolling \/ starts)
        /\ view'.isComplete = view.isComplete /\ view'.error = view.error
        /\ view'.completed = view.completed
    BY <1>1 DEF IInv, TypeOK, View
  <1>5. effected' \in Deps /\ effected' # NULL /\ (wasPolling' <=> view.isPolling)
    BY <1>1, <1>3 DEF wasPolling
  <1>6. /\ loops \in Nat /\ clicks \in Nat /\ clicks <= MaxClicks
        /\ timers \subseteq Loops /\ pollRef \in Loops \cup {NULL} /\ abort \in BOOLEAN
    BY DEF IInv, TypeOK, Loops
  <1>7. begins => loops <= clicks /\ loops + 1 \in Loops
    BY <1>6 DEF IInv, Polling, Loops
  <1>. HIDE DEF starts, begins, ends
  <1>8. poll' \in [Polls -> PollState] /\ \A p \in Polls : poll'[p] \in {poll[p], Sent}
    BY <1>2, <1>7, PollsTyped DEF IInv, TypeOK
  <1>9. TypeOK'
    <2>1. /\ loops' \in {0} \cup Loops /\ timers' \subseteq Loops
          /\ pollRef' \in Loops \cup {NULL}
      BY <1>2, <1>6, <1>7 DEF IInv, TypeOK, Cleared
    <2>2. abort' \in BOOLEAN
      BY <1>1
    <2> QED
      BY <1>1, <1>4, <1>5, <1>8, <2>1, <2>2 DEF IInv, TypeOK
  <1>10. Truth'
    BY <1>1, <1>4, <1>8, PollsTyped DEF IInv, Truth, Honest
  <1>11. Polling'
    <2>1. view'.isPolling \/ view'.isComplete \/ view'.error
      BY <1>4 DEF starts
    <2>2. loops' <= clicks + 1
      BY <1>2, <1>6, <1>7 DEF IInv, Polling
    <2>3. ASSUME view'.isPolling, ~view.isPolling PROVE loops' <= clicks
      <3>1. effected = NULL
        BY <1>4, <2>3 DEF starts, IInv, Polling
      <3> QED
        BY <1>2, <1>6, <2>3, <3>1 DEF begins, IInv, Polling
    <2> QED
      BY <1>1, <1>5, <2>1, <2>2, <2>3 DEF Polling
  <1>12. Chained'
    <2>1. (page = "shown" => ~abort') /\ page # "gone"
      BY <1>1 DEF IInv, Chained
    <2>2. ASSUME page = "shown", view.isPolling PROVE \E l \in Loops : chainAlive(l)'
      <3>1. CASE wasPolling
        <4>1. PICK l \in Loops : chainAlive(l)
          BY <2>2, <3>1 DEF IInv, Chained
        <4>2. timers' = timers /\ poll' = poll
          BY <1>2, <2>2, <3>1 DEF begins, ends
        <4> QED
          BY <4>1, <4>2 DEF chainAlive
      <3>2. CASE ~wasPolling
        <4>1. begins
          BY <2>2, <3>2 DEF begins, IInv, Chained
        <4>2. loops + 1 \in timers'
          <5>1. ~ends
            BY <2>2 DEF ends
          <5>2. timers' = timers \cup {loops + 1}
            BY <1>2, <4>1, <5>1
          <5> QED
            BY <5>2
        <4> QED
          BY <1>7, <4>1, <4>2 DEF chainAlive
      <3> QED
        BY <3>1, <3>2
    <2> QED
      BY <1>1, <1>5, <2>1, <2>2 DEF Chained
  <1> QED
    BY <1>9, <1>10, <1>11, <1>12 DEF IInv

------------------------------------------------------------------------------
(***************************************************************************)
(* The ends of polls.                                                      *)
(***************************************************************************)
\* A poll that ends while the flag is down leaves its chain alive.
LEMMA EndPollKeeps ==
    ASSUME TypeOK, Truth, NEW p \in Polls, EndPoll(p)
    PROVE  /\ poll' \in [Polls -> PollState]
           /\ timers' \subseteq Loops /\ pollRef' \in Loops \cup {NULL}
           /\ \A q \in Polls : poll'[q] \in {poll[q], NoPoll}
           /\ ~abort => \A l \in Loops : chainAlive(l) => chainAlive(l)'
  <1>1. p[1] \in Loops /\ poll' = [poll EXCEPT ![p] = NoPoll]
    BY PollsTyped DEF EndPoll
  <1>2. /\ poll' \in [Polls -> PollState]
        /\ poll'[p] = NoPoll /\ \A q \in Polls \ {p} : poll'[q] = poll[q]
    BY <1>1, PollsTyped DEF TypeOK
  <1>3. timers \subseteq timers' /\ timers' \subseteq Loops /\ pollRef' \in Loops \cup {NULL}
    BY <1>1 DEF EndPoll, TypeOK
  <1>4. ASSUME ~abort, NEW l \in Loops, chainAlive(l) PROVE chainAlive(l)'
    <2>1. CASE p = <<l, "chained">>
      <3>1. l \in timers'
        BY <1>4, <2>1 DEF EndPoll
      <3> QED
        BY <3>1 DEF chainAlive
    <2>2. CASE p # <<l, "chained">>
      <3>1. poll'[<<l, "chained">>] = poll[<<l, "chained">>]
        BY <1>2, <2>2, PollsTyped
      <3> QED
        BY <1>3, <1>4, <3>1 DEF chainAlive
    <2> QED
      BY <2>1, <2>2
  <1> QED
    BY <1>2, <1>3, <1>4

\* What an answer makes of the page is so, and polling only ever ends with it.
LEMMA AdvancedIsTrue ==
    ASSUME TypeOK, Truth, NEW o \in {"PENDING", order}, NEW m \in {"PENDING", payment}
    PROVE  LET v == Advanced(o, m) IN
           /\ v \in View
           /\ v.isComplete => order = "CONFIRMED"
           /\ v.error => order = "FAILED"
           /\ v.completed >= 1 => payment = "SUCCESS"
           /\ v.isPolling => view.isPolling
           /\ view.isPolling \/ view.isComplete \/ view.error
                 => v.isPolling \/ v.isComplete \/ v.error
           /\ view.isComplete => v.isComplete
           /\ view.error => v.error
  <1>1. view \in View
    BY DEF TypeOK
  <1>2. CASE o = "FAILED"
    <2>. DEFINE v == [view EXCEPT !.error = TRUE, !.isPolling = FALSE]
    <2>1. Advanced(o, m) = v /\ order = "FAILED"
      BY <1>2 DEF Advanced
    <2>2. /\ v \in View /\ v.error /\ ~v.isPolling
          /\ v.isComplete = view.isComplete /\ v.completed = view.completed
      BY <1>1 DEF View
    <2>. HIDE DEF v
    <2> QED
      BY <2>1, <2>2 DEF Truth
  <1>3. CASE o # "FAILED"
    <2>. DEFINE n == steps(o, m)
                v == [view EXCEPT !.current = IF n >= 2 THEN 2 ELSE 1,
                                  !.completed = n - 1,
                                  !.isComplete = @ \/ n >= 3,
                                  !.isPolling = @ /\ n < 3]
    <2>1. Advanced(o, m) = v
      BY <1>3 DEF Advanced
    <2>2. /\ n \in {1, 2, 3}
          /\ n >= 2 => m = "SUCCESS"
          /\ n = 3 => o = "CONFIRMED"
      BY DEF steps
    <2>. HIDE DEF n
    <2>3. /\ v \in View /\ v.error = view.error /\ v.completed = n - 1
          /\ v.isComplete <=> (view.isComplete \/ n = 3)
          /\ v.isPolling <=> (view.isPolling /\ n # 3)
      <3>. DEFINE c == IF n >= 2 THEN 2 ELSE 1
                  b == view.isComplete \/ n >= 3
                  d == view.isPolling /\ n < 3
                  w == [view EXCEPT !.current = c, !.completed = n - 1,
                                    !.isComplete = b, !.isPolling = d]
      <3>1. /\ c \in 0 .. 2 /\ n - 1 \in -1 .. 2 /\ (n >= 3 <=> n = 3) /\ (n < 3 <=> n # 3)
            /\ b \in BOOLEAN /\ d \in BOOLEAN
        BY <2>2
      <3>2. (b <=> (view.isComplete \/ n = 3)) /\ (d <=> (view.isPolling /\ n # 3))
        BY <3>1
      <3>3. v = w
        OBVIOUS
      <3>. HIDE DEF b, c, d
      <3>4. w \in View /\ w.error = view.error /\ w.completed = n - 1
        BY <1>1, <3>1 DEF View
      <3>5. w.isComplete = b /\ w.isPolling = d
        BY <1>1 DEF View
      <3> QED
        BY <3>2, <3>3, <3>4, <3>5
    <2>. HIDE DEF v
    <2>4. v.isComplete => order = "CONFIRMED"
      BY <2>2, <2>3 DEF Truth
    <2>5. v.completed >= 1 => payment = "SUCCESS"
      BY <2>2, <2>3 DEF Truth
    <2> QED
      BY <2>1, <2>3, <2>4, <2>5 DEF Truth
  <1> QED
    BY <1>2, <1>3

LEMMA EndPollInv ==
    ASSUME IInv, NEW p \in Polls, TakeAnswer(p) \/ PollFails(p)
    PROVE  IInv'
  <1>1. /\ EndPoll(p)
        /\ failures' \in 0 .. MaxFailures
        /\ UNCHANGED <<order, payment, abort, effected, loops, page, clicks>>
    BY DEF TakeAnswer, PollFails, backend, limits, IInv, TypeOK
  <1>2. /\ view' \in View
        /\ view'.isComplete => order = "CONFIRMED"
        /\ view'.error => order = "FAILED"
        /\ view'.completed >= 1 => payment = "SUCCESS"
        /\ view'.isPolling => view.isPolling
        /\ view.isPolling \/ view.isComplete \/ view.error
              => view'.isPolling \/ view'.isComplete \/ view'.error
    <2>1. CASE view' = view
      BY <2>1 DEF IInv, TypeOK, Truth
    <2>2. CASE TakeAnswer(p) /\ view' = Advanced(poll[p].order, poll[p].payment)
      <3>1. poll[p].order \in {"PENDING", order} /\ poll[p].payment \in {"PENDING", payment}
        BY <2>2 DEF TakeAnswer, IInv, Truth, Honest
      <3> QED
        BY <2>2, <3>1, AdvancedIsTrue DEF IInv
    <2> QED
      BY <2>1, <2>2 DEF TakeAnswer, PollFails
  <1>3. /\ poll' \in [Polls -> PollState]
        /\ timers' \subseteq Loops /\ pollRef' \in Loops \cup {NULL}
        /\ \A q \in Polls : poll'[q] \in {poll[q], NoPoll}
        /\ ~abort => \A l \in Loops : chainAlive(l) => chainAlive(l)'
    BY <1>1, EndPollKeeps DEF IInv
  <1>4. TypeOK'
    BY <1>1, <1>2, <1>3 DEF IInv, TypeOK
  <1>5. Truth'
    BY <1>1, <1>2, <1>3, PollsTyped DEF IInv, Truth, Honest
  <1>6. Polling'
    BY <1>1, <1>2 DEF IInv, Polling, wasPolling
  <1>7. Chained'
    BY <1>1, <1>3 DEF IInv, Chained, wasPolling
  <1> QED
    BY <1>4, <1>5, <1>6, <1>7 DEF IInv

------------------------------------------------------------------------------
(***************************************************************************)
(* The user.                                                               *)
(***************************************************************************)
\* What card says of the state of the page.
LEMMA CardShows ==
    ASSUME TypeOK
    PROVE  /\ card = "success" => view.isComplete
           /\ card = "error" => view.error /\ ~view.isComplete
           /\ card \in {"initializing", "processing"} => ~view.isComplete /\ ~view.error
  <1>1. view.isComplete \in BOOLEAN /\ view.error \in BOOLEAN /\ view.isPolling \in BOOLEAN
    BY DEF TypeOK, View
  <1>2. CASE view.isComplete
    BY <1>2 DEF card
  <1>3. CASE ~view.isComplete /\ view.error
    BY <1>3 DEF card
  <1>4. CASE ~view.isComplete /\ ~view.error
    <2>1. card # "success" /\ card # "error"
      BY <1>4 DEF card
    <2> QED
      BY <1>4, <2>1
  <1> QED
    BY <1>1, <1>2, <1>3, <1>4

\* A click begins polling once more, and is counted.
LEMMA RetryInv == ASSUME IInv, Retry PROVE IInv'
  <1>1. /\ clicks < MaxClicks /\ page # "gone" /\ effected = dependencies
        /\ clicks' = clicks + 1 /\ abort' = FALSE
        /\ view' = [view EXCEPT !.error = FALSE, !.isComplete = FALSE, !.isPolling = TRUE]
        /\ UNCHANGED <<order, payment, poll, timers, pollRef, effected, loops, page, failures>>
    BY DEF Retry, EffectsRun, backend
  <1>2. effected # NULL
    BY <1>1, DependenciesTyped DEF IInv
  <1>3. /\ view' \in View /\ view'.isPolling /\ ~view'.isComplete /\ ~view'.error
        /\ view'.completed = view.completed
    BY <1>1 DEF IInv, TypeOK, View
  <1>4. clicks' \in 0 .. MaxClicks /\ loops \in Nat /\ clicks \in Nat
    BY <1>1 DEF IInv, TypeOK, Loops
  <1>5. TypeOK'
    BY <1>1, <1>3, <1>4 DEF IInv, TypeOK
  <1>6. Truth'
    BY <1>1, <1>3 DEF IInv, Truth, Honest
  <1>7. Polling'
    BY <1>1, <1>2, <1>3, <1>4 DEF IInv, Polling
  <1>8. Chained'
    BY <1>1 DEF IInv, Chained, wasPolling, chainAlive
  <1> QED
    BY <1>5, <1>6, <1>7, <1>8 DEF IInv

LEMMA LeaveInv == ASSUME IInv, Back \/ Unmount PROVE IInv'
  <1>1. /\ page' \in {"leaving", "gone"} /\ abort' = TRUE
        /\ timers' = Cleared /\ pollRef' = NULL
        /\ UNCHANGED <<order, payment, poll, effected, loops, clicks, failures>>
    BY DEF Back, Unmount, backend, limits
  <1>2. /\ view' \in View
        /\ view'.isComplete = view.isComplete /\ view'.error = view.error
        /\ view'.completed = view.completed
        /\ view'.isPolling => view.isPolling
        /\ view.isPolling => view'.isPolling \/ view.isComplete \/ view.error
    <2>1. CASE Back
      <3>1. view' = [view EXCEPT !.isPolling = FALSE] /\ card \in {"success", "error"}
        BY <2>1 DEF Back
      <3>2. view.isComplete \/ view.error
        BY <3>1, CardShows DEF IInv
      <3> QED
        BY <3>1, <3>2 DEF IInv, TypeOK, View
    <2>2. CASE Unmount
      BY <2>2 DEF Unmount, IInv, TypeOK
    <2> QED
      BY <2>1, <2>2
  <1>3. TypeOK'
    BY <1>1, <1>2 DEF IInv, TypeOK, Cleared
  <1>4. Truth'
    BY <1>1, <1>2 DEF IInv, Truth, Honest
  <1>5. Polling'
    BY <1>1, <1>2 DEF IInv, Polling, wasPolling
  <1>6. Chained'
    BY <1>1 DEF Chained
  <1> QED
    BY <1>3, <1>4, <1>5, <1>6 DEF IInv

------------------------------------------------------------------------------
(***************************************************************************)
(* The theorems.                                                           *)
(***************************************************************************)
LEMMA NextInv == IInv /\ [Next]_vars => IInv'
  <1> SUFFICES ASSUME IInv, [Next]_vars PROVE IInv'
    OBVIOUS
  <1>1. CASE UNCHANGED vars
    <2>1. UNCHANGED <<order, payment, poll, timers, pollRef, abort, view, effected, loops, page,
                      clicks, failures>>
      BY <1>1 DEF vars, backend, limits
    <2> QED
      BY <2>1 DEF IInv, TypeOK, Truth, Honest, Polling, Chained, wasPolling, chainAlive
  <1>2. ASSUME NEW p \in Polls, Serve(p) \/ PollFails(p) PROVE IInv'
    BY <1>2, ReadInv, EndPollInv DEF Serve
  <1>3. ASSUME NEW l \in Loops, FireTimer(l) PROVE IInv'
    BY <1>3, FireTimerInv
  <1>4. CASE Settle \/ Effects \/ Retry \/ Back \/ Unmount
    BY <1>4, SettleInv, EffectsInv, RetryInv, LeaveInv
  <1>5. CASE Quiescent
    BY <1>1, <1>5 DEF Quiescent
  <1> QED
    BY <1>1, <1>2, <1>3, <1>4, <1>5 DEF Next

\* Everything above holds at every moment of the page's life.
THEOREM Invariance == Spec => []IInv
  BY InitInv, NextInv, PTL DEF Spec

\* State, references, timers and polls keep their types; no effect starts more
\* loops than one and one for each click on Retry.
THEOREM TypeCorrect == Spec => []TypeOK
  <1>1. IInv => TypeOK
    BY DEF IInv
  <1> QED
    BY <1>1, Invariance, PTL

\* pollStatus and findWithPayment: torn, late and reordered answers never make
\* the page say what is not so.
THEOREM ShownCorrect == Spec => []ShownIsTrue
  <1>1. IInv => ShownIsTrue
    BY CardShows DEF IInv, Truth, ShownIsTrue
  <1> QED
    BY <1>1, Invariance, PTL

\* The polling effect, scheduleNext and handleRetry: a page that shows a spinner
\* has a poll of a chain under way or its timer armed, after any failures and
\* clicks.
THEOREM StallsNever == Spec => []NeverStalls
  <1>1. IInv => NeverStalls
    <2> SUFFICES ASSUME IInv, page = "shown", EffectsRun,
                        card \in {"initializing", "processing"}
                 PROVE  /\ ~abort
                        /\ \E l \in Loops : l \in timers \/ poll[<<l, "chained">>].at # "off"
      BY DEF NeverStalls
    <2>1. ~view.isComplete /\ ~view.error
      BY CardShows DEF IInv
    <2>2. effected # NULL /\ effected.isPolling = view.isPolling
      BY DependenciesTyped DEF IInv, EffectsRun
    <2>3. wasPolling
      BY <2>1, <2>2 DEF IInv, Polling, wasPolling
    <2> QED
      BY <2>3 DEF IInv, Chained, chainAlive
  <1> QED
    BY <1>1, Invariance, PTL

\* The unmount effect raises the flag for good: no timer that it could not clear
\* sends another poll, no answer still on its way is shown.
THEOREM QuietCorrect == Spec => QuietAfterLeaving
  <1>1. ASSUME IInv, [Next]_vars, page = "gone"
        PROVE  view' = view /\ \A p \in Polls : poll'[p].at = "sent" => poll[p].at = "sent"
    <2>1. abort /\ poll \in [Polls -> PollState]
      BY <1>1 DEF IInv, Chained, TypeOK
    <2>2. CASE UNCHANGED <<view, poll>>
      BY <2>2
    <2>3. ASSUME NEW p \in Polls, ReadOrder(p) \/ ReadPayment(p)
          PROVE  /\ view' = view
                 /\ \A q \in Polls : poll'[q].at = "sent" => poll[q].at = "sent"
      <3>1. view' = view /\ \A q \in Polls \ {p} : poll'[q] = poll[q]
        BY <2>1, <2>3 DEF ReadOrder, ReadPayment
      <3>2. poll'[p].at \in {"orderRead", "answered"}
        BY <2>1, <2>3 DEF ReadOrder, ReadPayment, PollState
      <3> QED
        BY <3>1, <3>2
    <2>4. ASSUME NEW p \in Polls, TakeAnswer(p) \/ PollFails(p)
          PROVE  /\ view' = view
                 /\ \A q \in Polls : poll'[q].at = "sent" => poll[q].at = "sent"
      <3>1. view' = view /\ EndPoll(p)
        BY <2>1, <2>4 DEF TakeAnswer, PollFails
      <3>2. \A q \in Polls : poll'[q] \in {poll[q], NoPoll}
        BY <1>1, <3>1, EndPollKeeps DEF IInv
      <3> QED
        BY <3>1, <3>2, PollsTyped
    <2>5. CASE Settle \/ (\E l \in Loops : FireTimer(l)) \/ Quiescent
      BY <2>1, <2>2, <2>5 DEF Settle, FireTimer, Quiescent, vars
    <2>6. ~Effects /\ ~Retry /\ ~Back /\ ~Unmount
      BY <1>1 DEF Effects, Retry, Back, Unmount
    <2> QED
      BY <1>1, <2>2, <2>3, <2>4, <2>5, <2>6 DEF Next, Serve, vars
  <1>2. IInv /\ [Next]_vars =>
           [page = "gone" => /\ view' = view
                             /\ \A p \in Polls : poll'[p].at = "sent" => poll[p].at = "sent"]_vars
    BY <1>1
  <1> QED
    BY <1>2, Invariance, PTL DEF Spec, QuietAfterLeaving

------------------------------------------------------------------------------
(***************************************************************************)
(* PaymentProgress implements PaymentPage.                                 *)
(***************************************************************************)
\* What is shown, by the two parts of the state that decide it.
LEMMA OutcomeShown ==
    ASSUME TypeOK
    PROVE  outcomeShown = IF view.isComplete THEN "success"
                          ELSE IF view.error THEN "error" ELSE "spinner"
  <1>1. view.isComplete \in BOOLEAN /\ view.error \in BOOLEAN /\ view.isPolling \in BOOLEAN
    BY DEF TypeOK, View
  <1>2. CASE view.isComplete
    BY <1>2 DEF card, outcomeShown
  <1>3. CASE ~view.isComplete /\ view.error
    BY <1>3 DEF card, outcomeShown
  <1>4. CASE ~view.isComplete /\ ~view.error
    <2>1. card \in {"initializing", "processing"}
      BY <1>1, <1>4 DEF card
    <2> QED
      BY <1>4, <2>1 DEF outcomeShown
  <1> QED
    BY <1>1, <1>2, <1>3, <1>4

\* A step that leaves the order, the outcome and the page alone is a stutter.
LEMMA OutcomeKept ==
    ASSUME TypeOK, TypeOK', UNCHANGED <<order, page>>,
           view'.isComplete = view.isComplete, view'.error = view.error
    PROVE  UNCHANGED Promised!vars
  <1>1. outcomeShown' = outcomeShown
    <2>1. (outcomeShown = IF view.isComplete THEN "success"
                          ELSE IF view.error THEN "error" ELSE "spinner")'
      BY OutcomeShown, PTL
    <2> QED
      BY <2>1, OutcomeShown
  <1> QED
    BY <1>1 DEF Promised!vars, fateOf

\* An answer shows what has become of the order, or changes nothing.
LEMMA AnswerShows ==
    ASSUME IInv, IInv', NEW p \in Polls, TakeAnswer(p)
    PROVE  Promised!Show \/ UNCHANGED Promised!vars
  <1>1. UNCHANGED <<order, page>>
    BY DEF TakeAnswer, backend
  <1>2. CASE view' = view
    BY <1>1, <1>2, OutcomeKept DEF IInv
  <1>3. CASE ~abort /\ view' = Advanced(poll[p].order, poll[p].payment)
    <2>1. poll[p].order \in {"PENDING", order} /\ poll[p].payment \in {"PENDING", payment}
      BY DEF TakeAnswer, IInv, Truth, Honest
    <2>2. /\ view.isComplete => view'.isComplete
          /\ view.error => view'.error
          /\ view'.isComplete => order = "CONFIRMED"
          /\ view'.error => order = "FAILED"
      BY <1>3, <2>1, AdvancedIsTrue DEF IInv
    <2>3. view \in View /\ view' \in View
      BY DEF IInv, TypeOK
    <2>4. CASE view.isComplete \/ view.error
      BY <1>1, <2>2, <2>3, <2>4, OutcomeKept DEF IInv, View
    <2>5. CASE ~view.isComplete /\ ~view.error /\ ~view'.isComplete /\ ~view'.error
      BY <1>1, <2>3, <2>5, OutcomeKept DEF IInv, View
    <2>6. CASE ~view.isComplete /\ ~view.error /\ (view'.isComplete \/ view'.error)
      <3>1. outcomeShown = "spinner"
        BY <2>6, OutcomeShown DEF IInv
      <3>2. (outcomeShown = IF view.isComplete THEN "success"
                            ELSE IF view.error THEN "error" ELSE "spinner")'
        BY OutcomeShown, PTL DEF IInv
      <3>3. page # "gone" /\ page' # "gone"
        BY <1>1, <1>3 DEF IInv, Chained
      <3>4. fateOf(order') = fateOf(order)
        BY <1>1
      <3>5. CASE view'.isComplete
        BY <1>1, <2>2, <3>1, <3>2, <3>3, <3>5 DEF Promised!Show, fateOf
      <3>6. CASE ~view'.isComplete /\ view'.error
        BY <1>1, <2>2, <3>1, <3>2, <3>3, <3>6 DEF Promised!Show, fateOf
      <3> QED
        BY <2>6, <3>5, <3>6
    <2> QED
      BY <2>4, <2>5, <2>6
  <1> QED
    BY <1>2, <1>3 DEF TakeAnswer

LEMMA RetryShows ==
    ASSUME IInv, IInv', Retry
    PROVE  Promised!Retry
  <1>1. /\ page # "gone" /\ card = "error" /\ UNCHANGED <<order, page>>
        /\ view' = [view EXCEPT !.error = FALSE, !.isComplete = FALSE, !.isPolling = TRUE]
    BY DEF Retry, backend
  <1>2. ~view'.isComplete /\ ~view'.error
    BY <1>1 DEF IInv, TypeOK, View
  <1>3. (outcomeShown = IF view.isComplete THEN "success"
                        ELSE IF view.error THEN "error" ELSE "spinner")'
    BY OutcomeShown, PTL DEF IInv
  <1>4. outcomeShown = "error"
    BY <1>1 DEF outcomeShown
  <1> QED
    BY <1>1, <1>2, <1>3, <1>4 DEF Promised!Retry, fateOf

\* The five kinds of steps that the user sees, and those that nobody sees.
LEMMA NextPromised ==
    ASSUME IInv, IInv', [Next]_vars
    PROVE  Promised!Next \/ UNCHANGED Promised!vars
  <1>1. CASE Settle
    <2>1. /\ order = "PENDING" /\ order' \in {"CONFIRMED", "FAILED"}
          /\ UNCHANGED <<view, page>>
      BY <1>1 DEF Settle
    <2>2. outcomeShown' = outcomeShown
      BY <2>1 DEF outcomeShown, card
    <2> QED
      BY <2>1, <2>2 DEF Promised!Next, Promised!Settle, fateOf
  <1>2. CASE Effects
    <2>1. UNCHANGED <<order, page>> /\ view' = [view EXCEPT !.isPolling = view'.isPolling]
      <3>1. UNCHANGED <<order, page>>
        BY <1>2 DEF Effects, backend
      <3>2. PICK b : view' = [view EXCEPT !.isPolling = b]
        BY <1>2 DEF Effects
      <3>3. view'.isPolling = b
        BY <3>2 DEF IInv, TypeOK, View
      <3> QED
        BY <3>1, <3>2, <3>3
    <2>2. view'.isComplete = view.isComplete /\ view'.error = view.error
      BY <2>1 DEF IInv, TypeOK, View
    <2> QED
      BY <2>1, <2>2, OutcomeKept DEF IInv
  <1>3. ASSUME NEW p \in Polls, TakeAnswer(p)
        PROVE  Promised!Next \/ UNCHANGED Promised!vars
    BY <1>3, AnswerShows DEF Promised!Next
  <1>4. CASE Retry
    BY <1>4, RetryShows DEF Promised!Next
  <1>5. CASE Back
    <2>1. /\ page = "shown" /\ page' = "leaving" /\ order' = order
          /\ view' = [view EXCEPT !.isPolling = FALSE]
      BY <1>5 DEF Back, backend
    <2>2. view'.isComplete = view.isComplete /\ view'.error = view.error
      BY <2>1 DEF IInv, TypeOK, View
    <2>3. outcomeShown' = outcomeShown
      <3>1. (outcomeShown = IF view.isComplete THEN "success"
                            ELSE IF view.error THEN "error" ELSE "spinner")'
        BY OutcomeShown, PTL DEF IInv
      <3> QED
        BY <2>2, <3>1, OutcomeShown DEF IInv
    <2> QED
      BY <2>1, <2>3 DEF Promised!vars, fateOf
  <1>6. CASE Unmount
    <2>1. page # "gone" /\ page' = "gone" /\ UNCHANGED <<order, view>>
      BY <1>6 DEF Unmount, backend
    <2>2. outcomeShown' = outcomeShown
      BY <2>1 DEF outcomeShown, card
    <2> QED
      BY <2>1, <2>2 DEF Promised!Next, Promised!Leave, fateOf
  <1>7. ASSUME \/ \E p \in Polls : ReadOrder(p) \/ ReadPayment(p) \/ PollFails(p)
               \/ \E l \in Loops : FireTimer(l)
               \/ Quiescent \/ UNCHANGED vars
        PROVE  UNCHANGED Promised!vars
    <2>1. UNCHANGED <<order, page, view>>
      BY <1>7 DEF ReadOrder, ReadPayment, PollFails, FireTimer, Quiescent, vars, backend
    <2> QED
      BY <2>1, OutcomeKept DEF IInv
  <1> QED
    BY <1>1, <1>2, <1>3, <1>4, <1>5, <1>6, <1>7 DEF Next, Serve

\* Polls read at two moments, answers in any order, timers that were not cleared,
\* effects that run late and pages half left: the user sees the simple page.
\* (PaymentProgressView)
THEOREM Refinement == Spec => Promise
  <1>1. Init => Promised!Init
    <2> SUFFICES ASSUME Init
                 PROVE  Promised!Init
      OBVIOUS
    <2>1. outcomeShown = "spinner"
      BY InitInv, OutcomeShown DEF IInv, Init
    <2> QED
      BY <2>1 DEF Init, Promised!Init, fateOf
  <1>2. IInv /\ IInv' /\ [Next]_vars => [Promised!Next]_(Promised!vars)
    BY NextPromised
  <1> QED
    BY <1>1, <1>2, Invariance, PTL DEF Spec, Promise, Promised!Spec
===============================================================================
