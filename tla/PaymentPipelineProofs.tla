------------------------- MODULE PaymentPipelineProofs -------------------------
(***************************************************************************)
(* Theorems about PaymentPipeline, for any number of orders, accounts and  *)
(* consumers, and any number of faults of any kind.                        *)
(***************************************************************************)
EXTENDS PaymentPipeline, TLAPS, SequenceTheorems, FiniteSetTheorems

\* The queue has each message once, in the order of acceptance.
QueueOK ==
    \A i, j \in DOMAIN queue : /\ queue[i] = queue[j] => i = j
                               /\ i <= j => SentBefore(queue[i], queue[j])

\* Only the first message of an account is received.
ReceiptsOK == \A o \in Orders : receiver[o] # NULL => FirstOfGroup(o)

\* What is being paid was accepted; what is being deleted has been paid.
DoingsOK ==
    \A c \in Consumers :
       /\ consumer[c].pc # "idle" => consumer[c].order \in ToSet(sent)
       /\ consumer[c].pc = "acking" => consumer[c].order \in ToSet(payments)

\* A consumer that calls the gateway still holds the receipt.
CallersHold == \A c \in Consumers :
                  consumer[c].pc = "calling" => receiver[consumer[c].order] = c

\* What was paid comes no later than what is still to be paid.
PaidFirst ==
    \A p \in ToSet(payments), q \in ToSet(queue) :
       account[p] = account[q] => SentBefore(p, q)

\* The paid orders that will be paid once more if nothing else fails: those that
\* are in the queue and not about to leave it.
Leaving(o) == \E c \in Consumers : /\ consumer[c].pc = "acking"
                                   /\ consumer[c].order = o
                                   /\ receiver[o] = c
Repayable == {o \in ToSet(payments) : InQueue(o) /\ ~Leaving(o)}

RepeatsOwed ==
    /\ IsFiniteSet(ToSet(payments))
    /\ Len(payments) + Cardinality(Repayable) <= Cardinality(ToSet(payments)) + faults

\* An order unpaid is on its way to its payment, and so is one whose message was
\* accepted, and one whose message is being deleted; or its webhook was aborted.
OnItsWay ==
    /\ \A o \in Orders : o \in outbox \/ o \in ToSet(sent) => fate[o] # "none"
    /\ Faults \cap {"sendFails", "orderServiceCrash", "webhookFails", "gatewayCrash"} = {} =>
       \A o \in Orders : fate[o] = "pending" =>
          /\ o \in outbox \/ o \in ToSet(sent)
          /\ o \in ToSet(sent) => InQueue(o) \/ running[o] > 0 \/ o \in aborted
          /\ \A c \in Consumers :
                consumer[c].pc = "acking" /\ consumer[c].order = o
                   => running[o] > 0 \/ o \in aborted

\* The attempts of a call take less time than a receipt is good for.
Prompt == secondsCalling < 30

LedgerOK == /\ QueueOK
            /\ ToSet(payments) \subseteq ToSet(sent)
            /\ DeletedIsCharged
            /\ Prompt => PaidFirst /\ AccountSerial

ConsumersOK == /\ ReceiptsOK /\ DoingsOK
               /\ Prompt => CallersHold /\ RepeatsOwed

IInv == TypeOK /\ LedgerOK /\ ConsumersOK /\ OnItsWay

------------------------------------------------------------------------------
(***************************************************************************)
(* Sequences and their elements.                                           *)
(***************************************************************************)
\* RemoveAt takes out one element and keeps the order of the others.
LEMMA RemoveAtProperties ==
    ASSUME NEW S, NEW q \in Seq(S), NEW i \in 1 .. Len(q)
    PROVE  /\ RemoveAt(q, i) \in Seq(S)
           /\ Len(RemoveAt(q, i)) = Len(q) - 1
           /\ \A k \in 1 .. Len(q) - 1 :
                 RemoveAt(q, i)[k] = IF k < i THEN q[k] ELSE q[k + 1]
  <1>. DEFINE before == SubSeq(q, 1, i - 1)
              after == SubSeq(q, i + 1, Len(q))
  <1>1. Len(q) \in Nat /\ \A k \in 1 .. Len(q) : q[k] \in S
    BY LenProperties
  <1>2. /\ before \in Seq(S) /\ Len(before) = i - 1
        /\ \A k \in 1 .. i - 1 : before[k] = q[k]
    BY <1>1, SubSeqProperties
  <1>3. /\ after \in Seq(S) /\ Len(after) = Len(q) - i
        /\ \A k \in 1 .. Len(q) - i : after[k] = q[i + k]
    BY <1>1, SubSeqProperties
  <1>. HIDE DEF before, after
  <1>4. /\ before \o after \in Seq(S)
        /\ Len(before \o after) = Len(q) - 1
        /\ \A k \in 1 .. Len(q) - 1 :
              (before \o after)[k] = IF k <= i - 1 THEN before[k] ELSE after[k - (i - 1)]
    <2>1. /\ before \o after \in Seq(S)
          /\ Len(before \o after) = Len(before) + Len(after)
          /\ \A k \in 1 .. Len(before) + Len(after) :
                (before \o after)[k] = IF k <= Len(before) THEN before[k]
                                       ELSE after[k - Len(before)]
      BY <1>2, <1>3, ConcatProperties
    <2>2. Len(before) + Len(after) = Len(q) - 1
      BY <1>1, <1>2, <1>3
    <2> QED
      BY <1>2, <2>1, <2>2
  <1>5. \A k \in 1 .. Len(q) - 1 :
           (before \o after)[k] = IF k < i THEN q[k] ELSE q[k + 1]
    <2> SUFFICES ASSUME NEW k \in 1 .. Len(q) - 1
                 PROVE  (before \o after)[k] = IF k < i THEN q[k] ELSE q[k + 1]
      OBVIOUS
    <2>1. CASE k < i
      BY <1>1, <1>2, <1>4, <2>1
    <2>2. CASE ~(k < i)
      <3>1. k - (i - 1) \in 1 .. Len(q) - i /\ i + (k - (i - 1)) = k + 1
        BY <1>1, <2>2
      <3> QED
        BY <1>1, <1>3, <1>4, <2>2, <3>1
    <2> QED
      BY <2>1, <2>2
  <1>6. RemoveAt(q, i) = before \o after
    BY DEF RemoveAt, before, after
  <1> QED
    BY <1>4, <1>5, <1>6

LEMMA ElementsTyped ==
    ASSUME NEW S, NEW q \in Seq(S)
    PROVE  /\ DOMAIN q = 1 .. Len(q) /\ Len(q) \in Nat
           /\ ToSet(q) \subseteq S
           /\ \A i \in 1 .. Len(q) : q[i] \in ToSet(q)
  BY LenProperties DEF ToSet

LEMMA AppendElements ==
    ASSUME NEW S, NEW q \in Seq(S), NEW e \in S
    PROVE  /\ Append(q, e) \in Seq(S)
           /\ Len(Append(q, e)) = Len(q) + 1 /\ Append(q, e)[Len(q) + 1] = e
           /\ \A i \in 1 .. Len(q) : Append(q, e)[i] = q[i]
           /\ ToSet(Append(q, e)) = ToSet(q) \cup {e}
  <1>1. /\ Append(q, e) \in Seq(S)
        /\ Len(Append(q, e)) = Len(q) + 1 /\ Append(q, e)[Len(q) + 1] = e
        /\ \A i \in 1 .. Len(q) : Append(q, e)[i] = q[i]
    BY AppendProperties
  <1>2. /\ DOMAIN q = 1 .. Len(q) /\ Len(q) \in Nat
        /\ DOMAIN Append(q, e) = 1 .. Len(q) + 1
    BY <1>1, LenProperties
  <1>3. ToSet(Append(q, e)) = ToSet(q) \cup {e}
    BY <1>1, <1>2 DEF ToSet
  <1> QED
    BY <1>1, <1>3

LEMMA RemoveAtElements ==
    ASSUME NEW S, NEW q \in Seq(S), NEW i \in 1 .. Len(q),
           \A j, k \in 1 .. Len(q) : q[j] = q[k] => j = k
    PROVE  /\ RemoveAt(q, i) \in Seq(S)
           /\ ToSet(RemoveAt(q, i)) = ToSet(q) \ {q[i]}
  <1>. DEFINE r == RemoveAt(q, i)
  <1>1. /\ r \in Seq(S) /\ Len(r) = Len(q) - 1
        /\ \A k \in 1 .. Len(q) - 1 : r[k] = IF k < i THEN q[k] ELSE q[k + 1]
    BY RemoveAtProperties
  <1>. HIDE DEF r
  <1>2. DOMAIN q = 1 .. Len(q) /\ Len(q) \in Nat /\ DOMAIN r = 1 .. Len(q) - 1
    BY <1>1, LenProperties
  <1>3. ToSet(r) \subseteq ToSet(q) \ {q[i]}
    <2> SUFFICES ASSUME NEW k \in 1 .. Len(q) - 1
                 PROVE  r[k] \in ToSet(q) \ {q[i]}
      BY <1>2 DEF ToSet
    <2>1. CASE k < i
      <3>1. k \in 1 .. Len(q) /\ k # i /\ r[k] = q[k]
        BY <1>1, <1>2, <2>1
      <3> QED
        BY <1>2, <3>1 DEF ToSet
    <2>2. CASE ~(k < i)
      <3>1. k + 1 \in 1 .. Len(q) /\ k + 1 # i /\ r[k] = q[k + 1]
        BY <1>1, <1>2, <2>2
      <3> QED
        BY <1>2, <3>1 DEF ToSet
    <2> QED
      BY <2>1, <2>2
  <1>4. ASSUME NEW x \in ToSet(q) \ {q[i]} PROVE x \in ToSet(r)
    <2>1. PICK j \in 1 .. Len(q) : x = q[j]
      BY <1>2 DEF ToSet
    <2>2. j # i
      BY <2>1
    <2>3. CASE j < i
      <3>1. j \in DOMAIN r /\ r[j] = x
        BY <1>1, <1>2, <2>1, <2>3
      <3> QED
        BY <3>1 DEF ToSet
    <2>4. CASE i < j
      <3>1. j - 1 \in DOMAIN r /\ r[j - 1] = x
        BY <1>1, <1>2, <2>1, <2>4
      <3> QED
        BY <3>1 DEF ToSet
    <2> QED
      BY <2>2, <2>3, <2>4
  <1> QED
    BY <1>1, <1>3, <1>4 DEF r

\* The order of acceptance survives, and a message accepted last is after all.
LEMMA AcceptOrder ==
    ASSUME sent \in Seq(Orders), NEW o \in Orders, sent' = Append(sent, o)
    PROVE  /\ \A p, q : SentBefore(p, q) => SentBefore(p, q)'
           /\ \A p \in ToSet(sent) \cup {o} : SentBefore(p, o)'
  <1>1. /\ DOMAIN sent = 1 .. Len(sent) /\ Len(sent) \in Nat
        /\ DOMAIN sent' = 1 .. Len(sent) + 1
        /\ sent'[Len(sent) + 1] = o
        /\ \A i \in 1 .. Len(sent) : sent'[i] = sent[i]
    BY AppendElements, ElementsTyped
  <1>2. ASSUME NEW p, NEW q, SentBefore(p, q) PROVE SentBefore(p, q)'
    <2>1. PICK i, j \in DOMAIN sent : i <= j /\ sent[i] = p /\ sent[j] = q
      BY <1>2 DEF SentBefore
    <2>2. i \in DOMAIN sent' /\ j \in DOMAIN sent' /\ sent'[i] = p /\ sent'[j] = q
      BY <1>1, <2>1
    <2> QED
      BY <2>1, <2>2 DEF SentBefore
  <1>3. ASSUME NEW p \in ToSet(sent) \cup {o} PROVE SentBefore(p, o)'
    <2>1. PICK i \in DOMAIN sent' : sent'[i] = p
      <3>1. CASE p = o
        BY <1>1, <3>1
      <3>2. CASE p \in ToSet(sent)
        BY <1>1, <3>2 DEF ToSet
      <3> QED
        BY <3>1, <3>2
    <2>2. Len(sent) + 1 \in DOMAIN sent' /\ i <= Len(sent) + 1
      BY <1>1
    <2> QED
      BY <1>1, <2>1, <2>2 DEF SentBefore
  <1> QED
    BY <1>2, <1>3

LEMMA SentBeforeSent ==
    ASSUME NEW p, NEW q, SentBefore(p, q)
    PROVE  p \in ToSet(sent) /\ q \in ToSet(sent)
  BY DEF SentBefore, ToSet

LEMMA FirstIsQueued == ASSUME NEW o, FirstOfGroup(o) PROVE InQueue(o)
  BY DEF FirstOfGroup, InQueue, ToSet

LEMMA QueuedIsSent ==
    ASSUME QueueOK, queue \in Seq(Orders)
    PROVE  ToSet(queue) \subseteq ToSet(sent)
  <1>1. \A i \in DOMAIN queue : queue[i] \in ToSet(sent)
    <2>1. \A i \in DOMAIN queue : i <= i
      BY ElementsTyped
    <2> QED
      BY <2>1, SentBeforeSent DEF QueueOK
  <1> QED
    BY <1>1 DEF ToSet

USE PaymentPipelineAssumption

------------------------------------------------------------------------------
(***************************************************************************)
(* What happens to the ledger of messages and payments.                    *)
(***************************************************************************)
LEMMA LedgerKept ==
    ASSUME LedgerOK, UNCHANGED <<account, sent, queue, payments>>
    PROVE  LedgerOK'
  BY DEF LedgerOK, QueueOK, DeletedIsCharged, PaidFirst, AccountSerial, SentBefore

\* A message is accepted: it is the last one.
LEMMA AcceptLedger ==
    ASSUME TypeOK, LedgerOK, NEW o \in Orders, Accept(o), UNCHANGED <<account, payments>>
    PROVE  /\ sent' \in Seq(Orders) /\ queue' \in Seq(Orders)
           /\ ToSet(sent') = ToSet(sent) \cup {o}
           /\ \/ o \in ToSet(sent) /\ queue' = queue
              \/ o \notin ToSet(sent) /\ ToSet(queue') = ToSet(queue) \cup {o}
           /\ \A p \in Orders : FirstOfGroup(p) => FirstOfGroup(p)'
           /\ LedgerOK'
  <1>1. sent \in Seq(Orders) /\ queue \in Seq(Orders) /\ payments \in Seq(Orders)
    BY DEF TypeOK
  <1>2. CASE o \in ToSet(sent)
    <2>1. UNCHANGED <<sent, queue>>
      BY <1>2 DEF Accept
    <2> QED
      BY <1>1, <1>2, <2>1, LedgerKept DEF FirstOfGroup
  <1>3. CASE o \notin ToSet(sent)
    <2>1. sent' = Append(sent, o) /\ queue' = Append(queue, o)
      BY <1>3 DEF Accept
    <2>2. /\ sent' \in Seq(Orders) /\ ToSet(sent') = ToSet(sent) \cup {o}
          /\ queue' \in Seq(Orders) /\ ToSet(queue') = ToSet(queue) \cup {o}
          /\ Len(queue) \in Nat /\ DOMAIN queue = 1 .. Len(queue)
          /\ DOMAIN queue' = 1 .. Len(queue) + 1
          /\ queue'[Len(queue) + 1] = o
          /\ \A i \in 1 .. Len(queue) : queue'[i] = queue[i]
      BY <1>1, <2>1, AppendElements, ElementsTyped
    <2>3. /\ \A p, q : SentBefore(p, q) => SentBefore(p, q)'
          /\ \A p \in ToSet(sent) \cup {o} : SentBefore(p, o)'
      BY <1>1, <2>1, AcceptOrder
    <2>4. ToSet(queue) \subseteq ToSet(sent)
      BY <1>1, QueuedIsSent DEF LedgerOK
    <2>5. \A i \in 1 .. Len(queue) : queue[i] # o /\ queue[i] \in ToSet(sent)
      BY <1>3, <2>2, <2>4 DEF ToSet
    <2>6. QueueOK'
      <3> SUFFICES ASSUME NEW i \in DOMAIN queue', NEW j \in DOMAIN queue'
                   PROVE  /\ queue'[i] = queue'[j] => i = j
                          /\ i <= j => SentBefore(queue[i], queue[j])'
        BY DEF QueueOK
      <3>1. CASE i \in 1 .. Len(queue) /\ j \in 1 .. Len(queue)
        BY <2>2, <2>3, <3>1 DEF LedgerOK, QueueOK
      <3>2. CASE i \in 1 .. Len(queue) /\ j = Len(queue) + 1
        BY <2>2, <2>3, <2>5, <3>2
      <3>3. CASE i = Len(queue) + 1 /\ j \in 1 .. Len(queue)
        BY <2>2, <2>5, <3>3
      <3>4. CASE i = Len(queue) + 1 /\ j = Len(queue) + 1
        BY <2>2, <2>3, <3>4
      <3> QED
        BY <2>2, <3>1, <3>2, <3>3, <3>4
    <2>7. \A p \in Orders : FirstOfGroup(p) => FirstOfGroup(p)'
      BY <2>2 DEF FirstOfGroup
    <2>8. DeletedIsCharged' /\ (ToSet(payments) \subseteq ToSet(sent))'
      BY <2>2 DEF LedgerOK, DeletedIsCharged
    <2>9. Prompt => PaidFirst' /\ AccountSerial'
      <3>1. PaidFirst => PaidFirst'
        BY <2>2, <2>3 DEF LedgerOK, PaidFirst
      <3>2. AccountSerial => AccountSerial'
        BY <2>3 DEF AccountSerial
      <3> QED
        BY <3>1, <3>2 DEF LedgerOK
    <2> QED
      BY <1>3, <2>2, <2>6, <2>7, <2>8, <2>9 DEF LedgerOK, Prompt, secondsCalling
  <1> QED
    BY <1>2, <1>3

\* The first message of its account, paid for, is deleted: the others move up.
LEMMA DeleteLedger ==
    ASSUME TypeOK, LedgerOK, NEW o \in Orders, o \in ToSet(payments), Delete(o),
           UNCHANGED <<account, sent, payments>>
    PROVE  /\ queue' \in Seq(Orders) /\ ToSet(queue') = ToSet(queue) \ {o}
           /\ \A p \in Orders \ {o} : FirstOfGroup(p) => FirstOfGroup(p)'
           /\ LedgerOK'
  <1>1. PICK d \in DOMAIN queue : queue[d] = o /\ queue' = RemoveAt(queue, d)
    BY DEF Delete
  <1>2. queue \in Seq(Orders) /\ DOMAIN queue = 1 .. Len(queue) /\ Len(queue) \in Nat
    BY ElementsTyped DEF TypeOK
  <1>3. \A i, j \in 1 .. Len(queue) : queue[i] = queue[j] => i = j
    BY <1>2 DEF LedgerOK, QueueOK
  <1>4. queue' \in Seq(Orders) /\ ToSet(queue') = ToSet(queue) \ {o}
    BY <1>1, <1>2, <1>3, RemoveAtElements
  <1>5. /\ DOMAIN queue' = 1 .. Len(queue) - 1
        /\ \A k \in 1 .. Len(queue) - 1 :
              queue'[k] = IF k < d THEN queue[k] ELSE queue[k + 1]
    <2>1. d \in 1 .. Len(queue)
      BY <1>2
    <2>2. /\ Len(queue') = Len(queue) - 1
          /\ \A k \in 1 .. Len(queue) - 1 :
                queue'[k] = IF k < d THEN queue[k] ELSE queue[k + 1]
      BY <1>1, <1>2, <2>1, RemoveAtProperties
    <2>3. DOMAIN queue' = 1 .. Len(queue')
      BY <1>4, ElementsTyped
    <2> QED
      BY <2>2, <2>3
  <1>. DEFINE was(k) == IF k < d THEN k ELSE k + 1
  <1>6. ASSUME NEW k \in DOMAIN queue'
        PROVE  was(k) \in DOMAIN queue /\ queue'[k] = queue[was(k)]
    BY <1>1, <1>2, <1>5
  <1>7. ASSUME NEW j \in DOMAIN queue', NEW k \in DOMAIN queue'
        PROVE  /\ j <= k => was(j) <= was(k)
               /\ j < k => was(j) < was(k)
               /\ was(j) = was(k) => j = k
    BY <1>1, <1>2, <1>5
  <1>8. ASSUME NEW i \in DOMAIN queue, i # d PROVE \E k \in DOMAIN queue' : was(k) = i
    <2>1. CASE i < d
      <3>1. i \in DOMAIN queue' /\ was(i) = i
        BY <1>1, <1>2, <1>5, <2>1
      <3> QED
        BY <3>1
    <2>2. CASE ~(i < d)
      <3>1. i - 1 \in DOMAIN queue' /\ was(i - 1) = i
        BY <1>1, <1>2, <1>5, <1>8, <2>2
      <3> QED
        BY <3>1
    <2> QED
      BY <2>1, <2>2
  <1>. HIDE DEF was
  <1>9. \A p, q : SentBefore(p, q)' <=> SentBefore(p, q)
    BY DEF SentBefore
  <1>10. QueueOK'
    <2> SUFFICES ASSUME NEW i \in DOMAIN queue', NEW j \in DOMAIN queue'
                 PROVE  /\ queue'[i] = queue'[j] => i = j
                        /\ i <= j => SentBefore(queue[i], queue[j])'
      BY DEF QueueOK
    <2>1. /\ queue[was(i)] = queue[was(j)] => was(i) = was(j)
          /\ was(i) <= was(j) => SentBefore(queue[was(i)], queue[was(j)])
      BY <1>6 DEF LedgerOK, QueueOK
    <2>2. queue'[i] = queue[was(i)] /\ queue'[j] = queue[was(j)]
      BY <1>6
    <2>3. i <= j => was(i) <= was(j)
      BY <1>7
    <2>4. was(i) = was(j) => i = j
      BY <1>7
    <2>5. SentBefore(queue[was(i)], queue[was(j)]) => SentBefore(queue[i], queue[j])'
      BY <1>9, <2>2 DEF SentBefore
    <2> QED
      BY <2>1, <2>2, <2>3, <2>4, <2>5
  <1>11. ASSUME NEW p \in Orders \ {o}, FirstOfGroup(p) PROVE FirstOfGroup(p)'
    <2>1. PICK i \in DOMAIN queue : /\ queue[i] = p
                                    /\ \A j \in 1 .. i - 1 : account[queue[j]] # account[p]
      BY <1>11 DEF FirstOfGroup
    <2>2. i # d
      BY <1>1, <2>1
    <2>3. PICK k \in DOMAIN queue' : was(k) = i
      BY <1>8, <2>2
    <2>4. ASSUME NEW j \in 1 .. k - 1 PROVE account[queue'[j]] # account[p]
      <3>1. j \in DOMAIN queue' /\ j < k
        BY <1>2, <1>5
      <3>2. was(j) \in DOMAIN queue /\ was(j) < i /\ queue'[j] = queue[was(j)]
        <4>1. was(j) \in DOMAIN queue /\ queue'[j] = queue[was(j)]
          BY <1>6, <3>1
        <4>2. was(j) < was(k)
          BY <1>7, <3>1
        <4> QED
          BY <2>3, <4>1, <4>2
      <3>3. was(j) \in 1 .. i - 1
        BY <1>2, <2>1, <3>2
      <3> QED
        BY <2>1, <3>2, <3>3
    <2>5. queue'[k] = p
      BY <1>6, <2>1, <2>3
    <2> QED
      BY <2>4, <2>5 DEF FirstOfGroup
  <1>12. DeletedIsCharged' /\ (ToSet(payments) \subseteq ToSet(sent))'
    BY <1>4 DEF LedgerOK, DeletedIsCharged
  <1>13. Prompt => PaidFirst' /\ AccountSerial'
    BY <1>4, <1>9 DEF LedgerOK, PaidFirst, AccountSerial
  <1> QED
    BY <1>4, <1>10, <1>11, <1>12, <1>13 DEF LedgerOK, Prompt, secondsCalling

\* The gateway is paid for an order: no message of its account is before it, and
\* every one paid before was accepted before.
LEMMA ChargeLedger ==
    ASSUME TypeOK, LedgerOK, NEW o \in Orders, o \in ToSet(sent), Charge(o),
           Prompt => FirstOfGroup(o), UNCHANGED <<account, sent, queue>>
    PROVE  /\ payments' \in Seq(Orders) /\ ToSet(payments') = ToSet(payments) \cup {o}
           /\ Len(payments') = Len(payments) + 1
           /\ LedgerOK'
  <1>1. /\ payments' \in Seq(Orders) /\ ToSet(payments') = ToSet(payments) \cup {o}
        /\ Len(payments') = Len(payments) + 1 /\ payments'[Len(payments) + 1] = o
        /\ \A i \in 1 .. Len(payments) : payments'[i] = payments[i]
        /\ Len(payments) \in Nat /\ DOMAIN payments = 1 .. Len(payments)
        /\ DOMAIN payments' = 1 .. Len(payments) + 1
    BY AppendElements, ElementsTyped DEF TypeOK, Charge
  <1>2. \A p, q : SentBefore(p, q)' <=> SentBefore(p, q)
    BY DEF SentBefore
  <1>3. QueueOK' /\ (ToSet(payments) \subseteq ToSet(sent))' /\ DeletedIsCharged'
    BY <1>1, <1>2 DEF LedgerOK, QueueOK, DeletedIsCharged
  <1>4. ASSUME Prompt PROVE PaidFirst'
    <2> SUFFICES ASSUME NEW p \in ToSet(payments) \cup {o}, NEW q \in ToSet(queue),
                        account[p] = account[q]
                 PROVE  SentBefore(p, q)
      BY <1>1, <1>2 DEF PaidFirst
    <2>1. CASE p \in ToSet(payments)
      BY <1>4, <2>1 DEF LedgerOK, PaidFirst
    <2>2. CASE p = o
      <3>1. PICK i \in DOMAIN queue : /\ queue[i] = o
                                      /\ \A j \in 1 .. i - 1 : account[queue[j]] # account[o]
        BY <1>4 DEF FirstOfGroup
      <3>2. PICK k \in DOMAIN queue : queue[k] = q
        BY DEF ToSet
      <3>3. DOMAIN queue = 1 .. Len(queue) /\ Len(queue) \in Nat
        BY ElementsTyped DEF TypeOK
      <3>4. k \notin 1 .. i - 1
        BY <2>2, <3>1, <3>2
      <3>5. i <= k
        BY <3>1, <3>2, <3>3, <3>4
      <3> QED
        BY <2>2, <3>1, <3>2, <3>5 DEF LedgerOK, QueueOK
    <2> QED
      BY <2>1, <2>2
  <1>5. ASSUME Prompt PROVE AccountSerial'
    <2> SUFFICES ASSUME NEW i \in DOMAIN payments', NEW j \in DOMAIN payments',
                        i < j, account[payments'[i]] = account[payments'[j]]
                 PROVE  SentBefore(payments[i], payments[j])'
      BY DEF AccountSerial
    <2>1. CASE j \in 1 .. Len(payments)
      <3>1. i \in 1 .. Len(payments)
        BY <1>1, <2>1
      <3> QED
        BY <1>1, <1>2, <1>5, <2>1, <3>1 DEF LedgerOK, AccountSerial
    <2>2. CASE j = Len(payments) + 1
      <3>1. i \in 1 .. Len(payments)
        BY <1>1, <2>2
      <3>2. payments'[i] \in ToSet(payments) /\ payments'[j] = o
        BY <1>1, <2>2, <3>1 DEF ToSet
      <3>3. o \in ToSet(queue)
        BY <1>5, FirstIsQueued DEF InQueue
      <3> QED
        BY <1>2, <1>5, <3>2, <3>3 DEF LedgerOK, PaidFirst
    <2> QED
      BY <1>1, <2>1, <2>2
  <1> QED
    BY <1>1, <1>3, <1>4, <1>5 DEF LedgerOK, Prompt, secondsCalling

------------------------------------------------------------------------------
(***************************************************************************)
(* What repetitions cost.                                                  *)
(***************************************************************************)
\* A fault may make one order repayable; nothing else does.
LEMMA RepeatsKept ==
    ASSUME TypeOK, RepeatsOwed, UNCHANGED payments, NEW o,
           \/ faults' = faults /\ Repayable' \subseteq Repayable
           \/ faults' = faults + 1 /\ Repayable' \subseteq Repayable \cup {o}
    PROVE  RepeatsOwed'
  <1>1. Repayable \subseteq ToSet(payments) /\ Repayable' \subseteq ToSet(payments)
    BY DEF Repayable
  <1>2. IsFiniteSet(ToSet(payments)) /\ IsFiniteSet(Repayable) /\ IsFiniteSet(Repayable')
    BY <1>1, FS_Subset DEF RepeatsOwed
  <1>3. /\ Cardinality(ToSet(payments)) \in Nat /\ Cardinality(Repayable) \in Nat
        /\ Cardinality(Repayable') \in Nat
    BY <1>2, FS_CardinalityType
  <1>4. Len(payments) \in Nat /\ faults \in Nat
    BY ElementsTyped DEF TypeOK
  <1>5. CASE faults' = faults /\ Repayable' \subseteq Repayable
    <2>1. Cardinality(Repayable') <= Cardinality(Repayable)
      BY <1>2, <1>5, FS_Subset
    <2> QED
      BY <1>2, <1>3, <1>4, <1>5, <2>1 DEF RepeatsOwed
  <1>6. CASE faults' = faults + 1 /\ Repayable' \subseteq Repayable \cup {o}
    <2>1. /\ IsFiniteSet(Repayable \cup {o})
          /\ Cardinality(Repayable \cup {o}) = IF o \in Repayable
                THEN Cardinality(Repayable) ELSE Cardinality(Repayable) + 1
      BY <1>2, FS_AddElement
    <2>2. Cardinality(Repayable') <= Cardinality(Repayable \cup {o})
      BY <1>6, <2>1, FS_Subset
    <2>3. Cardinality(Repayable \cup {o}) \in Nat
      BY <2>1, FS_CardinalityType
    <2> QED
      BY <1>2, <1>3, <1>4, <1>6, <2>1, <2>2, <2>3 DEF RepeatsOwed
  <1> QED
    BY <1>5, <1>6

\* A payment is a first one, or uses up what the order owed; a fault with it may
\* make the order repayable.
LEMMA RepeatsCharged ==
    ASSUME TypeOK, RepeatsOwed, NEW o, InQueue(o), ~Leaving(o),
           Len(payments') = Len(payments) + 1,
           ToSet(payments') = ToSet(payments) \cup {o},
           \/ faults' = faults /\ Repayable' \subseteq Repayable \ {o}
           \/ faults' = faults + 1 /\ Repayable' \subseteq Repayable \cup {o}
    PROVE  RepeatsOwed'
  <1>1. Repayable \subseteq ToSet(payments)
    BY DEF Repayable
  <1>2. IsFiniteSet(ToSet(payments)) /\ IsFiniteSet(Repayable)
    BY <1>1, FS_Subset DEF RepeatsOwed
  <1>3. /\ IsFiniteSet(ToSet(payments'))
        /\ Cardinality(ToSet(payments')) = IF o \in ToSet(payments)
              THEN Cardinality(ToSet(payments)) ELSE Cardinality(ToSet(payments)) + 1
    BY <1>2, FS_AddElement
  <1>4. o \in Repayable <=> o \in ToSet(payments)
    BY DEF Repayable
  <1>5. Cardinality(ToSet(payments)) \in Nat /\ Cardinality(Repayable) \in Nat
    BY <1>2, FS_CardinalityType
  <1>6. Len(payments) \in Nat /\ faults \in Nat
    BY ElementsTyped DEF TypeOK
  <1>7. CASE faults' = faults /\ Repayable' \subseteq Repayable \ {o}
    <2>1. /\ IsFiniteSet(Repayable \ {o})
          /\ Cardinality(Repayable \ {o}) = IF o \in Repayable
                THEN Cardinality(Repayable) - 1 ELSE Cardinality(Repayable)
      BY <1>2, FS_RemoveElement
    <2>2. IsFiniteSet(Repayable') /\ Cardinality(Repayable') <= Cardinality(Repayable \ {o})
      BY <1>7, <2>1, FS_Subset
    <2>3. Cardinality(Repayable') \in Nat
      BY <2>2, FS_CardinalityType
    <2> QED
      BY <1>3, <1>4, <1>5, <1>6, <1>7, <2>1, <2>2, <2>3 DEF RepeatsOwed
  <1>8. CASE faults' = faults + 1 /\ Repayable' \subseteq Repayable \cup {o}
    <2>1. /\ IsFiniteSet(Repayable \cup {o})
          /\ Cardinality(Repayable \cup {o}) = IF o \in Repayable
                THEN Cardinality(Repayable) ELSE Cardinality(Repayable) + 1
      BY <1>2, FS_AddElement
    <2>2. IsFiniteSet(Repayable') /\ Cardinality(Repayable') <= Cardinality(Repayable \cup {o})
      BY <1>8, <2>1, FS_Subset
    <2>3. Cardinality(Repayable') \in Nat
      BY <2>2, FS_CardinalityType
    <2> QED
      BY <1>3, <1>4, <1>5, <1>6, <1>8, <2>1, <2>2, <2>3 DEF RepeatsOwed
  <1> QED
    BY <1>7, <1>8

------------------------------------------------------------------------------
(***************************************************************************)
(* Initial states; order-service and its messages.                         *)
(***************************************************************************)
LEMMA DoingsTyped ==
    /\ Idle \in Doings /\ Idle.pc = "idle" /\ Idle.order = NULL
    /\ \A o \in Orders : Calling(o, 0) \in Doings /\ Acking(o) \in Doings
    /\ \A o, n : /\ Calling(o, n).pc = "calling" /\ Calling(o, n).order = o
                 /\ Calling(o, n).retry = n
                 /\ Acking(o).pc = "acking" /\ Acking(o).order = o
    /\ \A d \in Doings :
          /\ d.pc \in {"idle", "calling", "acking"}
          /\ d.pc = "idle" => d = Idle
          /\ d.pc # "idle" => d.order \in Orders
          /\ d.pc = "calling" => d.retry \in 0 .. MaxRetries - 1
  <1>1. 0 \in 0 .. MaxRetries - 1
    OBVIOUS
  <1>2. Idle \in Doings /\ Idle.pc = "idle" /\ Idle.order = NULL
    BY DEF Doings, Idle
  <1>3. \A o \in Orders : Calling(o, 0) \in Doings /\ Acking(o) \in Doings
    BY <1>1 DEF Doings
  <1>4. \A o, n : /\ Calling(o, n).pc = "calling" /\ Calling(o, n).order = o
                 /\ Calling(o, n).retry = n
                 /\ Acking(o).pc = "acking" /\ Acking(o).order = o
    BY DEF Calling, Acking
  <1>5. ASSUME NEW d \in Doings
        PROVE  /\ d.pc \in {"idle", "calling", "acking"}
               /\ d.pc = "idle" => d = Idle
               /\ d.pc # "idle" => d.order \in Orders
               /\ d.pc = "calling" => d.retry \in 0 .. MaxRetries - 1
    <2>1. CASE d = Idle
      BY <1>2, <2>1
    <2>2. ASSUME NEW o \in Orders, NEW n \in 0 .. MaxRetries - 1, d = Calling(o, n)
          PROVE  d.pc = "calling" /\ d.order \in Orders /\ d.retry \in 0 .. MaxRetries - 1
      BY <1>4, <2>2
    <2>3. ASSUME NEW o \in Orders, d = Acking(o)
          PROVE  d.pc = "acking" /\ d.order \in Orders
      BY <1>4, <2>3
    <2>4. \/ d = Idle
          \/ \E o \in Orders, n \in 0 .. MaxRetries - 1 : d = Calling(o, n)
          \/ \E o \in Orders : d = Acking(o)
      BY DEF Doings
    <2> QED
      BY <2>1, <2>2, <2>3, <2>4
  <1> QED
    BY <1>2, <1>3, <1>4, <1>5

LEMMA InitInv == Init => IInv
  <1> SUFFICES ASSUME Init PROVE IInv
    OBVIOUS
  <1>1. /\ sent \in Seq(Orders) /\ queue \in Seq(Orders) /\ payments \in Seq(Orders)
        /\ ToSet(sent) = {} /\ ToSet(queue) = {} /\ ToSet(payments) = {}
        /\ DOMAIN queue = {} /\ DOMAIN payments = {} /\ Len(payments) = 0
    BY DEF Init, ToSet
  <1>2. TypeOK
    BY <1>1, DoingsTyped DEF Init, TypeOK, Booking!Init, Booking!TypeOK, Booking!Fates
  <1>3. LedgerOK
    BY <1>1 DEF LedgerOK, QueueOK, DeletedIsCharged, PaidFirst, AccountSerial
  <1>4. \A c \in Consumers : consumer[c].pc = "idle"
    BY DoingsTyped DEF Init
  <1>5. RepeatsOwed
    <2>1. Repayable = {}
      BY <1>1 DEF Repayable
    <2> QED
      BY <1>1, <1>2, <2>1, FS_EmptySet DEF RepeatsOwed, TypeOK
  <1>6. ConsumersOK
    BY <1>4, <1>5 DEF Init, ConsumersOK, ReceiptsOK, DoingsOK, CallersHold
  <1>7. OnItsWay
    BY <1>1 DEF Init, OnItsWay, Booking!Init
  <1> QED
    BY <1>2, <1>3, <1>6, <1>7 DEF IInv

\* Steps of order-service and of the gateway which touch neither messages nor
\* consumers.
LEMMA PipelineKept ==
    ASSUME IInv, UNCHANGED <<account, sent, queue, receiver, consumer, payments>>,
           faults' \in {faults, faults + 1}
    PROVE  LedgerOK' /\ ConsumersOK'
  <1>1. LedgerOK'
    BY LedgerKept DEF IInv
  <1>2. Repayable' = Repayable
    BY DEF Repayable, Leaving, InQueue
  <1>3. RepeatsOwed => RepeatsOwed'
    BY <1>2, RepeatsKept DEF IInv
  <1>4. ConsumersOK'
    BY <1>3 DEF IInv, ConsumersOK, ReceiptsOK, FirstOfGroup, DoingsOK, CallersHold, Prompt,
       secondsCalling
  <1> QED
    BY <1>1, <1>4

LEMMA FaultTyped ==
    ASSUME TypeOK, NEW kind, Fault(kind) \/ NoFault
    PROVE  faults' \in 0 .. MaxFaults /\ faults' \in {faults, faults + 1}
  BY DEF TypeOK, Fault, NoFault

\* The new order is on its way by the outbox; its message is not accepted yet.
LEMMA CreateOrderInv ==
    ASSUME IInv, NEW o \in Orders, NEW s \in Seats, CreateOrder(o, s)
    PROVE  IInv'
  <1>1. /\ fate[o] = "none" /\ fate' = [fate EXCEPT ![o] = "pending"]
        /\ outbox' = outbox \cup {o}
        /\ UNCHANGED <<account, sent, queue, receiver, consumer, payments, running,
                      aborted, faults>>
    BY DEF CreateOrder, Booking!Reserve, NoFault, gateway
  <1>2. TypeOK'
    BY <1>1 DEF IInv, TypeOK, CreateOrder, Booking!Reserve, Booking!TypeOK, Booking!Fates
  <1>3. LedgerOK' /\ ConsumersOK'
    BY <1>1, PipelineKept
  <1>4. o \notin ToSet(sent)
    BY <1>1 DEF IInv, OnItsWay
  <1>5. \A c \in Consumers : consumer[c].pc = "acking" => consumer[c].order # o
    BY <1>4 DEF IInv, LedgerOK, ConsumersOK, DoingsOK
  <1>6. \A p \in Orders : fate'[p] = IF p = o THEN "pending" ELSE fate[p]
    BY <1>1 DEF IInv, TypeOK, Booking!TypeOK
  <1>7. OnItsWay'
    BY <1>1, <1>4, <1>5, <1>6 DEF IInv, OnItsWay, InQueue
  <1> QED
    BY <1>2, <1>3, <1>7 DEF IInv

LEMMA SendInv ==
    ASSUME IInv, NEW o \in Orders, Send(o) \/ SendUnacknowledged(o)
    PROVE  IInv'
  <1>1. /\ Accept(o) /\ o \in outbox
        /\ outbox' \in {outbox, outbox \ {o}}
        /\ UNCHANGED <<holder, fate, account, receiver, consumer, payments, running,
                      aborted>>
    BY DEF Send, SendUnacknowledged, bookings, gateway
  <1>2. faults' \in 0 .. MaxFaults /\ faults' \in {faults, faults + 1}
    BY FaultTyped DEF IInv, Send, SendUnacknowledged
  <1>3. /\ sent' \in Seq(Orders) /\ queue' \in Seq(Orders)
        /\ ToSet(sent') = ToSet(sent) \cup {o}
        /\ \/ o \in ToSet(sent) /\ queue' = queue
           \/ o \notin ToSet(sent) /\ ToSet(queue') = ToSet(queue) \cup {o}
        /\ \A p \in Orders : FirstOfGroup(p) => FirstOfGroup(p)'
        /\ LedgerOK'
    BY <1>1, AcceptLedger DEF IInv
  <1>4. TypeOK'
    BY <1>1, <1>2, <1>3 DEF IInv, TypeOK, Booking!TypeOK
  <1>5. ConsumersOK'
    <2>1. Repayable' \subseteq Repayable
      <3>1. o \notin ToSet(sent) => o \notin ToSet(payments)
        BY DEF IInv, LedgerOK
      <3> QED
        BY <1>1, <1>3, <3>1 DEF Repayable, Leaving, InQueue
    <2>2. RepeatsOwed => RepeatsOwed'
      BY <1>1, <1>2, <2>1, RepeatsKept DEF IInv
    <2>3. ReceiptsOK' /\ DoingsOK'
      BY <1>1, <1>3 DEF IInv, ConsumersOK, ReceiptsOK, DoingsOK
    <2>4. CallersHold => CallersHold'
      BY <1>1 DEF CallersHold
    <2> QED
      BY <2>2, <2>3, <2>4 DEF IInv, ConsumersOK, Prompt, secondsCalling
  <1>6. OnItsWay'
    BY <1>1, <1>3 DEF IInv, OnItsWay, InQueue
  <1> QED
    BY <1>3, <1>4, <1>5, <1>6 DEF IInv

\* The faults that lose a message.
LEMMA LoseMessageInv ==
    ASSUME IInv, OrderServiceCrash \/ \E o \in Orders : SendFails(o)
    PROVE  IInv'
  <1>1. /\ outbox' \subseteq outbox
        /\ UNCHANGED <<holder, fate, account, sent, queue, receiver, consumer, payments, running,
                      aborted>>
    BY DEF OrderServiceCrash, SendFails, bookings, gateway
  <1>2. PICK kind \in {"orderServiceCrash", "sendFails"} : Fault(kind)
    BY DEF OrderServiceCrash, SendFails
  <1>3. kind \in Faults /\ faults' \in 0 .. MaxFaults /\ faults' \in {faults, faults + 1}
    BY <1>2, FaultTyped DEF IInv, Fault
  <1>4. TypeOK'
    BY <1>1, <1>3 DEF IInv, TypeOK, Booking!TypeOK
  <1>5. LedgerOK' /\ ConsumersOK'
    BY <1>1, <1>3, PipelineKept
  <1>6. OnItsWay'
    BY <1>1, <1>3 DEF IInv, OnItsWay
  <1> QED
    BY <1>4, <1>5, <1>6 DEF IInv

------------------------------------------------------------------------------
(***************************************************************************)
(* The webhooks of the gateway.                                            *)
(***************************************************************************)
LEMMA WebhookInv ==
    ASSUME IInv, NEW o \in Orders, Webhook(o)
    PROVE  IInv'
  <1>1. /\ running' = [running EXCEPT ![o] = @ - 1] /\ running[o] > 0
        /\ UNCHANGED <<account, outbox, sent, queue, receiver, consumer, payments, aborted, faults>>
    BY DEF Webhook, NoFault, producer
  <1>2. /\ UNCHANGED holder
        /\ \/ fate[o] = "pending" /\ fate' = [fate EXCEPT ![o] = "confirmed"]
           \/ fate[o] # "pending" /\ UNCHANGED fate
    BY DEF Webhook, Booking!Confirm, bookings
  <1>3. TypeOK'
    <2>1. running' \in [Orders -> Nat]
      <3>1. running \in [Orders -> Nat] /\ running[o] - 1 \in Nat
        BY <1>1 DEF IInv, TypeOK
      <3> QED
        BY <1>1, <3>1
    <2>2. fate' \in [Orders -> Booking!Fates]
      <3>1. fate \in [Orders -> Booking!Fates] /\ "confirmed" \in Booking!Fates
        BY DEF IInv, TypeOK, Booking!TypeOK, Booking!Fates
      <3> QED
        BY <1>2, <3>1
    <2> QED
      BY <1>1, <1>2, <2>1, <2>2 DEF IInv, TypeOK, Booking!TypeOK
  <1>4. LedgerOK' /\ ConsumersOK'
    BY <1>1, PipelineKept
  <1>5. /\ fate'[o] # "pending" /\ (fate[o] # "none" => fate'[o] # "none")
        /\ \A p \in Orders \ {o} : fate'[p] = fate[p] /\ running'[p] = running[p]
    BY <1>1, <1>2 DEF IInv, TypeOK, Booking!TypeOK
  <1>6. OnItsWay'
    BY <1>1, <1>5 DEF IInv, OnItsWay, InQueue
  <1> QED
    BY <1>3, <1>4, <1>6 DEF IInv

\* The order is not forgotten without a trace: it is one of the aborted.
LEMMA WebhookAbortedInv ==
    ASSUME IInv, NEW o \in Orders, WebhookAborted(o)
    PROVE  IInv'
  <1>1. /\ running' = [running EXCEPT ![o] = @ - 1] /\ running[o] > 0
        /\ aborted' = aborted \cup {o}
        /\ UNCHANGED <<holder, fate, account, outbox, sent, queue, receiver, consumer, payments,
                        faults>>
    BY DEF WebhookAborted, NoFault, producer, bookings
  <1>2. running' \in [Orders -> Nat]
    <2>1. running \in [Orders -> Nat] /\ running[o] - 1 \in Nat
      BY <1>1 DEF IInv, TypeOK
    <2> QED
      BY <1>1, <2>1
  <1>3. TypeOK'
    BY <1>1, <1>2 DEF IInv, TypeOK, Booking!TypeOK
  <1>4. LedgerOK' /\ ConsumersOK'
    BY <1>1, PipelineKept
  <1>5. \A p \in Orders \ {o} : running'[p] = running[p]
    BY <1>1 DEF IInv, TypeOK
  <1>6. OnItsWay'
    BY <1>1, <1>5 DEF IInv, OnItsWay, InQueue
  <1> QED
    BY <1>3, <1>4, <1>6 DEF IInv

\* The faults that lose a webhook.
LEMMA LoseWebhookInv ==
    ASSUME IInv, GatewayCrash \/ \E o \in Orders : WebhookFails(o)
    PROVE  IInv'
  <1>1. UNCHANGED <<holder, fate, account, outbox, sent, queue, receiver, consumer, payments,
                    aborted>>
    BY DEF GatewayCrash, WebhookFails, bookings, producer
  <1>2. PICK kind \in {"gatewayCrash", "webhookFails"} : Fault(kind)
    BY DEF GatewayCrash, WebhookFails
  <1>3. kind \in Faults /\ faults' \in 0 .. MaxFaults /\ faults' \in {faults, faults + 1}
    BY <1>2, FaultTyped DEF IInv, Fault
  <1>4. running' \in [Orders -> Nat]
    <2>1. CASE GatewayCrash
      BY <2>1 DEF GatewayCrash
    <2>2. ASSUME NEW o \in Orders, WebhookFails(o) PROVE running' \in [Orders -> Nat]
      <3>1. running \in [Orders -> Nat] /\ running[o] - 1 \in Nat
        BY <2>2 DEF IInv, TypeOK, WebhookFails
      <3> QED
        BY <2>2, <3>1 DEF WebhookFails
    <2> QED
      BY <2>1, <2>2
  <1>5. TypeOK'
    BY <1>1, <1>3, <1>4 DEF IInv, TypeOK, Booking!TypeOK
  <1>6. LedgerOK' /\ ConsumersOK'
    BY <1>1, <1>3, PipelineKept
  <1>7. OnItsWay'
    BY <1>1, <1>3 DEF IInv, OnItsWay
  <1> QED
    BY <1>5, <1>6, <1>7 DEF IInv

------------------------------------------------------------------------------
(***************************************************************************)
(* The consumers.                                                          *)
(***************************************************************************)
\* Steps that touch only receipts and consumers.
LEMMA ConsumerMoves ==
    ASSUME IInv, UNCHANGED <<bookings, account, producer, queue, gateway>>,
           receiver' \in [Orders -> Consumers \cup {NULL}],
           consumer' \in [Consumers -> Doings],
           faults' \in 0 .. MaxFaults, faults' \in {faults, faults + 1},
           \A c \in Consumers :
              \/ consumer'[c].pc = "idle"
              \/ consumer'[c] = consumer[c]
              \/ /\ consumer'[c].pc = "calling"
                 /\ consumer'[c].order \in ToSet(queue) \cup {consumer[c].order}
                 /\ consumer'[c].order = consumer[c].order => consumer[c].pc = "calling",
           \A o \in Orders : receiver'[o] # NULL => receiver[o] = receiver'[o] \/ Deliverable(o),
           Prompt => (CallersHold => CallersHold'),
           NEW x,
           Prompt => /\ \A o \in Orders \ {x} : Leaving(o) => Leaving(o)'
                     /\ faults' = faults => (Leaving(x) => Leaving(x)')
    PROVE  IInv'
  <1>1. UNCHANGED <<holder, fate, account, outbox, sent, queue, payments, running,
                      aborted>>
    BY DEF bookings, producer, gateway
  <1>2. TypeOK'
    BY <1>1 DEF IInv, TypeOK, Booking!TypeOK
  <1>3. LedgerOK'
    BY <1>1, LedgerKept DEF IInv
  <1>4. ReceiptsOK'
    BY <1>1 DEF IInv, ConsumersOK, ReceiptsOK, FirstOfGroup, Deliverable
  <1>5. ToSet(queue) \subseteq ToSet(sent)
    BY QueuedIsSent DEF IInv, LedgerOK, TypeOK
  <1>6. DoingsOK'
    <2> SUFFICES ASSUME NEW c \in Consumers
                 PROVE  /\ consumer'[c].pc # "idle" => consumer'[c].order \in ToSet(sent)
                        /\ consumer'[c].pc = "acking" => consumer'[c].order \in ToSet(payments)
      BY <1>1 DEF DoingsOK
    <2>1. /\ consumer[c].pc # "idle" => consumer[c].order \in ToSet(sent)
          /\ consumer[c].pc = "acking" => consumer[c].order \in ToSet(payments)
      BY DEF IInv, ConsumersOK, DoingsOK
    <2> QED
      BY <1>5, <2>1
  <1>7. ASSUME Prompt PROVE RepeatsOwed'
    <2>1. ToSet(payments) \subseteq Orders
      BY ElementsTyped DEF IInv, TypeOK
    <2>2. Repayable' \subseteq Repayable \cup {x}
      BY <1>1, <1>7, <2>1 DEF Repayable, InQueue
    <2>3. faults' = faults => Repayable' \subseteq Repayable
      BY <1>1, <1>7, <2>1 DEF Repayable, InQueue
    <2> QED
      BY <1>1, <1>7, <2>2, <2>3, RepeatsKept DEF IInv, ConsumersOK
  <1>8. ConsumersOK'
    BY <1>4, <1>6, <1>7 DEF IInv, ConsumersOK, Prompt, secondsCalling
  <1>9. OnItsWay'
    <2>1. \A c \in Consumers, o \in Orders :
             consumer'[c].pc = "acking" /\ consumer'[c].order = o
                => consumer[c].pc = "acking" /\ consumer[c].order = o
      OBVIOUS
    <2> QED
      BY <1>1, <2>1 DEF IInv, OnItsWay, InQueue
  <1> QED
    BY <1>2, <1>3, <1>8, <1>9 DEF IInv

LEMMA ReceiveInv ==
    ASSUME IInv, NEW c \in Consumers, NEW o \in Orders, Receive(c, o) \/ ReceiveLost(c, o)
    PROVE  IInv'
  <1>1. /\ consumer[c].pc = "idle" /\ FirstOfGroup(o) /\ receiver[o] = NULL
        /\ receiver' = [receiver EXCEPT ![o] = c]
        /\ \/ consumer' = [consumer EXCEPT ![c] = Calling(o, 0)]
           \/ consumer' = consumer
        /\ UNCHANGED <<bookings, account, producer, queue, gateway>>
    BY DEF Receive, ReceiveLost, Deliverable
  <1>2. faults' \in 0 .. MaxFaults /\ faults' \in {faults, faults + 1}
    BY FaultTyped DEF IInv, Receive, ReceiveLost
  <1>3. /\ receiver \in [Orders -> Consumers \cup {NULL}]
        /\ consumer \in [Consumers -> Doings]
    BY DEF IInv, TypeOK
  <1>4. /\ receiver' \in [Orders -> Consumers \cup {NULL}]
        /\ consumer' \in [Consumers -> Doings]
    BY <1>1, <1>3, DoingsTyped
  <1>5. /\ \A p \in Orders : receiver'[p] = IF p = o THEN c ELSE receiver[p]
        /\ \A d \in Consumers \ {c} : consumer'[d] = consumer[d]
        /\ \/ consumer'[c] = consumer[c]
           \/ /\ consumer'[c].pc = "calling" /\ consumer'[c].order = o
    BY <1>1, <1>3, DoingsTyped
  <1>6. consumer[c].order # o
    BY <1>1, <1>3, DoingsTyped
  <1>7. o \in ToSet(queue)
    BY <1>1, FirstIsQueued DEF InQueue
  <1>8. CallersHold => CallersHold'
    <2> SUFFICES ASSUME CallersHold, NEW d \in Consumers, consumer'[d].pc = "calling"
                 PROVE  receiver'[consumer'[d].order] = d
      BY DEF CallersHold
    <2>1. CASE consumer'[d] = consumer[d]
      <3>1. receiver[consumer[d].order] = d /\ consumer[d].order \in Orders
        BY <1>3, <2>1, DoingsTyped DEF CallersHold
      <3>2. consumer[d].order # o
        BY <1>1, <3>1
      <3> QED
        BY <1>5, <2>1, <3>1, <3>2
    <2>2. CASE d = c /\ consumer'[c].order = o
      BY <1>5, <2>2
    <2> QED
      BY <1>5, <2>1, <2>2
  <1>9. \A p \in Orders : Leaving(p) => Leaving(p)'
    <2> SUFFICES ASSUME NEW p \in Orders, NEW d \in Consumers,
                        consumer[d].pc = "acking", consumer[d].order = p, receiver[p] = d
                 PROVE  Leaving(p)'
      BY DEF Leaving
    <2>1. p # o /\ d # c
      BY <1>1
    <2> QED
      BY <1>5, <2>1 DEF Leaving
  <1>10. /\ \A d \in Consumers :
               \/ consumer'[d] = consumer[d]
               \/ /\ consumer'[d].pc = "calling"
                  /\ consumer'[d].order \in ToSet(queue) \cup {consumer[d].order}
                  /\ consumer'[d].order # consumer[d].order
         /\ \A p \in Orders : receiver'[p] # NULL => receiver[p] = receiver'[p] \/ Deliverable(p)
    BY <1>1, <1>5, <1>6, <1>7 DEF Deliverable
  <1> QED
    BY <1>1, <1>2, <1>4, <1>8, <1>9, <1>10, ConsumerMoves

\* The state of a consumer after a failed attempt.
LEMMA NextAttemptTyped ==
    ASSUME TypeOK, NEW c \in Consumers, consumer[c].pc = "calling", NextAttempt(c)
    PROVE  /\ consumer' \in [Consumers -> Doings]
           /\ \A d \in Consumers \ {c} : consumer'[d] = consumer[d]
           /\ \/ consumer'[c].pc = "idle"
              \/ consumer'[c].pc = "calling" /\ consumer'[c].order = consumer[c].order
  <1>1. consumer \in [Consumers -> Doings]
    BY DEF TypeOK
  <1>2. /\ consumer[c].order \in Orders
        /\ consumer[c].retry \in 0 .. MaxRetries - 1
    BY <1>1, DoingsTyped
  <1>3. CASE consumer[c].retry < MaxRetries - 1
    <2>1. consumer[c].retry + 1 \in 0 .. MaxRetries - 1
      BY <1>2, <1>3
    <2>2. Calling(consumer[c].order, consumer[c].retry + 1) \in Doings
      BY <1>2, <2>1 DEF Doings
    <2>3. consumer' = [consumer EXCEPT ![c] = Calling(consumer[c].order, consumer[c].retry + 1)]
      BY <1>1, <1>3 DEF NextAttempt
    <2> QED
      BY <1>1, <2>2, <2>3, DoingsTyped
  <1>4. CASE ~(consumer[c].retry < MaxRetries - 1)
    <2>1. consumer' = [consumer EXCEPT ![c] = Idle]
      BY <1>1, <1>4 DEF NextAttempt
    <2> QED
      BY <1>1, <2>1, DoingsTyped
  <1> QED
    BY <1>3, <1>4

LEMMA CallFailsInv ==
    ASSUME IInv, NEW c \in Consumers, CallFails(c)
    PROVE  IInv'
  <1>1. /\ consumer[c].pc = "calling" /\ NextAttempt(c)
        /\ UNCHANGED <<bookings, account, producer, queue, receiver, gateway>>
    BY DEF CallFails
  <1>2. faults' \in 0 .. MaxFaults /\ faults' \in {faults, faults + 1}
    BY FaultTyped DEF IInv, CallFails
  <1>3. /\ consumer' \in [Consumers -> Doings]
        /\ \A d \in Consumers \ {c} : consumer'[d] = consumer[d]
        /\ \/ consumer'[c].pc = "idle"
           \/ consumer'[c].pc = "calling" /\ consumer'[c].order = consumer[c].order
    BY <1>1, NextAttemptTyped DEF IInv
  <1>4. receiver \in [Orders -> Consumers \cup {NULL}]
    BY DEF IInv, TypeOK
  <1>5. CallersHold => CallersHold'
    BY <1>1, <1>3 DEF CallersHold
  <1>6. \A p : Leaving(p) => Leaving(p)'
    BY <1>1, <1>3 DEF Leaving
  <1>7. receiver' \in [Orders -> Consumers \cup {NULL}]
    BY <1>1, <1>4
  <1>8. /\ \A d \in Consumers :
              \/ consumer'[d].pc = "idle"
              \/ consumer'[d] = consumer[d]
              \/ /\ consumer'[d].pc = "calling"
                 /\ consumer'[d].order = consumer[d].order
                 /\ consumer[d].pc = "calling"
        /\ \A p \in Orders : receiver[p] = receiver'[p]
    BY <1>1, <1>3
  <1> QED
    BY <1>1, <1>2, <1>3, <1>5, <1>6, <1>7, <1>8, ConsumerMoves

\* A consumer is done with its message, or died: the order may be charged anew.
LEMMA AbandonInv ==
    ASSUME IInv, NEW c \in Consumers, AckFails(c) \/ ConsumerCrash(c)
    PROVE  IInv'
  <1>1. /\ consumer' = [consumer EXCEPT ![c] = Idle]
        /\ UNCHANGED <<bookings, account, producer, queue, receiver, gateway>>
    BY DEF AckFails, ConsumerCrash
  <1>2. faults' \in 0 .. MaxFaults /\ faults' = faults + 1 /\ faults \in Nat
    BY FaultTyped DEF IInv, TypeOK, AckFails, ConsumerCrash, Fault
  <1>3. /\ receiver \in [Orders -> Consumers \cup {NULL}]
        /\ consumer \in [Consumers -> Doings]
    BY DEF IInv, TypeOK
  <1>4. /\ consumer' \in [Consumers -> Doings] /\ consumer'[c].pc = "idle"
        /\ \A d \in Consumers \ {c} : consumer'[d] = consumer[d]
    BY <1>1, <1>3, DoingsTyped
  <1>5. CallersHold => CallersHold'
    BY <1>1, <1>4 DEF CallersHold
  <1>6. \A p \in Orders \ {consumer[c].order} : Leaving(p) => Leaving(p)'
    BY <1>1, <1>4 DEF Leaving
  <1>7. faults' # faults
    BY <1>2
  <1> QED
    BY <1>1, <1>2, <1>3, <1>4, <1>5, <1>6, <1>7, ConsumerMoves

\* A receipt becomes void: of a message nobody works on, or by a fault.
LEMMA ReceiptVoidInv ==
    ASSUME IInv, NEW o \in Orders,
           VisibilityTimeout(o) \/ \E c \in Consumers : AckSlow(c) /\ consumer[c].order = o
    PROVE  IInv'
  <1>1. /\ receiver' = [receiver EXCEPT ![o] = NULL]
        /\ UNCHANGED <<bookings, account, producer, queue, consumer, gateway>>
    BY DEF VisibilityTimeout, AckSlow
  <1>2. faults' \in 0 .. MaxFaults /\ faults' \in {faults, faults + 1}
    BY FaultTyped DEF IInv, VisibilityTimeout, AckSlow
  <1>3. /\ receiver \in [Orders -> Consumers \cup {NULL}]
        /\ consumer \in [Consumers -> Doings]
    BY DEF IInv, TypeOK
  <1>4. /\ receiver' \in [Orders -> Consumers \cup {NULL}] /\ receiver'[o] = NULL
        /\ \A p \in Orders \ {o} : receiver'[p] = receiver[p]
    BY <1>1, <1>3
  <1>5. \A p \in Orders \ {o} : Leaving(p) => Leaving(p)'
    BY <1>1, <1>4 DEF Leaving
  <1>6. CASE VisibilityTimeout(o)
    <2>1. Prompt => receiver[o] # NULL /\ consumer[receiver[o]].order # o
      BY <1>6 DEF VisibilityTimeout, Prompt, secondsCalling
    <2>2. Prompt => ~Leaving(o)
      BY <2>1 DEF Leaving
    <2>3. Prompt => (CallersHold => CallersHold')
      BY <1>1, <1>3, <1>4, <2>1, DoingsTyped DEF CallersHold
    <2> QED
      BY <1>1, <1>2, <1>3, <1>4, <1>5, <2>2, <2>3, ConsumerMoves
  <1>7. ASSUME NEW c \in Consumers, AckSlow(c), consumer[c].order = o
        PROVE  IInv'
    <2>1. consumer[c].pc = "acking" /\ receiver[o] = c /\ faults' = faults + 1
      BY <1>7 DEF AckSlow, Fault
    <2>2. CallersHold => CallersHold'
      BY <1>1, <1>3, <1>4, <2>1, DoingsTyped DEF CallersHold
    <2>3. faults' # faults
      BY <2>1 DEF IInv, TypeOK
    <2> QED
      BY <1>1, <1>2, <1>3, <1>4, <1>5, <2>2, <2>3, ConsumerMoves
  <1> QED
    BY <1>6, <1>7

\* The gateway starts a payment: its answer arrives, or the call breaks.
LEMMA ChargeInv ==
    ASSUME IInv, NEW c \in Consumers, CallGateway(c) \/ CallLost(c)
    PROVE  IInv'
  <1>. DEFINE o == consumer[c].order
  <1>1. /\ consumer[c].pc = "calling" /\ Charge(o)
        /\ UNCHANGED <<holder, fate, account, outbox, sent, queue, receiver, aborted>>
    BY DEF CallGateway, CallLost, Charge, bookings, producer
  <1>2. /\ receiver \in [Orders -> Consumers \cup {NULL}]
        /\ consumer \in [Consumers -> Doings]
        /\ running \in [Orders -> Nat] /\ faults \in Nat
    BY DEF IInv, TypeOK
  <1>3. o \in Orders /\ o \in ToSet(sent)
    BY <1>1, <1>2, DoingsTyped DEF IInv, ConsumersOK, DoingsOK
  <1>. HIDE DEF o
  <1>4. /\ consumer' \in [Consumers -> Doings]
        /\ \A d \in Consumers \ {c} : consumer'[d] = consumer[d]
        /\ \/ /\ faults' = faults
              /\ consumer'[c].pc = "acking" /\ consumer'[c].order = o
           \/ /\ faults' = faults + 1
              /\ \/ consumer'[c].pc = "idle"
                 \/ consumer'[c].pc = "calling" /\ consumer'[c].order = o
    <2>1. CASE CallGateway(c)
      <3>1. consumer' = [consumer EXCEPT ![c] = Acking(o)] /\ faults' = faults
        BY <2>1 DEF CallGateway, NoFault, o
      <3> QED
        BY <1>2, <1>3, <3>1, DoingsTyped
    <2>2. CASE CallLost(c)
      <3>1. NextAttempt(c) /\ faults' = faults + 1
        BY <2>2 DEF CallLost, Fault
      <3> QED
        BY <1>1, <3>1, NextAttemptTyped DEF IInv, o
    <2> QED
      BY <2>1, <2>2
  <1>5. faults' \in 0 .. MaxFaults
    BY FaultTyped DEF IInv, CallGateway, CallLost
  <1>6. running' = [running EXCEPT ![o] = @ + 1]
    BY <1>1 DEF Charge
  <1>7. /\ running' \in [Orders -> Nat] /\ running'[o] > 0
        /\ \A p \in Orders \ {o} : running'[p] = running[p]
    <2>1. running[o] + 1 \in Nat /\ running[o] + 1 > 0
      BY <1>2, <1>3
    <2> QED
      BY <1>2, <1>3, <1>6, <2>1
  <1>8. Prompt => receiver[o] = c /\ FirstOfGroup(o)
    BY <1>1, <1>3 DEF IInv, ConsumersOK, ReceiptsOK, CallersHold, o
  <1>9. /\ payments' \in Seq(Orders) /\ ToSet(payments') = ToSet(payments) \cup {o}
        /\ Len(payments') = Len(payments) + 1
        /\ LedgerOK'
    BY <1>1, <1>3, <1>8, ChargeLedger DEF IInv
  <1>10. TypeOK'
    BY <1>1, <1>4, <1>5, <1>7, <1>9 DEF IInv, TypeOK, Booking!TypeOK
  <1>11. ReceiptsOK' /\ DoingsOK'
    <2>1. ReceiptsOK'
      BY <1>1 DEF IInv, ConsumersOK, ReceiptsOK, FirstOfGroup
    <2> SUFFICES ASSUME NEW d \in Consumers
                 PROVE  /\ consumer'[d].pc # "idle" => consumer'[d].order \in ToSet(sent)
                        /\ consumer'[d].pc = "acking" => consumer'[d].order \in ToSet(payments')
      BY <1>1, <2>1 DEF DoingsOK
    <2>2. CASE d = c
      BY <1>3, <1>4, <1>9, <2>2
    <2>3. CASE d # c
      BY <1>4, <1>9, <2>3 DEF IInv, ConsumersOK, DoingsOK
    <2> QED
      BY <2>2, <2>3
  <1>12. ASSUME Prompt PROVE CallersHold' /\ RepeatsOwed'
    <2>1. CallersHold'
      BY <1>1, <1>4, <1>8, <1>12 DEF IInv, ConsumersOK, CallersHold
    <2>2. InQueue(o) /\ ~Leaving(o)
      BY <1>1, <1>8, <1>12, FirstIsQueued DEF Leaving
    <2>3. Repayable' \subseteq Repayable \cup {o}
      BY <1>1, <1>4, <1>9 DEF Repayable, Leaving, InQueue
    <2>4. faults' = faults => o \notin Repayable'
      BY <1>1, <1>2, <1>4, <1>8, <1>12 DEF Repayable, Leaving
    <2> QED
      BY <1>4, <1>9, <1>12, <2>1, <2>2, <2>3, <2>4, RepeatsCharged DEF IInv, ConsumersOK
  <1>13. ConsumersOK'
    BY <1>11, <1>12 DEF ConsumersOK, Prompt, secondsCalling
  <1>14. OnItsWay'
    <2>1. \A p \in Orders : running[p] > 0 => running'[p] > 0
      BY <1>7
    <2>2. \A p \in Orders \ {o}, d \in Consumers :
             consumer'[d].pc = "acking" /\ consumer'[d].order = p
                => consumer[d].pc = "acking" /\ consumer[d].order = p
      BY <1>4
    <2> QED
      BY <1>1, <1>7, <2>1, <2>2 DEF IInv, OnItsWay, InQueue
  <1> QED
    BY <1>9, <1>10, <1>13, <1>14 DEF IInv

\* The message paid for is deleted, unless the receipt is void.
LEMMA AckInv ==
    ASSUME IInv, NEW c \in Consumers, Ack(c)
    PROVE  IInv'
  <1>. DEFINE o == consumer[c].order
  <1>1. /\ consumer[c].pc = "acking" /\ faults' = faults
        /\ consumer' = [consumer EXCEPT ![c] = Idle]
        /\ UNCHANGED <<bookings, account, producer, gateway>>
        /\ \/ /\ receiver[o] = c /\ Delete(o)
              /\ receiver' = [receiver EXCEPT ![o] = NULL]
           \/ receiver[o] # c /\ UNCHANGED <<queue, receiver>>
    BY DEF Ack, NoFault
  <1>2. /\ receiver \in [Orders -> Consumers \cup {NULL}]
        /\ consumer \in [Consumers -> Doings]
        /\ faults \in 0 .. MaxFaults
    BY DEF IInv, TypeOK
  <1>3. o \in Orders /\ o \in ToSet(payments)
    BY <1>1, <1>2, DoingsTyped DEF IInv, ConsumersOK, DoingsOK
  <1>4. /\ consumer' \in [Consumers -> Doings] /\ consumer'[c].pc = "idle"
        /\ \A d \in Consumers \ {c} : consumer'[d] = consumer[d]
    BY <1>1, <1>2, DoingsTyped
  <1>5. ASSUME receiver[o] # c, UNCHANGED <<queue, receiver>> PROVE IInv'
    <2>1. CallersHold => CallersHold'
      BY <1>4, <1>5 DEF CallersHold
    <2>2. \A p : Leaving(p) => Leaving(p)'
      BY <1>4, <1>5 DEF Leaving
    <2>3. receiver' \in [Orders -> Consumers \cup {NULL}]
      BY <1>2, <1>5
    <2> QED
      BY <1>1, <1>2, <1>4, <1>5, <2>1, <2>2, <2>3, ConsumerMoves
  <1>6. ASSUME receiver[o] = c, Delete(o), receiver' = [receiver EXCEPT ![o] = NULL]
        PROVE  IInv'
    <2>1. UNCHANGED <<holder, fate, account, outbox, sent, payments, running,
                      aborted>>
      BY <1>1 DEF bookings, producer, gateway
    <2>2. /\ receiver' \in [Orders -> Consumers \cup {NULL}] /\ receiver'[o] = NULL
          /\ \A p \in Orders \ {o} : receiver'[p] = receiver[p]
      BY <1>2, <1>3, <1>6
    <2>3. /\ queue' \in Seq(Orders) /\ ToSet(queue') = ToSet(queue) \ {o}
          /\ \A p \in Orders \ {o} : FirstOfGroup(p) => FirstOfGroup(p)'
          /\ LedgerOK'
      BY <1>3, <1>6, <2>1, DeleteLedger DEF IInv
    <2>4. TypeOK'
      BY <1>1, <1>4, <2>1, <2>2, <2>3 DEF IInv, TypeOK, Booking!TypeOK
    <2>5. ReceiptsOK'
      BY <2>2, <2>3 DEF IInv, ConsumersOK, ReceiptsOK
    <2>6. DoingsOK'
      BY <1>4, <2>1 DEF IInv, ConsumersOK, DoingsOK
    <2>7. CallersHold => CallersHold'
      BY <1>2, <1>4, <1>6, <2>2, DoingsTyped DEF CallersHold
    <2>8. RepeatsOwed => RepeatsOwed'
      <3>1. Repayable' \subseteq Repayable
        <4>1. ToSet(payments) \subseteq Orders
          BY ElementsTyped DEF IInv, TypeOK
        <4>2. \A p \in Orders \ {o} : Leaving(p) => Leaving(p)'
          BY <1>4, <2>2 DEF Leaving
        <4> QED
          BY <2>1, <2>3, <4>1, <4>2 DEF Repayable, InQueue
      <3> QED
        BY <1>1, <2>1, <3>1, RepeatsKept DEF IInv
    <2>9. ConsumersOK'
      BY <2>5, <2>6, <2>7, <2>8 DEF IInv, ConsumersOK, Prompt, secondsCalling
    <2>10. OnItsWay'
      BY <1>1, <1>4, <2>1, <2>3 DEF IInv, OnItsWay, InQueue
    <2> QED
      BY <2>3, <2>4, <2>9, <2>10 DEF IInv
  <1> QED
    BY <1>1, <1>5, <1>6

------------------------------------------------------------------------------
(***************************************************************************)
(* The theorems.                                                           *)
(***************************************************************************)
LEMMA NextInv == IInv /\ [Next]_vars => IInv'
  <1> SUFFICES ASSUME IInv, [Next]_vars PROVE IInv'
    OBVIOUS
  <1>1. CASE UNCHANGED vars
    <2>1. UNCHANGED <<holder, fate, account, outbox, sent, queue, receiver, consumer, payments,
                      running, aborted, faults>>
      BY <1>1 DEF vars, bookings, producer, gateway
    <2>2. LedgerOK' /\ ConsumersOK'
      BY <2>1, PipelineKept
    <2>3. TypeOK' /\ OnItsWay'
      BY <2>1 DEF IInv, TypeOK, Booking!TypeOK, OnItsWay, InQueue
    <2> QED
      BY <2>2, <2>3 DEF IInv
  <1>2. ASSUME NEW o \in Orders,
               \/ \E s \in Seats : CreateOrder(o, s)
               \/ Send(o) \/ SendUnacknowledged(o) \/ SendFails(o)
               \/ VisibilityTimeout(o)
               \/ Webhook(o) \/ WebhookAborted(o) \/ WebhookFails(o)
        PROVE  IInv'
    BY <1>2, CreateOrderInv, SendInv, LoseMessageInv, ReceiptVoidInv, WebhookInv,
       WebhookAbortedInv, LoseWebhookInv
  <1>3. ASSUME NEW c \in Consumers,
               \/ \E o \in Orders : Receive(c, o) \/ ReceiveLost(c, o)
               \/ CallGateway(c) \/ CallLost(c) \/ CallFails(c)
               \/ Ack(c) \/ AckFails(c) \/ ConsumerCrash(c)
        PROVE  IInv'
    BY <1>3, ReceiveInv, ChargeInv, CallFailsInv, AckInv, AbandonInv
  <1>4. ASSUME NEW c \in Consumers, AckSlow(c) PROVE IInv'
    <2>1. consumer[c].order \in Orders
      BY <1>4, DoingsTyped DEF AckSlow, IInv, TypeOK
    <2> QED
      BY <1>4, <2>1, ReceiptVoidInv
  <1>5. CASE OrderServiceCrash \/ GatewayCrash
    BY <1>5, LoseMessageInv, LoseWebhookInv
  <1>6. CASE Quiescent
    BY <1>1, <1>6 DEF Quiescent
  <1> QED
    BY <1>1, <1>2, <1>3, <1>4, <1>5, <1>6 DEF Next

\* Everything above holds in every state the pipeline reaches.
THEOREM Invariance == Spec => []IInv
  BY InitInv, NextInv, PTL DEF Spec

\* Messages, receipts, consumers and counters keep their types through every
\* send, delivery, payment, delete and fault.
THEOREM TypeCorrect == Spec => []TypeOK
  <1>1. IInv => TypeOK
    BY DEF IInv
  <1> QED
    BY <1>1, Invariance, PTL

\* processMessage deletes a message only after processPayment succeeded: whatever
\* fails, a message the queue took is in the queue or was paid.
THEOREM DeletedCorrect == Spec => []DeletedIsCharged
  <1>1. IInv => DeletedIsCharged
    BY DEF IInv, LedgerOK
  <1> QED
    BY <1>1, Invariance, PTL

\* createOrder, the consumer and the gateway hand an order to each other without a
\* moment in which nobody has it, if none of the four losing faults happens and
\* PostgreSQL does not abort the webhook.
THEOREM ForgottenCorrect == Spec => []NothingForgotten
  <1>1. IInv => NothingForgotten
    BY DEF IInv, OnItsWay, NothingForgotten
  <1> QED
    BY <1>1, Invariance, PTL

\* With attempts that end before the visibility timeout (VisibilityTimeout = 30,
\* maxRetries = 3), the payments of an account reach the gateway in the order
\* its messages reached the queue, however many consumers poll and whatever fails.
THEOREM SerialCorrect ==
    ASSUME secondsCalling < 30
    PROVE  Spec => []AccountSerial
  <1>1. IInv => AccountSerial
    BY DEF IInv, LedgerOK, Prompt
  <1> QED
    BY <1>1, Invariance, PTL

\* Under the same condition every repeated payment is owed to a fault of its own.
THEOREM RepeatsCorrect ==
    ASSUME secondsCalling < 30
    PROVE  Spec => []RepeatsNeedFaults
  <1>1. IInv => RepeatsNeedFaults
    <2> SUFFICES ASSUME IInv PROVE RepeatsNeedFaults
      OBVIOUS
    <2>1. RepeatsOwed /\ TypeOK
      BY DEF IInv, ConsumersOK, Prompt
    <2>2. Cardinality(Repayable) \in Nat /\ Cardinality(ToSet(payments)) \in Nat
      <3>1. Repayable \subseteq ToSet(payments)
        BY DEF Repayable
      <3>2. IsFiniteSet(Repayable)
        BY <2>1, <3>1, FS_Subset DEF RepeatsOwed
      <3> QED
        BY <2>1, <3>2, FS_CardinalityType DEF RepeatsOwed
    <2>3. Len(payments) \in Nat /\ faults \in Nat
      BY <2>1, ElementsTyped DEF TypeOK
    <2> QED
      BY <2>1, <2>2, <2>3 DEF RepeatsOwed, RepeatsNeedFaults
  <1> QED
    BY <1>1, Invariance, PTL
===============================================================================
