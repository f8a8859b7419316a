-------------------------- MODULE RpcManagerProofs --------------------------
(***************************************************************************)
(* Every query handed to RpcManager gets exactly one callback, within the  *)
(* limits on what waits and what is outstanding, for any number of hosts,  *)
(* queries and transaction ids and any limits.                             *)
(***************************************************************************)
EXTENDS RpcManager, TLAPS, WellFoundedInduction, FiniteSetTheorems,
        SequenceTheorems

-----------------------------------------------------------------------------
(* Sequences without repeats                                               *)

\* Appending an element to a sequence without repeats.
LEMMA AppendOnce ==
    ASSUME NEW S, NEW s \in Seq(S), NEW e \in S
    PROVE  /\ Append(s, e) \in Seq(S) /\ Append(s, e) # <<>>
           /\ Range(Append(s, e)) = Range(s) \cup {e}
           /\ IsInjective(s) /\ e \notin Range(s) => IsInjective(Append(s, e))
<1>1. /\ Append(s, e) \in Seq(S) /\ DOMAIN Append(s, e) = 1..(Len(s) + 1)
      /\ Append(s, e) # <<>>
      /\ DOMAIN s = 1..Len(s) /\ Len(s) \in Nat
      /\ \A i \in 1..Len(s) : Append(s, e)[i] = s[i]
      /\ Append(s, e)[Len(s) + 1] = e
  OBVIOUS
<1>2. Range(Append(s, e)) = Range(s) \cup {e}
  <2>1. \A i \in 1..(Len(s) + 1) : i \in 1..Len(s) \/ i = Len(s) + 1
    BY <1>1
  <2>2. 1..Len(s) \subseteq 1..(Len(s) + 1) /\ Len(s) + 1 \in 1..(Len(s) + 1)
    BY <1>1
  <2>3. QED
    BY <1>1, <2>1, <2>2 DEF Range
<1>3. ASSUME IsInjective(s), e \notin Range(s) PROVE IsInjective(Append(s, e))
  BY <1>1, <1>3 DEF IsInjective, Range
<1>4. QED
  BY <1>1, <1>2, <1>3

\* Taking the head off a sequence without repeats.
LEMMA TailOnce ==
    ASSUME NEW S, NEW s \in Seq(S), s # <<>>
    PROVE  /\ Head(s) \in S /\ Head(s) \in Range(s) /\ Tail(s) \in Seq(S)
           /\ Range(s) = Range(Tail(s)) \cup {Head(s)}
           /\ IsInjective(s) => IsInjective(Tail(s)) /\ Head(s) \notin Range(Tail(s))
           /\ Len(s) = 1 <=> Tail(s) = <<>>
<1>1. /\ Tail(s) \in Seq(S) /\ DOMAIN Tail(s) = 1..(Len(s) - 1)
      /\ DOMAIN s = 1..Len(s) /\ Len(s) \in Nat /\ Len(s) > 0
      /\ Head(s) = s[1] /\ s[1] \in S
      /\ \A i \in 1..(Len(s) - 1) : Tail(s)[i] = s[i + 1]
      /\ Len(Tail(s)) = Len(s) - 1
  OBVIOUS
<1>2. Range(s) = Range(Tail(s)) \cup {Head(s)}
  <2>1. \A i \in 1..Len(s) : i = 1 \/ (i - 1 \in 1..(Len(s) - 1) /\ (i - 1) + 1 = i)
    BY <1>1
  <2>2. \A i \in 1..(Len(s) - 1) : i + 1 \in 1..Len(s)
    BY <1>1
  <2>3. 1 \in 1..Len(s)
    BY <1>1
  <2>4. Range(s) \subseteq Range(Tail(s)) \cup {Head(s)}
    <3>1. \A i \in DOMAIN s : s[i] = Head(s) \/ \E j \in DOMAIN Tail(s) : Tail(s)[j] = s[i]
      <4> SUFFICES ASSUME NEW i \in 1..Len(s), i # 1
                   PROVE  \E j \in DOMAIN Tail(s) : Tail(s)[j] = s[i]
        BY <1>1
      <4>1. i - 1 \in DOMAIN Tail(s) /\ (i - 1) + 1 = i
        BY <1>1, <2>1
      <4>2. Tail(s)[i - 1] = s[i]
        BY <1>1, <4>1
      <4>3. QED
        BY <4>1, <4>2
    <3>2. QED
      BY <3>1 DEF Range
  <2>5. Range(Tail(s)) \subseteq Range(s)
    <3>1. \A i \in DOMAIN Tail(s) : i + 1 \in DOMAIN s /\ Tail(s)[i] = s[i + 1]
      BY <1>1, <2>2
    <3>2. QED
      BY <3>1 DEF Range
  <2>6. Head(s) \in Range(s)
    BY <1>1, <2>3 DEF Range
  <2>7. QED
    BY <2>4, <2>5, <2>6
<1>3. ASSUME IsInjective(s) PROVE IsInjective(Tail(s)) /\ Head(s) \notin Range(Tail(s))
  BY <1>1, <1>3 DEF IsInjective, Range
<1>4. Len(s) = 1 <=> Tail(s) = <<>>
  <2>1. Tail(s) = <<>> <=> Len(Tail(s)) = 0
    BY <1>1, EmptySeq
  <2>2. QED
    BY <1>1, <2>1
<1>5. QED
  BY <1>1, <1>2, <1>3, <1>4

-----------------------------------------------------------------------------
(* Transaction ids                                                         *)

\* A nonempty set of naturals has a least element.
LEMMA LeastNat ==
    ASSUME NEW S \in SUBSET Nat, S # {}
    PROVE  \E x \in S : \A y \in S : x <= y
<1> DEFINE R == OpToRel(<, Nat)
<1>1. IsWellFoundedOn(R, Nat)
  BY NatLessThanWellFounded
<1>2. \A x, y \in Nat : x < y => <<x, y>> \in R
  BY DEF OpToRel
<1> HIDE DEF R
<1>3. \E x \in S : \A y \in S : ~ (<<y, x>> \in R)
  BY <1>1, WFMin
<1>4. \A x, y \in Nat : ~(y < x) => x <= y
  OBVIOUS
<1>5. QED
  BY <1>2, <1>3, <1>4

\* Counting on from any id modulo their number reaches every id.
LEMMA IdsWrap ==
    ASSUME NEW n \in Nat \ {0}, NEW x \in 0..(n - 1), NEW t \in 0..(n - 1)
    PROVE  \E k \in 0..(n - 1) : (x + k) % n = t
<1>1. \A y \in 0..(n - 1) : y % n = y /\ (y + n) % n = y
  OBVIOUS
<1>2. CASE x <= t
  <2>1. t - x \in 0..(n - 1) /\ x + (t - x) = t
    BY <1>2
  <2>2. QED
    BY <1>1, <2>1
<1>3. CASE t < x
  <2>1. (t + n) - x \in 0..(n - 1) /\ x + ((t + n) - x) = t + n
    BY <1>3
  <2>2. QED
    BY <1>1, <2>1
<1>4. QED
  BY <1>2, <1>3

\* While fewer than m_maxPending queries are outstanding, nextTransactionId()
\* terminates with an id none of them holds.
LEMMA FreshId ==
    ASSUME TypeOK, canSendNow
    PROVE  nextTransactionId \in Tids /\ nextTransactionId \notin DOMAIN pending
<1> USE RpcAssumption
<1> DEFINE D == DOMAIN pending
           F == {i \in Tids : (nextId + i) % NumTids \notin D}
<1>1. NumTids \in Nat /\ NumTids > 0 /\ MaxPending \in Nat /\ MaxPending <= NumTids
      /\ nextId \in Tids /\ D \subseteq Tids
  BY DEF TypeOK
<1>2. IsFiniteSet(Tids) /\ Cardinality(Tids) = NumTids
  BY <1>1, FS_Interval DEF Tids
<1>3. D # Tids
  BY <1>1, <1>2 DEF canSendNow
<1>4. PICK t \in Tids : t \notin D
  BY <1>1, <1>3
<1>5. \E k \in Tids : (nextId + k) % NumTids = t
  BY <1>1, <1>4, IdsWrap DEF Tids
<1>6. F # {} /\ F \in SUBSET Nat
  BY <1>4, <1>5 DEF Tids
<1>7. PICK m \in F : \A i \in F : m <= i
  BY <1>6, LeastNat
<1>8. m \in Tids /\ m \in Nat /\ \A j \in 0..(m - 1) : (nextId + j) % NumTids \in D
  <2>1. m \in Tids /\ m \in 0..(NumTids - 1)
    BY <1>7 DEF Tids
  <2>2. \A j \in 0..(m - 1) : j \in Tids /\ ~(m <= j)
    BY <1>1, <2>1 DEF Tids
  <2>3. QED
    BY <1>7, <2>1, <2>2
<1> DEFINE Free(k) == (nextId + k) % NumTids \notin D
           P(i) == Free(i) /\ \A j \in 0..(i - 1) : ~Free(j)
           c == CHOOSE i \in Tids : P(i)
<1>9. P(m)
  BY <1>7, <1>8
<1>10. c \in Tids /\ P(c)
  <2> HIDE DEF P
  <2>1. QED
    BY <1>8, <1>9
<1>11. nextTransactionId = (nextId + c) % NumTids
  BY DEF nextTransactionId
<1> HIDE DEF c
<1>12. nextTransactionId \notin D
  BY <1>10, <1>11
<1>13. nextId + c \in Nat
  BY <1>1, <1>10 DEF Tids
<1>14. \A y \in Nat : y % NumTids \in 0..(NumTids - 1)
  BY <1>1
<1>15. QED
  BY <1>11, <1>12, <1>13, <1>14 DEF Tids

-----------------------------------------------------------------------------
(* What the parts of the handlers do to the three places a query can be    *)

\* A budget that send() or drain() may pass on: within its cap, refilled for no more
\* than the ticks that have passed.
Budget(b) ==
    /\ b.balance \in Int /\ b.balance <= ContactCap
    /\ b.refilled \in 0..elapsed /\ b.recent \in [Endpoints -> Nat]

\* What a handler leaves of a budget with `elapsed` ticks to account for: the rest
\* of them is added, never beyond the cap, and nothing is taken.
LEMMA BudgetAfter ==
    ASSUME TypeOK, NEW b, Budget(b), After(b) \/ Return(b)
    PROVE  /\ credit' \in [Hosts -> Nat] /\ recent' \in [Endpoints -> Nat]
           /\ balance' \in Int /\ balance' <= ContactCap /\ balance' >= b.balance
           /\ elapsed' \in 0..MaxElapsed /\ refilled' \in 0..elapsed'
<1> USE RpcAssumption
<1>1. /\ credit \in [Hosts -> Nat] /\ elapsed \in 0..MaxElapsed
      /\ b.balance \in Int /\ b.balance <= ContactCap /\ b.refilled \in 0..elapsed
      /\ b.recent \in [Endpoints -> Nat]
  BY DEF TypeOK, Budget
<1>2. CASE Proceed(b)
  BY <1>1, <1>2 DEF Proceed
<1>3. CASE Return(b)
  <2>1. \A x \in Nat : Lesser(HostBurst, x + elapsed) \in Nat /\ Less(x, elapsed) \in Nat
    BY <1>1 DEF Lesser, Less
  <2>2. /\ credit' = [h \in Hosts |-> Lesser(HostBurst, credit[h] + elapsed)]
        /\ recent' = [e \in Endpoints |-> Less(b.recent[e], elapsed)]
        /\ balance' = Lesser(ContactCap, b.balance + elapsed - b.refilled)
        /\ elapsed' = 0 /\ refilled' = 0
    BY <1>3 DEF Return, Refill
  <2>3. credit' \in [Hosts -> Nat] /\ recent' \in [Endpoints -> Nat]
    BY <1>1, <2>1, <2>2
  <2>4. balance' \in Int /\ balance' <= ContactCap /\ balance' >= b.balance
    BY <1>1, <2>2 DEF Lesser
  <2>5. QED
    BY <2>2, <2>3, <2>4
<1>4. QED
  BY <1>2, <1>3 DEF After

\* record() takes something only from an endpoint that is not live now, and takes
\* what the refilled allowance can pay if the check took it for a new contact.
LEMMA RecordEffect ==
    ASSUME TypeOK, PassedChecks, NEW q \in sending
    PROVE  /\ Budget(Unrecorded) /\ Unrecorded.balance = balance
           /\ Budget(record(To[q]))
           /\ \/ record(To[q]).balance >= balance
              \/ record(To[q]).balance >= 0
              \/ Lapsed(q)
<1> USE RpcAssumption
<1> DEFINE e == To[q]
           full == Lesser(ContactCap, balance + elapsed - refilled)
<1>1. /\ balance \in Int /\ balance <= ContactCap /\ elapsed \in Nat /\ refilled \in 0..elapsed
      /\ recent \in [Endpoints -> Nat] /\ e \in Endpoints /\ affordable(e)
  BY DEF TypeOK, PassedChecks
<1>2. Budget(Unrecorded) /\ Unrecorded.balance = balance
  BY <1>1 DEF Budget, Unrecorded
<1>3. full \in Int /\ full >= balance /\ full <= ContactCap
  BY <1>1 DEF Lesser
<1>4. Written(e) \in [Endpoints -> Nat]
  BY <1>1 DEF Written
<1>5. CASE limited /\ ~LiveNow(e)
  <2>1. record(e) = [balance |-> full - ContactCost, refilled |-> elapsed, recent |-> Written(e)]
    BY <1>5 DEF record, Charged, Refill
  <2>2. full - ContactCost \in Int /\ full - ContactCost <= ContactCap /\ elapsed \in 0..elapsed
    BY <1>1, <1>3
  <2> HIDE DEF full
  <2>3. Budget(record(e))
    BY <2>1, <2>2, <1>4 DEF Budget
  <2>4. CASE LiveThen(e)
    BY <1>2, <1>5, <2>3, <2>4 DEF Lapsed
  <2>5. CASE ~LiveThen(e)
    <3>1. balance >= ContactCost
      BY <1>1, <1>5, <2>5 DEF affordable
    <3>2. record(e).balance >= 0
      BY <1>1, <1>3, <2>1, <3>1
    <3>3. QED
      BY <1>2, <2>3, <3>2
  <2>6. QED
    BY <2>4, <2>5
<1>6. CASE ~(limited /\ ~LiveNow(e))
  <2>1. record(e) = [balance |-> balance, refilled |-> refilled, recent |-> Written(e)]
    BY <1>6 DEF record, Uncharged, Unrecorded
  <2>2. Budget(record(e)) /\ record(e).balance = balance
    BY <1>1, <1>4, <2>1 DEF Budget
  <2>3. QED
    BY <1>1, <1>2, <2>2
<1>7. QED
  BY <1>5, <1>6

\* Sending hands the query over to exactly one of m_pending and the posted
\* reports, and takes nothing from them; what it costs is as record() says.
LEMMA SendEffect ==
    ASSUME TypeOK, PassedChecks, PendingOnce, IsInjective(notices),
           NEW q \in Queries, q \notin Outstanding, q \notin Noticed, send(q)
    PROVE  /\ DOMAIN pending' \subseteq Tids
           /\ \A t \in DOMAIN pending' : pending'[t] \in [query : Queries, left : 0..Timeout]
           /\ nextId' \in Tids /\ notices' \in Seq(Queries)
           /\ credit' \in [Hosts -> Nat] /\ recent' \in [Endpoints -> Nat]
           /\ balance' \in Int /\ balance' <= ContactCap
           /\ balance' >= balance \/ balance' >= 0 \/ Lapsed(q)
           /\ elapsed' \in 0..MaxElapsed /\ refilled' \in 0..elapsed'
           /\ PendingOnce' /\ IsInjective(notices')
           /\ Outstanding' \cap Noticed' = Outstanding \cap Noticed
           /\ Outstanding' \cup Noticed' = Outstanding \cup Noticed \cup {q}
<1> USE RpcAssumption
<1> DEFINE tid == nextTransactionId
<1>0. q \in sending /\ canSendNow
  BY DEF send, PassedChecks
<1>1. tid \in Tids /\ tid \notin DOMAIN pending
  BY <1>0, FreshId
<1> HIDE DEF tid
<1>2. /\ nextId' = (tid + 1) % NumTids
      /\ Sent(q, tid) \/ NotSent(q, tid)
  BY DEF send, tid
<1>3. nextId' \in Tids
  <2>1. tid + 1 \in Nat /\ NumTids \in Nat \ {0}
    BY <1>1 DEF Tids
  <2>2. \A n \in Nat \ {0} : \A x \in Nat : x % n \in 0..(n - 1)
    OBVIOUS
  <2>3. QED
    BY <1>2, <2>1, <2>2 DEF Tids
<1>4. /\ credit' \in [Hosts -> Nat] /\ recent' \in [Endpoints -> Nat]
      /\ balance' \in Int /\ balance' <= ContactCap
      /\ balance' >= balance \/ balance' >= 0 \/ Lapsed(q)
      /\ elapsed' \in 0..MaxElapsed /\ refilled' \in 0..elapsed'
  <2> DEFINE b == IF Sent(q, tid) THEN record(To[q]) ELSE Unrecorded
  <2>1. After(b)
    BY <1>2 DEF Sent, NotSent
  <2>2. /\ Budget(b)
        /\ b.balance >= balance \/ b.balance >= 0 \/ Lapsed(q)
    BY <1>0, RecordEffect DEF TypeOK
  <2> HIDE DEF b
  <2>3. b.balance \in Int /\ balance \in Int
    BY <2>2 DEF Budget, TypeOK
  <2>4. /\ credit' \in [Hosts -> Nat] /\ recent' \in [Endpoints -> Nat]
        /\ balance' \in Int /\ balance' <= ContactCap /\ balance' >= b.balance
        /\ elapsed' \in 0..MaxElapsed /\ refilled' \in 0..elapsed'
    BY <2>1, <2>2, BudgetAfter
  <2>5. QED
    BY <2>2, <2>3, <2>4
<1>5. CASE Sent(q, tid)
  <2>1. /\ DOMAIN pending' = DOMAIN pending \cup {tid}
        /\ pending'[tid] = [query |-> q, left |-> Timeout]
        /\ \A t \in DOMAIN pending : pending'[t] = pending[t]
        /\ notices' = notices
    BY <1>1, <1>5 DEF Sent
  <2>2. Timeout \in 0..Timeout
    OBVIOUS
  <2>3. /\ DOMAIN pending' \subseteq Tids
        /\ \A t \in DOMAIN pending' : pending'[t] \in [query : Queries, left : 0..Timeout]
    BY <1>1, <2>1, <2>2 DEF TypeOK
  <2>4. PendingOnce'
    BY <1>1, <2>1 DEF PendingOnce, Outstanding
  <2>5. Outstanding' = Outstanding \cup {q} /\ Noticed' = Noticed
    BY <2>1 DEF Outstanding, Noticed
  <2>6. notices' \in Seq(Queries) /\ IsInjective(notices')
    BY <2>1 DEF TypeOK
  <2>7. QED
    BY <1>3, <1>4, <2>3, <2>4, <2>5, <2>6
<1>6. CASE NotSent(q, tid)
  <2>1. /\ DOMAIN pending' = DOMAIN pending
        /\ \A t \in DOMAIN pending : pending'[t] = pending[t]
        /\ notices' = Append(notices, q)
    BY <1>1, <1>6 DEF NotSent, Report
  <2>2. /\ DOMAIN pending' \subseteq Tids
        /\ \A t \in DOMAIN pending' : pending'[t] \in [query : Queries, left : 0..Timeout]
    BY <2>1 DEF TypeOK
  <2>3. PendingOnce' /\ Outstanding' = Outstanding
    BY <2>1 DEF PendingOnce, Outstanding
  <2>4. notices \in Seq(Queries) /\ q \notin Range(notices)
    BY DEF TypeOK, Noticed
  <2>5. notices' \in Seq(Queries) /\ IsInjective(notices') /\ Noticed' = Noticed \cup {q}
    BY <2>1, <2>4, AppendOnce DEF Noticed
  <2>6. QED
    BY <1>3, <1>4, <2>2, <2>3, <2>5
<1>7. QED
  BY <1>2, <1>5, <1>6

\* A query that has passed the checks is charged to its host and given to send(),
\* which finds what they found.
LEMMA HandOverEffect ==
    ASSUME TypeOK, PassedChecks, NEW q \in Queries,
           canSendNow, affordable(To[q]), HasCredit(Host(q)), HandOver(q)
    PROVE  /\ UNCHANGED <<pending, nextId, notices, limited, balance, recent, elapsed, refilled>>
           /\ sending' = {q} /\ credit' \in [Hosts -> Nat] /\ PassedChecks'
<1> USE RpcAssumption
<1>1. /\ UNCHANGED <<pending, nextId, notices, limited, balance, recent, elapsed, refilled>>
      /\ sending' = {q} /\ credit' = [credit EXCEPT ![Host(q)] = @ - HostCost]
  BY DEF HandOver
<1>2. credit' \in [Hosts -> Nat]
  <2>1. Host(q) \in Hosts
    BY DEF Host
  <2>2. credit \in [Hosts -> Nat]
    BY DEF TypeOK
  <2>3. credit[Host(q)] - HostCost \in Nat
    BY <2>1, <2>2 DEF HasCredit
  <2>4. QED
    BY <1>1, <2>1, <2>2, <2>3
<1>3. canSendNow' /\ affordable(To[q])'
  BY <1>1 DEF canSendNow, affordable, LiveThen
<1>4. PassedChecks'
  BY <1>1, <1>3 DEF PassedChecks, affordable, LiveThen
<1>5. QED
  BY <1>1, <1>2, <1>4

\* Queueing a query that waits nowhere yet puts it at the end of its host's
\* queue, and its host in the order.
LEMMA EnqueueEffect ==
    ASSUME TypeOK, WaitingOnce, OrderMatchesQueues,
           NEW q \in Queries, q \notin Queued, Enqueue(q)
    PROVE  /\ DOMAIN queues' \subseteq Hosts
           /\ \A h \in DOMAIN queues' : queues'[h] \in Seq(Queries)
           /\ order' \in Seq(Hosts) /\ queuedTotal' \in Int
           /\ WaitingOnce' /\ OrderMatchesQueues'
           /\ Queued' = Queued \cup {q}
           /\ DOMAIN queues' # {}
<1> USE RpcAssumption
<1> DEFINE h == Host(q)
           old == IF h \in DOMAIN queues THEN queues[h] ELSE <<>>
           new == Append(old, q)
<1>1. h \in Hosts
  BY DEF Host
<1>2. Host(q) = h
  OBVIOUS
<1> HIDE DEF h
<1>3. old \in Seq(Queries) /\ IsInjective(old) /\ Range(old) \subseteq Queued
      /\ q \notin Range(old) /\ \A r \in Range(old) : Host(r) = h
  <2>1. CASE h \in DOMAIN queues
    BY <2>1 DEF TypeOK, WaitingOnce, Queued, OrderMatchesQueues
  <2>2. CASE h \notin DOMAIN queues
    BY <2>2 DEF IsInjective, Range
  <2>3. QED
    BY <2>1, <2>2
<1>4. /\ DOMAIN queues' = DOMAIN queues \cup {h}
      /\ \A x \in DOMAIN queues \ {h} : queues'[x] = queues[x]
      /\ queues'[h] = new
      /\ order' = IF h \in DOMAIN queues THEN order ELSE Append(order, h)
      /\ queuedTotal' = queuedTotal + 1
  <2>1. Append(<<>>, q) = <<q>>
    OBVIOUS
  <2>2. QED
    BY <1>2, <2>1 DEF Enqueue
<1>5. new \in Seq(Queries) /\ new # <<>> /\ IsInjective(new) /\ Range(new) = Range(old) \cup {q}
  BY <1>3, AppendOnce, ZenonT(40)
<1> HIDE DEF new
<1>6. DOMAIN queues' \subseteq Hosts /\ \A x \in DOMAIN queues' : queues'[x] \in Seq(Queries)
  BY <1>1, <1>4, <1>5 DEF TypeOK
<1>7. \A x \in DOMAIN queues \ {h} : Range(queues[x]) \cap Range(old) = {}
                                     /\ q \notin Range(queues[x])
  BY DEF WaitingOnce, Queued, Range
<1> HIDE DEF old
<1>8. WaitingOnce'
  <2>1. \A x \in DOMAIN queues' : IsInjective(queues'[x])
    BY <1>4, <1>5 DEF WaitingOnce
  <2>2. ASSUME NEW x \in DOMAIN queues', NEW y \in DOMAIN queues', x # y
        PROVE  Range(queues'[x]) \cap Range(queues'[y]) = {}
    <3>1. CASE x = h
      BY <2>2, <3>1, <1>4, <1>5, <1>7
    <3>2. CASE y = h
      BY <2>2, <3>2, <1>4, <1>5, <1>7
    <3>3. CASE x # h /\ y # h
      BY <2>2, <3>3, <1>4 DEF WaitingOnce
    <3>4. QED
      BY <3>1, <3>2, <3>3
  <2>3. QED
    BY <2>1, <2>2 DEF WaitingOnce
<1>9. Queued' = Queued \cup {q}
  <2>1. Queued' = UNION {Range(queues'[x]) : x \in DOMAIN queues'}
    BY DEF Queued
  <2>2. \A x \in DOMAIN queues : Range(queues[x]) \subseteq Range(queues'[x])
    <3>1. h \in DOMAIN queues => old = queues[h]
      BY DEF old
    <3>2. QED
      BY <1>4, <1>5, <3>1
  <2>3. \A x \in DOMAIN queues' : Range(queues'[x]) \subseteq Queued \cup {q}
    BY <1>3, <1>4, <1>5 DEF Queued
  <2>4. q \in Range(queues'[h]) /\ h \in DOMAIN queues'
    BY <1>4, <1>5
  <2>5. Queued' \subseteq Queued \cup {q}
    BY <2>1, <2>3
  <2>6. Queued \subseteq Queued'
    BY <1>4, <2>1, <2>2 DEF Queued
  <2>7. q \in Queued'
    BY <2>1, <2>4
  <2>8. QED
    BY <2>5, <2>6, <2>7
<1>10. order' \in Seq(Hosts) /\ Range(order') = DOMAIN queues' /\ IsInjective(order')
  <2>1. order \in Seq(Hosts) /\ Range(order) = DOMAIN queues /\ IsInjective(order)
    BY DEF TypeOK, OrderMatchesQueues
  <2>2. QED
    BY <1>1, <1>4, <2>1, AppendOnce
<1>11. \A x \in DOMAIN queues' :
          queues'[x] # <<>> /\ \A r \in Range(queues'[x]) : Host(r) = x
  BY <1>2, <1>3, <1>4, <1>5 DEF OrderMatchesQueues
<1>12. queuedTotal' \in Int
  BY <1>4 DEF TypeOK
<1>13. QED
  BY <1>4, <1>6, <1>8, <1>9, <1>10, <1>11, <1>12 DEF OrderMatchesQueues, Host

\* drain() taking the first query of the host in front removes just that query
\* from the queues, and the host from the order when it was the last.
LEMMA DequeueEffect ==
    ASSUME TypeOK, WaitingOnce, OrderMatchesQueues, DrainSend,
           NEW q, q = Head(queues[Head(order)])
    PROVE  /\ q \in Queries /\ q \in Queued
           /\ HasCredit(Host(q)) /\ canSendNow /\ affordable(To[q]) /\ HandOver(q)
           /\ DOMAIN queues' \subseteq Hosts
           /\ \A h \in DOMAIN queues' : queues'[h] \in Seq(Queries)
           /\ order' \in Seq(Hosts) /\ queuedTotal' \in Int
           /\ WaitingOnce' /\ OrderMatchesQueues'
           /\ Queued' = Queued \ {q}
<1> DEFINE h == Head(order)
           s == queues[h]
           left == Tail(queues[h])
           stay == IF left = <<>> THEN DOMAIN queues \ {h} ELSE DOMAIN queues
           rest == Tail(order)
<1>1. /\ order # <<>> /\ canSendNow /\ HasCredit(h) /\ affordable(To[q]) /\ HandOver(q)
      /\ queues' = [x \in stay |-> IF x = h THEN left ELSE queues[x]]
      /\ order' = IF Len(s) = 1 THEN rest ELSE Append(rest, h)
      /\ queuedTotal' = queuedTotal - 1
  BY DEF DrainSend, MoreTurns, Requeue
<1>2. order \in Seq(Hosts) /\ Range(order) = DOMAIN queues /\ IsInjective(order)
  BY DEF TypeOK, OrderMatchesQueues
<1>3. /\ h \in Hosts /\ h \in DOMAIN queues /\ rest \in Seq(Hosts) /\ IsInjective(rest)
      /\ h \notin Range(rest) /\ DOMAIN queues = Range(rest) \cup {h}
  BY <1>1, <1>2, TailOnce
<1>4. /\ s \in Seq(Queries) /\ s # <<>> /\ IsInjective(s)
      /\ \A r \in Range(s) : Host(r) = h
  BY <1>3 DEF TypeOK, WaitingOnce, OrderMatchesQueues
<1>5. /\ q \in Queries /\ q \in Range(s) /\ left \in Seq(Queries) /\ IsInjective(left)
      /\ q \notin Range(left) /\ Range(s) = Range(left) \cup {q}
      /\ Len(s) = 1 <=> left = <<>>
  BY <1>4, TailOnce
<1>6. q \in Queued /\ HasCredit(Host(q))
  BY <1>1, <1>3, <1>4, <1>5 DEF Queued
<1>7. s = queues[h]
  OBVIOUS
<1> HIDE DEF h, s, left, rest
<1>8. /\ DOMAIN queues' = stay
      /\ \A x \in stay \ {h} : queues'[x] = queues[x]
      /\ h \in stay => queues'[h] = left /\ left # <<>>
  BY <1>1
<1>9. stay \subseteq DOMAIN queues /\ DOMAIN queues \ {h} \subseteq stay
      /\ (h \in stay <=> left # <<>>)
  BY <1>3
<1> HIDE DEF stay
<1>10. DOMAIN queues' \subseteq Hosts /\ \A x \in DOMAIN queues' : queues'[x] \in Seq(Queries)
  BY <1>5, <1>8, <1>9 DEF TypeOK
<1>11. \A x \in DOMAIN queues \ {h} : Range(queues[x]) \cap Range(s) = {}
  BY <1>3, <1>7 DEF WaitingOnce
<1>12. WaitingOnce'
  <2>1. \A x \in DOMAIN queues' : IsInjective(queues'[x])
    BY <1>5, <1>8, <1>9 DEF WaitingOnce
  <2>2. ASSUME NEW x \in DOMAIN queues', NEW y \in DOMAIN queues', x # y
        PROVE  Range(queues'[x]) \cap Range(queues'[y]) = {}
    <3>1. CASE x = h
      BY <2>2, <3>1, <1>5, <1>8, <1>9, <1>11
    <3>2. CASE y = h
      BY <2>2, <3>2, <1>5, <1>8, <1>9, <1>11
    <3>3. CASE x # h /\ y # h
      BY <2>2, <3>3, <1>8, <1>9 DEF WaitingOnce
    <3>4. QED
      BY <3>1, <3>2, <3>3
  <2>3. QED
    BY <2>1, <2>2 DEF WaitingOnce
<1>13. Queued' = Queued \ {q}
  <2>1. Queued' = UNION {Range(queues'[x]) : x \in DOMAIN queues'}
    BY DEF Queued
  <2>2. ASSUME NEW r \in Queued' PROVE r \in Queued \ {q}
    <3>1. PICK x \in DOMAIN queues' : r \in Range(queues'[x])
      BY <2>1, <2>2
    <3>2. CASE x = h
      BY <3>1, <3>2, <1>3, <1>5, <1>7, <1>8 DEF Queued
    <3>3. CASE x # h
      BY <3>1, <3>3, <1>5, <1>8, <1>9, <1>11 DEF Queued
    <3>4. QED
      BY <3>2, <3>3
  <2>3. ASSUME NEW r \in Queued, r # q PROVE r \in Queued'
    <3>1. PICK x \in DOMAIN queues : r \in Range(queues[x])
      BY <2>3 DEF Queued
    <3>2. CASE x = h
      <4>1. r \in Range(left)
        BY <2>3, <3>1, <3>2, <1>5, <1>7
      <4>2. left # <<>>
        BY <4>1 DEF Range
      <4>3. QED
        BY <4>1, <4>2, <2>1, <1>8, <1>9
    <3>3. CASE x # h
      BY <3>1, <3>3, <2>1, <1>8, <1>9
    <3>4. QED
      BY <3>2, <3>3
  <2>4. QED
    BY <2>2, <2>3
<1>14. order' \in Seq(Hosts) /\ Range(order') = DOMAIN queues' /\ IsInjective(order')
  <2>1. CASE left = <<>>
    BY <2>1, <1>1, <1>3, <1>5, <1>8, <1>9, ZenonT(40)
  <2>2. CASE left # <<>>
    <3>1. order' = Append(rest, h)
      BY <2>2, <1>1, <1>5
    <3>2. DOMAIN queues' = Range(rest) \cup {h}
      BY <2>2, <1>3, <1>8, <1>9
    <3>3. QED
      BY <3>1, <3>2, <1>3, AppendOnce
  <2>3. QED
    BY <2>1, <2>2
<1>15. \A x \in DOMAIN queues' :
          queues'[x] # <<>> /\ \A r \in Range(queues'[x]) : Host(r) = x
  BY <1>4, <1>5, <1>8, <1>9 DEF OrderMatchesQueues
<1>16. queuedTotal' \in Int
  BY <1>1 DEF TypeOK
<1>17. QED
  BY <1>1, <1>5, <1>6, <1>10, <1>12, <1>13, <1>14, <1>15, <1>16
     DEF OrderMatchesQueues, Host

\* Detaching an entry of m_pending, as a reply or a timeout does, removes just
\* its query.
LEMMA DetachEffect ==
    ASSUME TypeOK, PendingOnce, NEW tid \in DOMAIN pending, pending' = Detached(tid)
    PROVE  /\ DOMAIN pending' \subseteq Tids
           /\ \A t \in DOMAIN pending' : pending'[t] \in [query : Queries, left : 0..Timeout]
           /\ PendingOnce'
           /\ pending[tid].query \in Outstanding
           /\ Outstanding' = Outstanding \ {pending[tid].query}
<1>1. DOMAIN pending' = DOMAIN pending \ {tid}
      /\ \A t \in DOMAIN pending \ {tid} : pending'[t] = pending[t]
  BY DEF Detached
<1>2. PendingOnce'
  BY <1>1 DEF PendingOnce
<1>3. Outstanding' = Outstanding \ {pending[tid].query}
  BY <1>1 DEF PendingOnce, Outstanding
<1>4. pending[tid].query \in Outstanding
  BY DEF Outstanding
<1>5. QED
  BY <1>1, <1>2, <1>3, <1>4 DEF TypeOK

-----------------------------------------------------------------------------
(* The invariant                                                           *)

\* Sending neither recycles an id that expire() still has to visit nor leaves
\* anything outstanding on a closed node.
LEMMA SendKeepsCollected ==
    ASSUME TypeOK, NoEarlyTimeout, CollectedStillHeld, canSendNow,
           NEW q \in Queries, send(q), expired' = expired, open' = open, pc' = pc
    PROVE  NoEarlyTimeout' /\ CollectedStillHeld'
<1> DEFINE tid == nextTransactionId
<1>1. tid \in Tids /\ tid \notin DOMAIN pending
  BY FreshId
<1>2. Sent(q, tid) \/ NotSent(q, tid)
  BY DEF send
<1> HIDE DEF tid
<1>3. CASE Sent(q, tid)
  <2>1. open /\ DOMAIN pending' = DOMAIN pending \cup {tid}
        /\ \A t \in DOMAIN pending : pending'[t] = pending[t]
    BY <1>1, <1>3 DEF Sent
  <2>2. expired \subseteq DOMAIN pending
    BY <2>1 DEF CollectedStillHeld
  <2>3. QED
    BY <1>1, <2>1, <2>2 DEF NoEarlyTimeout, CollectedStillHeld
<1>4. CASE NotSent(q, tid)
  <2>1. DOMAIN pending' = DOMAIN pending
        /\ \A t \in DOMAIN pending : pending'[t] = pending[t]
    BY <1>1, <1>4 DEF NotSent
  <2>2. QED
    BY <2>1 DEF NoEarlyTimeout, CollectedStillHeld
<1>5. QED
  BY <1>2, <1>3, <1>4

\* query(), whether it sends, queues or refuses.
LEMMA QueryStep ==
    ASSUME RpcInv, NEW q \in Queries, query(q)
    PROVE  RpcInv'
<1>0. /\ TypeOK /\ CallbackOnce /\ OrderMatchesQueues /\ WaitersAreServed
      /\ PassedChecks /\ NoEarlyTimeout /\ CollectedStillHeld
  BY DEF RpcInv
<1>1. /\ live' = live \cup {q} /\ q \notin live /\ pc # "drain" /\ sending = {}
      /\ UNCHANGED <<exhausted, open, pc, turns, held, expired>>
      /\ SendNow(q) \/ Enqueue(q) \/ refuse(q)
  BY DEF query, localVars
<1>2. /\ WaitingOnce /\ PendingOnce /\ IsInjective(notices)
      /\ q \notin Queued /\ q \notin Outstanding /\ q \notin Noticed
      /\ Queued \cap Outstanding = {} /\ Noticed \cap (Queued \cup Outstanding) = {}
      /\ live = Queued \cup Outstanding \cup Noticed
  BY <1>0, <1>1 DEF CallbackOnce
<1>3. CASE SendNow(q)
  <2>1. /\ queues' = queues /\ order' = order /\ queuedTotal' = queuedTotal
        /\ draining' = draining /\ HandOver(q)
        /\ canSendNow /\ affordable(To[q]) /\ HasCredit(Host(q))
    BY <1>3 DEF SendNow, MayGoNow, queueVars
  <2>2. /\ UNCHANGED <<pending, nextId, notices, limited, balance, recent, elapsed, refilled>>
        /\ sending' = {q} /\ credit' \in [Hosts -> Nat] /\ PassedChecks'
    BY <1>0, <2>1, HandOverEffect
  <2>3. TypeOK'
    BY <1>0, <1>1, <2>1, <2>2 DEF TypeOK
  <2>4. Queued' = Queued /\ WaitingOnce' /\ OrderMatchesQueues' /\ WaitersAreServed'
    BY <1>0, <1>1, <1>2, <2>1 DEF Queued, WaitingOnce, OrderMatchesQueues, WaitersAreServed, Host
  <2>5. Outstanding' = Outstanding /\ Noticed' = Noticed /\ PendingOnce' /\ IsInjective(notices')
    BY <1>2, <2>2 DEF Outstanding, Noticed, PendingOnce
  <2>6. CallbackOnce'
    BY <1>1, <1>2, <2>2, <2>4, <2>5 DEF CallbackOnce
  <2>7. NoEarlyTimeout' /\ CollectedStillHeld'
    BY <1>0, <1>1, <2>2 DEF NoEarlyTimeout, CollectedStillHeld
  <2>8. QED
    BY <2>2, <2>3, <2>4, <2>6, <2>7 DEF RpcInv
<1>4. CASE Enqueue(q)
  <2>1. /\ UNCHANGED <<pending, nextId, notices, sending, limited, credit, balance, recent,
                       elapsed, refilled>>
        /\ draining' = TRUE
    BY <1>4 DEF Enqueue, sendVars, clockVars
  <2>2. /\ DOMAIN queues' \subseteq Hosts
        /\ \A h \in DOMAIN queues' : queues'[h] \in Seq(Queries)
        /\ order' \in Seq(Hosts) /\ queuedTotal' \in Int
        /\ WaitingOnce' /\ OrderMatchesQueues'
        /\ Queued' = Queued \cup {q}
        /\ DOMAIN queues' # {}
    BY <1>0, <1>2, <1>4, EnqueueEffect
  <2>3. TypeOK'
    BY <1>0, <1>1, <2>1, <2>2 DEF TypeOK
  <2>4. Outstanding' = Outstanding /\ Noticed' = Noticed /\ PendingOnce' /\ IsInjective(notices')
    BY <1>2, <2>1 DEF Outstanding, Noticed, PendingOnce
  <2>5. CallbackOnce'
    BY <1>1, <1>2, <2>1, <2>2, <2>4 DEF CallbackOnce
  <2>6. WaitersAreServed'
    BY <2>1, <2>2 DEF WaitersAreServed
  <2>7. PassedChecks' /\ NoEarlyTimeout' /\ CollectedStillHeld'
    BY <1>0, <1>1, <2>1 DEF PassedChecks, NoEarlyTimeout, CollectedStillHeld
  <2>8. QED
    BY <2>2, <2>3, <2>5, <2>6, <2>7 DEF RpcInv
<1>5. CASE refuse(q)
  <2>1. /\ UNCHANGED <<queues, order, queuedTotal, pending, nextId, sending, limited, credit,
                       balance, recent, elapsed, refilled, draining>>
        /\ notices' = Append(notices, q)
    BY <1>5 DEF refuse, queueVars, clockVars, Report
  <2>2. notices' \in Seq(Queries) /\ IsInjective(notices') /\ Noticed' = Noticed \cup {q}
    <3>1. notices \in Seq(Queries) /\ q \notin Range(notices)
      BY <1>0, <1>2 DEF TypeOK, Noticed
    <3>2. QED
      BY <1>2, <2>1, <3>1, AppendOnce DEF Noticed
  <2>3. TypeOK'
    BY <1>0, <1>1, <2>1, <2>2 DEF TypeOK
  <2>4. Queued' = Queued /\ WaitingOnce' /\ OrderMatchesQueues' /\ WaitersAreServed'
    BY <1>0, <1>1, <1>2, <2>1 DEF Queued, WaitingOnce, OrderMatchesQueues, WaitersAreServed, Host
  <2>5. Outstanding' = Outstanding /\ PendingOnce'
    BY <1>2, <2>1 DEF Outstanding, PendingOnce
  <2>6. CallbackOnce'
    BY <1>1, <1>2, <2>1, <2>2, <2>4, <2>5 DEF CallbackOnce
  <2>7. PassedChecks' /\ NoEarlyTimeout' /\ CollectedStillHeld'
    BY <1>0, <1>1, <2>1 DEF PassedChecks, NoEarlyTimeout, CollectedStillHeld
  <2>8. QED
    BY <2>3, <2>4, <2>6, <2>7 DEF RpcInv
<1>6. QED
  BY <1>1, <1>3, <1>4, <1>5

\* send(), with the query query() or drain() has passed.
LEMMA SendStep ==
    ASSUME RpcInv, NEW q \in Queries, send(q)
    PROVE  RpcInv'
<1>0. /\ TypeOK /\ CallbackOnce /\ OrderMatchesQueues /\ WaitersAreServed
      /\ PassedChecks /\ NoEarlyTimeout /\ CollectedStillHeld
  BY DEF RpcInv
<1>1. /\ UNCHANGED <<live, queues, order, queuedTotal, limited, exhausted, draining, open, pc,
                     turns, held, expired>>
      /\ q \in sending /\ sending' = {}
  BY DEF send, queueVars, localVars
<1>2. sending = {q} /\ canSendNow
  BY <1>0, <1>1 DEF PassedChecks
<1>3. /\ WaitingOnce /\ PendingOnce /\ IsInjective(notices)
      /\ Queued \cap Outstanding = {} /\ Noticed \cap (Queued \cup Outstanding) = {}
      /\ q \notin Queued /\ q \notin Outstanding /\ q \notin Noticed
      /\ live = Queued \cup {q} \cup Outstanding \cup Noticed
  BY <1>0, <1>2 DEF CallbackOnce
<1>4. /\ DOMAIN pending' \subseteq Tids
      /\ \A t \in DOMAIN pending' : pending'[t] \in [query : Queries, left : 0..Timeout]
      /\ nextId' \in Tids /\ notices' \in Seq(Queries)
      /\ credit' \in [Hosts -> Nat] /\ recent' \in [Endpoints -> Nat]
      /\ balance' \in Int /\ balance' <= ContactCap
      /\ elapsed' \in 0..MaxElapsed /\ refilled' \in 0..elapsed'
      /\ PendingOnce' /\ IsInjective(notices')
      /\ Outstanding' \cap Noticed' = Outstanding \cap Noticed
      /\ Outstanding' \cup Noticed' = Outstanding \cup Noticed \cup {q}
  BY <1>0, <1>3, SendEffect
<1>5. TypeOK'
  BY <1>0, <1>1, <1>4 DEF TypeOK
<1>6. Queued' = Queued /\ WaitingOnce' /\ OrderMatchesQueues' /\ WaitersAreServed'
  BY <1>0, <1>1, <1>3 DEF Queued, WaitingOnce, OrderMatchesQueues, WaitersAreServed, Host
<1>7. CallbackOnce'
  BY <1>1, <1>3, <1>4, <1>6 DEF CallbackOnce
<1>8. PassedChecks'
  BY <1>1, <1>4 DEF PassedChecks
<1>9. NoEarlyTimeout' /\ CollectedStillHeld'
  BY <1>0, <1>1, <1>2, SendKeepsCollected
<1>10. QED
  BY <1>5, <1>6, <1>7, <1>8, <1>9 DEF RpcInv

\* drain() taking the first query of a host out to send it.
LEMMA DrainSendStep ==
    ASSUME RpcInv, DrainSend
    PROVE  RpcInv'
<1> DEFINE q == Head(queues[Head(order)])
<1>0. /\ TypeOK /\ CallbackOnce /\ OrderMatchesQueues /\ WaitersAreServed
      /\ PassedChecks /\ NoEarlyTimeout /\ CollectedStillHeld
  BY DEF RpcInv
<1>1. /\ UNCHANGED <<live, exhausted, draining, open, pc, held, expired>>
      /\ pc = "drain" /\ sending = {} /\ turns' = turns - 1 /\ turns > 0
  BY DEF DrainSend, MoreTurns
<1>2. /\ WaitingOnce /\ PendingOnce /\ IsInjective(notices)
      /\ Queued \cap Outstanding = {} /\ Noticed \cap (Queued \cup Outstanding) = {}
      /\ live = Queued \cup Outstanding \cup Noticed
  BY <1>0, <1>1 DEF CallbackOnce
<1>3. /\ q \in Queries /\ q \in Queued
      /\ HasCredit(Host(q)) /\ canSendNow /\ affordable(To[q]) /\ HandOver(q)
      /\ DOMAIN queues' \subseteq Hosts
      /\ \A h \in DOMAIN queues' : queues'[h] \in Seq(Queries)
      /\ order' \in Seq(Hosts) /\ queuedTotal' \in Int
      /\ WaitingOnce' /\ OrderMatchesQueues'
      /\ Queued' = Queued \ {q}
  BY <1>0, <1>2, DequeueEffect
<1> HIDE DEF q
<1>4. /\ UNCHANGED <<pending, nextId, notices, limited, balance, recent, elapsed, refilled>>
      /\ sending' = {q} /\ credit' \in [Hosts -> Nat] /\ PassedChecks'
  BY <1>0, <1>3, HandOverEffect
<1>5. turns' \in Nat
  BY <1>0, <1>1 DEF TypeOK
<1>6. TypeOK'
  BY <1>0, <1>1, <1>3, <1>4, <1>5 DEF TypeOK
<1>7. Outstanding' = Outstanding /\ Noticed' = Noticed /\ PendingOnce' /\ IsInjective(notices')
  BY <1>2, <1>4 DEF Outstanding, Noticed, PendingOnce
<1>8. CallbackOnce'
  BY <1>1, <1>2, <1>3, <1>4, <1>7 DEF CallbackOnce
<1>9. WaitersAreServed'
  BY <1>1 DEF WaitersAreServed
<1>10. NoEarlyTimeout' /\ CollectedStillHeld'
  BY <1>0, <1>1, <1>4 DEF NoEarlyTimeout, CollectedStillHeld
<1>11. QED
  BY <1>3, <1>4, <1>6, <1>8, <1>9, <1>10 DEF RpcInv

\* Returning with nothing recorded, and the steps that leave the limits alone.
LEMMA ReturnEffect ==
    ASSUME TypeOK, PassedChecks,
           Return(Unrecorded) \/ UNCHANGED <<credit, balance, recent, elapsed, refilled>>
    PROVE  /\ credit' \in [Hosts -> Nat] /\ recent' \in [Endpoints -> Nat]
           /\ balance' \in Int /\ balance' <= ContactCap /\ balance' >= balance
           /\ elapsed' \in 0..MaxElapsed /\ refilled' \in 0..elapsed'
<1>1. CASE Return(Unrecorded)
  <2> DEFINE b == Unrecorded
  <2>1. Budget(b) /\ b.balance = balance
    BY RpcAssumption DEF Budget, Unrecorded, TypeOK, PassedChecks
  <2>2. Return(b)
    BY <1>1
  <2> HIDE DEF b
  <2>3. QED
    BY <2>1, <2>2, BudgetAfter
<1>2. CASE UNCHANGED <<credit, balance, recent, elapsed, refilled>>
  BY <1>2 DEF TypeOK, PassedChecks
<1>3. QED
  BY <1>1, <1>2

\* The steps of drain() that send nothing.
LEMMA DrainOtherStep ==
    ASSUME RpcInv, drainBegin \/ DrainSkip \/ drainEnd
    PROVE  RpcInv'
<1>0. /\ TypeOK /\ CallbackOnce /\ OrderMatchesQueues /\ WaitersAreServed
      /\ PassedChecks /\ NoEarlyTimeout /\ CollectedStillHeld
  BY DEF RpcInv
<1>1. /\ UNCHANGED <<live, queues, queuedTotal, pending, nextId, notices, sending, limited,
                     open, expired>>
      /\ sending = {} /\ pc \in {"idle", "drain"} /\ pc' \in {"idle", "drain"}
      /\ Return(Unrecorded) \/ UNCHANGED <<credit, balance, recent, elapsed, refilled>>
  BY DEF drainBegin, DrainSkip, drainEnd, sendVars, clockVars, queueVars
<1>2. CallbackOnce'
  BY <1>0, <1>1 DEF CallbackOnce, WaitingOnce, PendingOnce, Queued, Outstanding, Noticed
<1>3. /\ credit' \in [Hosts -> Nat] /\ recent' \in [Endpoints -> Nat]
      /\ balance' \in Int /\ balance' <= ContactCap
      /\ elapsed' \in 0..MaxElapsed /\ refilled' \in 0..elapsed'
      /\ PassedChecks' /\ NoEarlyTimeout' /\ CollectedStillHeld'
  <2>1. /\ credit' \in [Hosts -> Nat] /\ recent' \in [Endpoints -> Nat]
        /\ balance' \in Int /\ balance' <= ContactCap
        /\ elapsed' \in 0..MaxElapsed /\ refilled' \in 0..elapsed'
    BY <1>0, <1>1, ReturnEffect
  <2>2. QED
    BY <1>0, <1>1, <2>1 DEF PassedChecks, NoEarlyTimeout, CollectedStillHeld
<1>4. order' \in Seq(Hosts) /\ Range(order') = DOMAIN queues /\ IsInjective(order')
  <2>1. order \in Seq(Hosts) /\ Range(order) = DOMAIN queues /\ IsInjective(order)
    BY <1>0 DEF TypeOK, OrderMatchesQueues
  <2>2. CASE DrainSkip
    <3> DEFINE h == Head(order)
               rest == Tail(order)
    <3>1. order # <<>> /\ order' = Append(rest, h)
      BY <2>2 DEF DrainSkip, MoreTurns
    <3>2. /\ h \in Hosts /\ rest \in Seq(Hosts) /\ IsInjective(rest)
          /\ h \notin Range(rest) /\ Range(order) = Range(rest) \cup {h}
      BY <2>1, <3>1, TailOnce
    <3> HIDE DEF h, rest
    <3>3. /\ Append(rest, h) \in Seq(Hosts) /\ IsInjective(Append(rest, h))
          /\ Range(Append(rest, h)) = Range(rest) \cup {h}
      BY <3>2, AppendOnce
    <3>4. QED
      BY <2>1, <3>1, <3>2, <3>3
  <2>3. CASE drainBegin \/ drainEnd
    BY <2>1, <2>3 DEF drainBegin, drainEnd, queueVars
  <2>4. QED
    BY <2>2, <2>3
<1>5. OrderMatchesQueues'
  BY <1>0, <1>1, <1>4 DEF OrderMatchesQueues, Host
<1>6. turns' \in Nat /\ held' \in BOOLEAN /\ exhausted' \in BOOLEAN /\ draining' \in BOOLEAN
  <2>1. turns \in Nat /\ held \in BOOLEAN /\ exhausted \in BOOLEAN /\ draining \in BOOLEAN
        /\ Len(order) \in Nat
    BY <1>0 DEF TypeOK
  <2>2. CASE drainBegin
    BY <2>1, <2>2 DEF drainBegin
  <2>3. CASE DrainSkip
    <3>1. turns' = turns - 1 /\ turns > 0
      BY <2>3 DEF DrainSkip, MoreTurns
    <3>2. turns' \in Nat
      BY <2>1, <3>1
    <3>3. held' \in BOOLEAN /\ exhausted' = exhausted /\ draining' = draining
      BY <2>3 DEF DrainSkip
    <3>4. QED
      BY <2>1, <3>2, <3>3
  <2>4. CASE drainEnd
    BY <2>4 DEF drainEnd
  <2>5. QED
    BY <2>2, <2>3, <2>4
<1>7. TypeOK'
  BY <1>0, <1>1, <1>3, <1>4, <1>6 DEF TypeOK
<1>8. WaitersAreServed'
  BY DEF WaitersAreServed, drainBegin, DrainSkip, drainEnd, queueVars
<1>9. QED
  BY <1>2, <1>3, <1>5, <1>7, <1>8 DEF RpcInv

\* A matching reply, and a collected id whose turn has come.
LEMMA DetachStep ==
    ASSUME RpcInv, NEW tid \in Tids,
           (\E e \in Endpoints : handleReply(tid, e)) \/ expireOne(tid)
    PROVE  RpcInv'
<1>0. /\ TypeOK /\ CallbackOnce /\ OrderMatchesQueues /\ WaitersAreServed
      /\ PassedChecks /\ NoEarlyTimeout /\ CollectedStillHeld
  BY DEF RpcInv
<1>1. /\ UNCHANGED <<queues, order, queuedTotal, nextId, notices, sending, limited, credit,
                     balance, recent, elapsed, refilled, exhausted, draining, open, pc, turns,
                     held>>
      /\ sending = {} /\ pending' = Detached(tid)
      /\ live' = IF tid \in DOMAIN pending THEN live \ {pending[tid].query} ELSE live
      /\ expired' = expired \ {tid} \/ (expired' = expired /\ pc # "expire")
  BY DEF handleReply, expireOne, queueVars, clockVars, localVars
<1>2. /\ WaitingOnce /\ PendingOnce /\ IsInjective(notices)
      /\ Queued \cap Outstanding = {} /\ Noticed \cap (Queued \cup Outstanding) = {}
      /\ live = Queued \cup Outstanding \cup Noticed
  BY <1>0, <1>1 DEF CallbackOnce
<1>3. Queued' = Queued /\ Noticed' = Noticed /\ WaitingOnce' /\ IsInjective(notices')
  BY <1>1, <1>2 DEF Queued, Noticed, WaitingOnce
<1>4. /\ DOMAIN pending' \subseteq Tids
      /\ \A t \in DOMAIN pending' : pending'[t] \in [query : Queries, left : 0..Timeout]
      /\ PendingOnce' /\ live' \subseteq Queries
      /\ live' = Queued' \cup Outstanding' \cup Noticed'
      /\ Outstanding' \subseteq Outstanding
  <2>1. CASE tid \in DOMAIN pending
    <3>1. /\ DOMAIN pending' \subseteq Tids
          /\ \A t \in DOMAIN pending' : pending'[t] \in [query : Queries, left : 0..Timeout]
          /\ PendingOnce'
          /\ pending[tid].query \in Outstanding
          /\ Outstanding' = Outstanding \ {pending[tid].query}
      BY <1>0, <1>1, <1>2, <2>1, DetachEffect
    <3>2. live' = live \ {pending[tid].query} /\ live \subseteq Queries
      BY <1>0, <1>1, <2>1 DEF TypeOK
    <3>3. QED
      BY <1>2, <1>3, <3>1, <3>2
  <2>2. CASE tid \notin DOMAIN pending
    <3>1. DOMAIN pending' = DOMAIN pending /\ \A t \in DOMAIN pending : pending'[t] = pending[t]
      BY <1>1, <2>2 DEF Detached
    <3>2. Outstanding' = Outstanding /\ PendingOnce'
      BY <1>2, <3>1 DEF Outstanding, PendingOnce
    <3>3. QED
      BY <1>0, <1>1, <1>2, <1>3, <2>2, <3>1, <3>2 DEF TypeOK
  <2>3. QED
    BY <2>1, <2>2
<1>5. CallbackOnce'
  BY <1>1, <1>2, <1>3, <1>4 DEF CallbackOnce
<1>6. TypeOK'
  BY <1>0, <1>1, <1>4 DEF TypeOK
<1>7. OrderMatchesQueues' /\ WaitersAreServed' /\ PassedChecks'
  BY <1>0, <1>1 DEF OrderMatchesQueues, WaitersAreServed, PassedChecks, Host
<1>8. NoEarlyTimeout' /\ CollectedStillHeld'
  <2>1. DOMAIN pending' = DOMAIN pending \ {tid}
        /\ \A t \in DOMAIN pending \ {tid} : pending'[t] = pending[t]
    BY <1>1 DEF Detached
  <2>2. CASE expired' = expired \ {tid}
    BY <1>0, <1>1, <2>1, <2>2 DEF NoEarlyTimeout, CollectedStillHeld
  <2>3. CASE expired' = expired /\ pc # "expire"
    BY <1>0, <1>1, <2>1, <2>3 DEF NoEarlyTimeout, CollectedStillHeld
  <2>4. QED
    BY <1>1, <2>2, <2>3
<1>9. QED
  BY <1>5, <1>6, <1>7, <1>8 DEF RpcInv

\* expire() collecting the overdue ids, and finishing.
LEMMA ExpireOtherStep ==
    ASSUME RpcInv, expireBegin \/ expireEnd
    PROVE  RpcInv'
<1>0. /\ TypeOK /\ CallbackOnce /\ OrderMatchesQueues /\ WaitersAreServed
      /\ PassedChecks /\ NoEarlyTimeout /\ CollectedStillHeld
  BY DEF RpcInv
<1>1. /\ UNCHANGED <<live, queues, order, queuedTotal, pending, nextId, notices, sending,
                     limited, credit, balance, recent, elapsed, refilled, exhausted, draining,
                     open, turns, held>>
      /\ sending = {} /\ pc' \in {"idle", "expire"} /\ pc \in {"idle", "expire"}
      /\ (expired' = Due /\ pc' = "expire") \/ expired' = {}
  BY DEF expireBegin, expireEnd, queueVars, sendVars, clockVars
<1>2. CallbackOnce'
  BY <1>0, <1>1 DEF CallbackOnce, WaitingOnce, PendingOnce, Queued, Outstanding, Noticed
<1>3. OrderMatchesQueues' /\ WaitersAreServed' /\ PassedChecks'
  BY <1>0, <1>1 DEF OrderMatchesQueues, WaitersAreServed, PassedChecks, Host
<1>4. NoEarlyTimeout' /\ CollectedStillHeld'
  BY <1>0, <1>1 DEF NoEarlyTimeout, CollectedStillHeld, Due
<1>5. TypeOK'
  BY <1>0, <1>1 DEF TypeOK, Due
<1>6. QED
  BY <1>2, <1>3, <1>4, <1>5 DEF RpcInv

\* A posted Throttled report is delivered.
LEMMA ReportStep ==
    ASSUME RpcInv, reportNotSent
    PROVE  RpcInv'
<1>0. /\ TypeOK /\ CallbackOnce /\ OrderMatchesQueues /\ WaitersAreServed
      /\ PassedChecks /\ NoEarlyTimeout /\ CollectedStillHeld
  BY DEF RpcInv
<1> DEFINE q == Head(notices)
<1>1. /\ UNCHANGED <<queues, order, queuedTotal, pending, nextId, sending, limited, credit,
                     balance, recent, elapsed, refilled, exhausted, draining, open, pc, turns,
                     held, expired>>
      /\ sending = {} /\ notices # <<>> /\ notices' = Tail(notices) /\ live' = live \ {q}
  BY DEF reportNotSent, queueVars, clockVars, localVars
<1>2. /\ WaitingOnce /\ PendingOnce /\ IsInjective(notices)
      /\ Queued \cap Outstanding = {} /\ Noticed \cap (Queued \cup Outstanding) = {}
      /\ live = Queued \cup Outstanding \cup Noticed
  BY <1>0, <1>1 DEF CallbackOnce
<1>3. /\ notices' \in Seq(Queries) /\ IsInjective(notices')
      /\ q \in Noticed /\ Noticed' = Noticed \ {q}
  <2>1. notices \in Seq(Queries)
    BY <1>0 DEF TypeOK
  <2>2. /\ Tail(notices) \in Seq(Queries) /\ IsInjective(Tail(notices))
        /\ Range(notices) = Range(Tail(notices)) \cup {q} /\ q \notin Range(Tail(notices))
    BY <1>1, <1>2, <2>1, TailOnce
  <2>3. QED
    BY <1>1, <2>2 DEF Noticed
<1> HIDE DEF q
<1>4. Queued' = Queued /\ Outstanding' = Outstanding /\ WaitingOnce' /\ PendingOnce'
  BY <1>1, <1>2 DEF Queued, Outstanding, WaitingOnce, PendingOnce
<1>5. CallbackOnce'
  BY <1>1, <1>2, <1>3, <1>4 DEF CallbackOnce
<1>6. TypeOK'
  BY <1>0, <1>1, <1>3 DEF TypeOK
<1>7. OrderMatchesQueues' /\ WaitersAreServed' /\ PassedChecks'
      /\ NoEarlyTimeout' /\ CollectedStillHeld'
  BY <1>0, <1>1 DEF OrderMatchesQueues, WaitersAreServed, PassedChecks, Host,
                    NoEarlyTimeout, CollectedStillHeld
<1>8. QED
  BY <1>5, <1>6, <1>7 DEF RpcInv

\* The node is closed: what waited or was outstanding is dropped, the posted
\* reports stay.
LEMMA CancelStep ==
    ASSUME RpcInv, cancelAll
    PROVE  RpcInv'
<1>0. /\ TypeOK /\ CallbackOnce /\ OrderMatchesQueues /\ WaitersAreServed
      /\ PassedChecks /\ NoEarlyTimeout /\ CollectedStillHeld
  BY DEF RpcInv
<1>1. /\ UNCHANGED <<nextId, notices, sending, limited, credit, balance, recent, elapsed,
                     refilled, pc, turns, held, expired>>
      /\ sending = {} /\ DOMAIN pending' = {} /\ DOMAIN queues' = {} /\ order' = <<>> /\ queuedTotal' = 0
      /\ exhausted' = FALSE /\ draining' = FALSE /\ open' = FALSE
      /\ live' = live \ (Outstanding \cup Queued)
  BY DEF cancelAll, clockVars, localVars
<1>2. Queued' = {} /\ Outstanding' = {} /\ Noticed' = Noticed
  BY <1>1 DEF Queued, Outstanding, Noticed
<1>3. CallbackOnce'
  BY <1>0, <1>1, <1>2 DEF CallbackOnce, WaitingOnce, PendingOnce
<1>4. OrderMatchesQueues'
  <2>1. Range(order') = {} /\ IsInjective(order')
    BY <1>1 DEF Range, IsInjective
  <2>2. QED
    BY <1>1, <2>1 DEF OrderMatchesQueues
<1>5. TypeOK'
  <2>1. /\ DOMAIN queues' \subseteq Hosts
        /\ \A h \in DOMAIN queues' : queues'[h] \in Seq(Queries)
        /\ DOMAIN pending' \subseteq Tids
        /\ \A t \in DOMAIN pending' : pending'[t] \in [query : Queries, left : 0..Timeout]
    BY <1>1
  <2>2. order' \in Seq(Hosts) /\ queuedTotal' \in Int /\ live' \subseteq Queries
    BY <1>0, <1>1 DEF TypeOK
  <2>3. exhausted' \in BOOLEAN /\ draining' \in BOOLEAN /\ open' \in BOOLEAN
    BY <1>1
  <2>4. /\ nextId' \in Tids /\ notices' \in Seq(Queries)
        /\ credit' \in [Hosts -> Nat] /\ balance' \in Int /\ recent' \in [Endpoints -> Nat]
        /\ sending' \subseteq Queries /\ limited' \in BOOLEAN
        /\ elapsed' \in 0..MaxElapsed /\ refilled' \in 0..elapsed'
        /\ turns' \in Nat /\ expired' \subseteq Tids
    BY <1>0, <1>1 DEF TypeOK
  <2>5. pc' \in {"idle", "drain", "expire"} /\ held' \in BOOLEAN
    BY <1>0, <1>1 DEF TypeOK
  <2>6. QED
    BY <2>1, <2>2, <2>3, <2>4, <2>5 DEF TypeOK
<1>6. WaitersAreServed' /\ PassedChecks' /\ NoEarlyTimeout' /\ CollectedStillHeld'
  BY <1>0, <1>1 DEF WaitersAreServed, PassedChecks, NoEarlyTimeout, CollectedStillHeld
<1>7. QED
  BY <1>3, <1>4, <1>5, <1>6 DEF RpcInv

\* Time passing changes the countdowns and the credits only.
LEMMA TickStep ==
    ASSUME RpcInv, Tick
    PROVE  RpcInv'
<1> USE RpcAssumption
<1>0. /\ TypeOK /\ CallbackOnce /\ OrderMatchesQueues /\ WaitersAreServed
      /\ PassedChecks /\ NoEarlyTimeout /\ CollectedStillHeld
  BY DEF RpcInv
<1>1. /\ UNCHANGED <<live, queues, order, queuedTotal, nextId, notices, sending, limited,
                     exhausted, draining, open, pc, turns, held, expired>>
      /\ pending' = [t \in DOMAIN pending |-> [pending[t] EXCEPT !.left = Sooner(@)]]
  BY DEF Tick, queueVars, localVars
<1>2. /\ DOMAIN pending' = DOMAIN pending
      /\ \A t \in DOMAIN pending : /\ pending'[t].query = pending[t].query
                                   /\ pending'[t] \in [query : Queries, left : 0..Timeout]
                                   /\ pending[t].left = 0 => pending'[t].left = 0
  <2>1. \A x \in 0..Timeout : Sooner(x) \in 0..Timeout /\ (x = 0 => Sooner(x) = 0)
    BY DEF Sooner, Less
  <2>2. \A t \in DOMAIN pending : pending[t] \in [query : Queries, left : 0..Timeout]
    BY <1>0 DEF TypeOK
  <2>3. QED
    BY <1>1, <2>1, <2>2
<1>3. /\ credit' \in [Hosts -> Nat] /\ recent' \in [Endpoints -> Nat]
      /\ balance' \in Int /\ balance' <= ContactCap
      /\ elapsed' \in 0..MaxElapsed /\ refilled' \in 0..elapsed'
      /\ sending = {} \/ UNCHANGED <<balance, recent>>
  <2>1. /\ credit \in [Hosts -> Nat] /\ recent \in [Endpoints -> Nat] /\ balance \in Int
        /\ elapsed \in 0..MaxElapsed /\ refilled \in 0..elapsed /\ balance <= ContactCap
    BY <1>0 DEF TypeOK, PassedChecks
  <2>2. CASE Running
    <3>1. elapsed < MaxElapsed /\ elapsed' = elapsed + 1
          /\ UNCHANGED <<credit, balance, recent, refilled>>
      BY <2>2 DEF Tick
    <3>2. elapsed' \in 0..MaxElapsed /\ refilled' \in 0..elapsed'
      BY <2>1, <3>1
    <3>3. QED
      BY <2>1, <3>1, <3>2
  <2>3. CASE ~Running
    <3>1. /\ credit' = [h \in Hosts |-> Lesser(HostBurst, credit[h] + 1)]
          /\ balance' = Lesser(ContactCap, balance + 1)
          /\ recent' = [e \in Endpoints |-> Sooner(recent[e])]
          /\ UNCHANGED <<elapsed, refilled>> /\ sending = {}
      BY <2>3 DEF Tick, Running
    <3>2. \A x \in Nat : Lesser(HostBurst, x + 1) \in Nat /\ Sooner(x) \in Nat
      BY DEF Lesser, Sooner, Less
    <3>3. credit' \in [Hosts -> Nat] /\ recent' \in [Endpoints -> Nat]
      BY <2>1, <3>1, <3>2
    <3>4. balance' \in Int /\ balance' <= ContactCap
      BY <2>1, <3>1 DEF Lesser
    <3>5. QED
      BY <2>1, <3>1, <3>3, <3>4
  <2>4. QED
    BY <2>2, <2>3
<1>4. Queued' = Queued /\ Outstanding' = Outstanding /\ Noticed' = Noticed
  BY <1>1, <1>2 DEF Queued, Outstanding, Noticed
<1>5. CallbackOnce'
  <2>1. WaitingOnce /\ PendingOnce /\ IsInjective(notices)
    BY <1>0 DEF CallbackOnce
  <2>2. WaitingOnce' /\ IsInjective(notices')
    BY <1>1, <2>1 DEF WaitingOnce
  <2>3. PendingOnce'
    BY <1>2, <2>1 DEF PendingOnce
  <2>4. QED
    BY <1>0, <1>1, <1>4, <2>2, <2>3 DEF CallbackOnce
<1>6. TypeOK'
  <2>1. /\ DOMAIN pending' \subseteq Tids
        /\ \A t \in DOMAIN pending' : pending'[t] \in [query : Queries, left : 0..Timeout]
    BY <1>0, <1>2 DEF TypeOK
  <2>2. QED
    BY <1>0, <1>1, <1>3, <2>1 DEF TypeOK
<1>7. OrderMatchesQueues' /\ WaitersAreServed'
  BY <1>0, <1>1 DEF OrderMatchesQueues, WaitersAreServed, Host
<1>8. PassedChecks'
  BY <1>0, <1>1, <1>2, <1>3 DEF PassedChecks, canSendNow, affordable, LiveThen
<1>9. NoEarlyTimeout' /\ CollectedStillHeld'
  BY <1>0, <1>1, <1>2 DEF NoEarlyTimeout, CollectedStillHeld
<1>10. QED
  BY <1>5, <1>6, <1>7, <1>8, <1>9 DEF RpcInv

\* Nothing is outstanding in a new RpcManager.
LEMMA InitHolds ==
    ASSUME Init
    PROVE  RpcInv
<1> USE RpcAssumption
<1>1. /\ DOMAIN queues = {} /\ DOMAIN pending = {} /\ notices = <<>> /\ order = <<>>
      /\ Queued = {} /\ Outstanding = {} /\ Noticed = {} /\ live = {} /\ Range(order) = {}
      /\ IsInjective(notices) /\ IsInjective(order)
  BY DEF Init, Queued, Outstanding, Noticed, Range, IsInjective
<1>2. TypeOK
  <2>1. /\ live \subseteq Queries
        /\ DOMAIN queues \subseteq Hosts /\ \A h \in DOMAIN queues : queues[h] \in Seq(Queries)
        /\ DOMAIN pending \subseteq Tids
        /\ \A t \in DOMAIN pending : pending[t] \in [query : Queries, left : 0..Timeout]
    BY <1>1
  <2>2. order \in Seq(Hosts) /\ notices \in Seq(Queries)
    BY <1>1
  <2>3. credit \in [Hosts -> Nat] /\ recent \in [Endpoints -> Nat] /\ balance \in Int
    BY DEF Init
  <2>7. /\ sending \subseteq Queries /\ limited \in BOOLEAN
        /\ elapsed \in 0..MaxElapsed /\ refilled \in 0..elapsed
    BY DEF Init
  <2>4. queuedTotal \in Int /\ nextId \in Tids /\ turns \in Nat /\ expired \subseteq Tids
    BY DEF Init
  <2>5. /\ exhausted \in BOOLEAN /\ draining \in BOOLEAN /\ open \in BOOLEAN
        /\ pc \in {"idle", "drain", "expire"} /\ held \in BOOLEAN
    BY DEF Init
  <2>6. QED
    BY <2>1, <2>2, <2>3, <2>4, <2>5, <2>7 DEF TypeOK
<1>3. CallbackOnce /\ OrderMatchesQueues
  BY <1>1 DEF Init, CallbackOnce, WaitingOnce, PendingOnce, OrderMatchesQueues
<1>4. WaitersAreServed /\ NoEarlyTimeout /\ CollectedStillHeld
  BY <1>1 DEF Init, WaitersAreServed, NoEarlyTimeout, CollectedStillHeld
<1>5. PassedChecks
  BY DEF Init, PassedChecks
<1>6. QED
  BY <1>2, <1>3, <1>4, <1>5 DEF RpcInv

\* The inductive invariant holds in every reachable state.
THEOREM RpcSafety == Spec => []RpcInv
<1>1. Init => RpcInv
  BY InitHolds
<1>2. RpcInv /\ [Next]_vars => RpcInv'
  <2> SUFFICES ASSUME RpcInv, [Next]_vars
               PROVE  RpcInv'
    OBVIOUS
  <2>1. ASSUME NEW q \in Queries, query(q) \/ send(q) PROVE RpcInv'
    BY <2>1, QueryStep, SendStep
  <2>2. CASE DrainSend
    BY <2>2, DrainSendStep
  <2>3. CASE drainBegin \/ DrainSkip \/ drainEnd
    BY <2>3, DrainOtherStep
  <2>4. ASSUME NEW t \in Tids, (\E e \in Endpoints : handleReply(t, e)) \/ expireOne(t)
        PROVE  RpcInv'
    BY <2>4, DetachStep
  <2>5. CASE expireBegin \/ expireEnd
    BY <2>5, ExpireOtherStep
  <2>6. CASE reportNotSent
    BY <2>6, ReportStep
  <2>7. CASE cancelAll
    BY <2>7, CancelStep
  <2>8. CASE Tick
    BY <2>8, TickStep
  <2>9. CASE UNCHANGED vars
    <3>1. UNCHANGED <<live, queues, order, queuedTotal, pending, nextId, notices, sending,
                      limited, credit, balance, recent, elapsed, refilled, exhausted, draining,
                      open, pc, turns, held, expired>>
      BY <2>9 DEF vars, sendVars, clockVars, queueVars, localVars
    <3>2. TypeOK'
      BY <3>1 DEF RpcInv, TypeOK
    <3>3. CallbackOnce'
      BY <3>1 DEF RpcInv, CallbackOnce, WaitingOnce, PendingOnce, Queued, Outstanding, Noticed
    <3>4. OrderMatchesQueues' /\ WaitersAreServed' /\ PassedChecks'
      BY <3>1 DEF RpcInv, OrderMatchesQueues, WaitersAreServed, PassedChecks, canSendNow,
                  affordable, LiveThen, Host
    <3>5. NoEarlyTimeout' /\ CollectedStillHeld'
      BY <3>1 DEF RpcInv, NoEarlyTimeout, CollectedStillHeld
    <3>6. QED
      BY <3>2, <3>3, <3>4, <3>5 DEF RpcInv
  <2>10. QED
    BY <2>1, <2>2, <2>3, <2>4, <2>5, <2>6, <2>7, <2>8, <2>9 DEF Next
<1>3. QED
  BY <1>1, <1>2, PTL DEF Spec

\* A query handed to query() is always in exactly one of the host queues, the
\* outstanding queries and the posted reports until its callback has run.
THEOREM EveryQueryOwnedOnce == Spec => []CallbackOnce
<1>1. RpcInv => CallbackOnce
  BY DEF RpcInv
<1>2. QED
  BY <1>1, RpcSafety, PTL

\* drain() serves exactly the hosts that wait, its timer runs while any does, and
\* the hold on newcomers never outlives the last of them.
THEOREM WaitersSafety == Spec => [](OrderMatchesQueues /\ WaitersAreServed)
<1>1. RpcInv => OrderMatchesQueues /\ WaitersAreServed
  BY DEF RpcInv
<1>2. QED
  BY <1>1, RpcSafety, PTL

\* expire() never reports a timeout before the deadline, even when callbacks send
\* new queries under ids that are being recycled while it runs.
THEOREM TimeoutSafety == Spec => []NoEarlyTimeout
<1>1. RpcInv => NoEarlyTimeout
  BY DEF RpcInv
<1>2. QED
  BY <1>1, RpcSafety, PTL

\* The contact allowance is overdrawn only by a query to an endpoint whose window
\* lapsed after drain() or query() had checked it: whatever the check took for a
\* new contact is paid for when send() charges it.
THEOREM AllowanceSafety == Spec => AllowanceKept
<1>1. RpcInv /\ [Next]_vars => [Overdrawn => \E q \in sending : Lapsed(q)]_vars
  <2> SUFFICES ASSUME RpcInv, Next, Overdrawn
               PROVE  \E q \in sending : Lapsed(q)
    OBVIOUS
  <2>0. /\ TypeOK /\ CallbackOnce /\ PassedChecks
        /\ balance \in Int /\ balance <= ContactCap /\ ContactCap \in Int
    BY RpcAssumption DEF RpcInv, TypeOK, PassedChecks
  <2>1. balance' < 0 /\ balance' < balance
    BY DEF Overdrawn
  <2>2. ASSUME NEW q \in Queries, send(q) PROVE \E r \in sending : Lapsed(r)
    <3>1. q \in sending
      BY <2>2 DEF send
    <3>2. PendingOnce /\ IsInjective(notices) /\ q \notin Outstanding /\ q \notin Noticed
      BY <2>0, <3>1 DEF CallbackOnce
    <3>3. balance' \in Int /\ (balance' >= balance \/ balance' >= 0 \/ Lapsed(q))
      BY <2>0, <2>2, <3>2, SendEffect
    <3>4. Lapsed(q)
      BY <2>0, <2>1, <3>3
    <3>5. QED
      BY <3>1, <3>4
  <2>3. CASE drainEnd
    <3>1. balance' \in Int /\ balance' >= balance
      BY <2>0, <2>3, ReturnEffect DEF drainEnd
    <3>2. QED
      BY <2>0, <2>1, <3>1
  <2>4. CASE Tick
    <3>1. balance' = balance \/ balance' = Lesser(ContactCap, balance + 1)
      BY <2>4 DEF Tick
    <3>2. balance' >= balance
      BY <2>0, <3>1 DEF Lesser
    <3>3. QED
      BY <2>0, <2>1, <3>1, <3>2 DEF Lesser
  <2>5. CASE balance' = balance
    BY <2>0, <2>1, <2>5
  <2>6. ASSUME NEW q \in Queries, query(q) PROVE balance' = balance
    BY <2>6 DEF query, SendNow, HandOver, Enqueue, refuse, sendVars, clockVars
  <2>7. drainBegin \/ DrainSkip \/ DrainSend => balance' = balance
    BY DEF drainBegin, DrainSkip, DrainSend, HandOver, sendVars, clockVars
  <2>8. ASSUME NEW t \in Tids, (\E e \in Endpoints : handleReply(t, e)) \/ expireOne(t)
        PROVE  balance' = balance
    BY <2>8 DEF handleReply, expireOne, clockVars
  <2>9. expireBegin \/ expireEnd \/ reportNotSent \/ cancelAll => balance' = balance
    BY DEF expireBegin, expireEnd, reportNotSent, cancelAll, sendVars, clockVars
  <2>10. QED
    BY <2>2, <2>3, <2>4, <2>5, <2>6, <2>7, <2>8, <2>9 DEF Next
<1>2. QED
  BY <1>1, RpcSafety, PTL DEF Spec, AllowanceKept

-----------------------------------------------------------------------------
(* The limits                                                              *)

\* The positions of the waiting queries, for any queues: Slots is Places(queues).
Places(Q) == {s \in Hosts \X (1..MaxQueuedTotal) : s[1] \in DOMAIN Q /\ s[2] <= Len(Q[s[1]])}

\* What the limits need beside themselves: only finitely many queries wait, and
\* no queue is longer than the positions that are counted.
Counted ==
    /\ IsFiniteSet(Slots)
    /\ \A h \in DOMAIN queues : Len(queues[h]) <= MaxQueuedTotal

\* The limits, inductive.
Limits == Counted /\ WithinLimits

\* R is Q but for host h, which has n + 1 queries waiting instead of n.
OneMore(Q, R, h, n) ==
    /\ h \in Hosts /\ n \in Nat /\ n + 1 <= MaxQueuedTotal
    /\ DOMAIN R = DOMAIN Q \cup {h} /\ \A x \in DOMAIN Q \ {h} : R[x] = Q[x]
    /\ Len(R[h]) = n + 1
    /\ h \in DOMAIN Q => Len(Q[h]) = n
    /\ h \notin DOMAIN Q => n = 0

\* One queue that differs by one query from what it was, and all others as they
\* were, differ by one position.
LEMMA OnePlace ==
    ASSUME NEW Q, NEW R, NEW h, NEW n, OneMore(Q, R, h, n)
    PROVE  Places(R) = Places(Q) \cup {<<h, n + 1>>} /\ <<h, n + 1>> \notin Places(Q)
<1> USE RpcAssumption DEF OneMore
<1>1. \A x, i : <<x, i>> \in Places(R) <=>
                 /\ x \in Hosts /\ i \in 1..MaxQueuedTotal
                 /\ x \in DOMAIN R /\ i <= Len(R[x])
  BY DEF Places
<1>2. \A x, i : <<x, i>> \in Places(Q) <=>
                 /\ x \in Hosts /\ i \in 1..MaxQueuedTotal
                 /\ x \in DOMAIN Q /\ i <= Len(Q[x])
  BY DEF Places
<1>3. n + 1 \in 1..MaxQueuedTotal /\ \A i \in 1..MaxQueuedTotal : i <= n + 1 <=> (i <= n \/ i = n + 1)
  OBVIOUS
<1>4. <<h, n + 1>> \notin Places(Q)
  BY <1>2
<1>5. \A x, i : <<x, i>> \in Places(R) <=> (<<x, i>> \in Places(Q) \/ (x = h /\ i = n + 1))
  <2> TAKE x, i
  <2>1. CASE x # h
    BY <1>1, <1>2, <2>1
  <2>2. CASE x = h /\ h \in DOMAIN Q
    BY <1>1, <1>2, <1>3, <2>2
  <2>3. CASE x = h /\ h \notin DOMAIN Q
    <3>1. n = 0 /\ Len(R[h]) = 1
      BY <2>3
    <3>2. \A j \in 1..MaxQueuedTotal : j <= 1 <=> j = 1
      OBVIOUS
    <3>3. <<x, i>> \notin Places(Q)
      BY <1>2, <2>3
    <3>4. 1 \in 1..MaxQueuedTotal /\ n + 1 = 1
      BY <1>3, <3>1
    <3>5. <<x, i>> \in Places(R) <=> i \in 1..MaxQueuedTotal /\ i <= 1
      BY <1>1, <2>3, <3>1
    <3>6. <<x, i>> \in Places(R) <=> i = 1
      BY <3>2, <3>4, <3>5
    <3>7. QED
      BY <2>3, <3>3, <3>4, <3>6
  <2>4. QED
    BY <2>1, <2>2, <2>3
<1>6. /\ \A s \in Places(R) : s = <<s[1], s[2]>>
      /\ \A s \in Places(Q) : s = <<s[1], s[2]>>
  BY DEF Places
<1>7. ASSUME NEW s \in Places(R) PROVE s \in Places(Q) \cup {<<h, n + 1>>}
  BY <1>5, <1>6
<1>8. ASSUME NEW s \in Places(Q) \cup {<<h, n + 1>>} PROVE s \in Places(R)
  BY <1>5, <1>6
<1>9. QED
  BY <1>4, <1>7, <1>8

\* No queue holds more than waits in all.
LEMMA QueueBelowTotal ==
    ASSUME TypeOK, Limits, NEW h \in DOMAIN queues
    PROVE  Len(queues[h]) \in Nat /\ Len(queues[h]) <= queuedTotal
<1> USE RpcAssumption
<1> DEFINE n == Len(queues[h])
           f == [i \in 1..n |-> <<h, i>>]
<1>1. n \in Nat /\ n <= MaxQueuedTotal /\ h \in Hosts
  BY DEF TypeOK, Limits, Counted
<1>2. IsFiniteSet(Slots) /\ queuedTotal = Cardinality(Slots)
  BY DEF Limits, Counted, WithinLimits
<1>3. \A i \in 1..n : <<h, i>> \in Slots
  BY <1>1 DEF Slots
<1>4. \A i, j \in 1..n : <<h, i>> = <<h, j>> => i = j
  OBVIOUS
<1>5. DOMAIN f = 1..n /\ \A i \in 1..n : f[i] = <<h, i>>
  OBVIOUS
<1>6. f \in [1..n -> Slots]
  BY <1>3
<1> HIDE DEF f, n
<1>7. IsInjective(f)
  BY <1>4, <1>5 DEF IsInjective
<1>8. f \in Injection(1..n, Slots)
  BY <1>6, <1>7 DEF Injection
<1>9. Cardinality(1..n) <= Cardinality(Slots)
  BY <1>2, <1>8, FS_Injection
<1>10. Cardinality(1..n) = n
  <2>1. Cardinality(1..n) = IF 1 > n THEN 0 ELSE n - 1 + 1
    BY <1>1, FS_Interval
  <2>2. QED
    BY <1>1, <2>1
<1>11. QED
  BY <1>1, <1>2, <1>9, <1>10 DEF n

\* The number of outstanding queries after send() is at most one more.
LEMMA SendPending ==
    ASSUME TypeOK, PassedChecks, NEW q \in Queries, send(q)
    PROVE  Cardinality(DOMAIN pending') <= MaxPending
<1> USE RpcAssumption
<1> DEFINE tid == nextTransactionId
           D == DOMAIN pending
<1>0. canSendNow
  BY DEF send, PassedChecks
<1>1. tid \notin D
  BY <1>0, FreshId
<1>2. Sent(q, tid) \/ NotSent(q, tid)
  BY DEF send
<1> HIDE DEF tid
<1>3. DOMAIN pending' = D \cup {tid} \/ DOMAIN pending' = D
  BY <1>1, <1>2 DEF Sent, NotSent
<1>4. IsFiniteSet(Tids) /\ D \subseteq Tids
  <2>1. 0 \in Int /\ NumTids - 1 \in Int
    OBVIOUS
  <2>2. IsFiniteSet(Tids)
    BY <2>1, FS_Interval DEF Tids
  <2>3. QED
    BY <2>2 DEF TypeOK
<1>5. IsFiniteSet(D)
  BY <1>4, FS_Subset
<1>6. Cardinality(D) \in Nat /\ Cardinality(D) < MaxPending
  BY <1>0, <1>5, FS_CardinalityType DEF canSendNow
<1>7. Cardinality(D \cup {tid}) = Cardinality(D) + 1
  BY <1>1, <1>5, FS_AddElement
<1>8. QED
  BY <1>3, <1>6, <1>7

\* Nothing that waits has changed.
LEMMA QueuesKept ==
    ASSUME Counted, queues' = queues
    PROVE  Counted' /\ Slots' = Slots
BY DEF Counted, Slots

\* An entry of m_pending that goes makes room; one that stays takes none.
LEMMA PendingShrinks ==
    ASSUME TypeOK, WithinLimits, DOMAIN pending' \subseteq DOMAIN pending
    PROVE  Cardinality(DOMAIN pending') <= MaxPending
<1> USE RpcAssumption
<1> DEFINE D == DOMAIN pending
           E == DOMAIN pending'
<1>1. IsFiniteSet(D)
  <2>1. 0 \in Int /\ NumTids - 1 \in Int
    OBVIOUS
  <2>2. IsFiniteSet(Tids)
    BY <2>1, FS_Interval DEF Tids
  <2>3. D \in SUBSET Tids
    BY DEF TypeOK
  <2>4. QED
    BY <2>2, <2>3, FS_Subset
<1>2. E \in SUBSET D
  OBVIOUS
<1> HIDE DEF E
<1>3. IsFiniteSet(E) /\ Cardinality(E) <= Cardinality(D)
  BY <1>1, <1>2, FS_Subset
<1>4. Cardinality(D) \in Nat /\ Cardinality(E) \in Nat
  BY <1>1, <1>3, FS_CardinalityType
<1>5. Cardinality(D) <= MaxPending
  BY DEF WithinLimits
<1>6. QED
  BY <1>3, <1>4, <1>5 DEF E

\* A handler that leaves the queues alone and adds nothing to m_pending.
LEMMA LimitsKept ==
    ASSUME TypeOK, Limits, queues' = queues, queuedTotal' = queuedTotal,
           DOMAIN pending' \subseteq DOMAIN pending
    PROVE  Limits'
<1>1. Counted' /\ Slots' = Slots
  BY QueuesKept DEF Limits
<1>2. Cardinality(DOMAIN pending') <= MaxPending
  BY PendingShrinks DEF Limits
<1>3. QED
  BY <1>1, <1>2 DEF Limits, WithinLimits

\* Queueing a query takes one more position, the last of its host's queue.
LEMMA EnqueueLimits ==
    ASSUME TypeOK, Limits, NEW q \in Queries, Enqueue(q)
    PROVE  Limits'
<1> USE RpcAssumption
<1> DEFINE h == Host(q)
           n == IF h \in DOMAIN queues THEN Len(queues[h]) ELSE 0
           cap == IF MaxQueued = 0 THEN 1 ELSE MaxQueued
<1>1. h \in Hosts /\ ~Full(h) /\ queuedTotal \in Int
  BY DEF Host, Enqueue, TypeOK
<1>2. n \in Nat /\ queuedTotal < MaxQueuedTotal /\ n <= queuedTotal /\ n + 1 <= cap
  <2>1. queuedTotal < MaxQueuedTotal /\ (h \in DOMAIN queues => ~(Len(queues[h]) >= MaxQueued))
    BY <1>1 DEF Full
  <2>2. CASE h \in DOMAIN queues
    <3>1. Len(queues[h]) \in Nat /\ Len(queues[h]) <= queuedTotal
      BY <2>2, QueueBelowTotal
    <3>2. QED
      BY <2>1, <2>2, <3>1
  <2>3. CASE h \notin DOMAIN queues
    <3>1. queuedTotal \in Nat
      BY FS_CardinalityType DEF Limits, Counted, WithinLimits
    <3>2. QED
      BY <2>1, <2>3, <3>1
  <2>4. QED
    BY <2>2, <2>3
<1>3. /\ DOMAIN queues' = DOMAIN queues \cup {h}
      /\ \A x \in DOMAIN queues \ {h} : queues'[x] = queues[x]
      /\ Len(queues'[h]) = n + 1
      /\ queuedTotal' = queuedTotal + 1 /\ pending' = pending
  <2>1. /\ queues' = [x \in DOMAIN queues \cup {h} |->
                        IF x # h THEN queues[x]
                        ELSE IF h \in DOMAIN queues THEN Append(queues[h], q) ELSE <<q>>]
        /\ queuedTotal' = queuedTotal + 1 /\ pending' = pending
    BY DEF Enqueue, sendVars
  <2>2. h \in DOMAIN queues => queues[h] \in Seq(Queries)
    BY DEF TypeOK
  <2>3. Len(<<q>>) = 1 /\ \A s \in Seq(Queries) : Len(Append(s, q)) = Len(s) + 1
    OBVIOUS
  <2> HIDE DEF h
  <2>4. queues'[h] = IF h \in DOMAIN queues THEN Append(queues[h], q) ELSE <<q>>
    BY <2>1
  <2>5. QED
    BY <2>1, <2>2, <2>3, <2>4
<1>4. (h \in DOMAIN queues => Len(queues[h]) = n) /\ (h \notin DOMAIN queues => n = 0)
  OBVIOUS
<1> HIDE DEF h, n
<1>5. n + 1 <= MaxQueuedTotal
  BY <1>1, <1>2
<1>6. /\ Places(queues') = Places(queues) \cup {<<h, n + 1>>}
      /\ <<h, n + 1>> \notin Places(queues)
  <2>1. OneMore(queues, queues', h, n)
    BY <1>1, <1>2, <1>3, <1>4, <1>5 DEF OneMore
  <2>2. QED
    BY <2>1, OnePlace
<1>7. Slots' = Places(queues') /\ Slots = Places(queues)
  BY DEF Slots, Places
<1>8. IsFiniteSet(Slots') /\ Cardinality(Slots') = Cardinality(Slots) + 1
  <2> DEFINE A == Slots
             p == <<h, n + 1>>
  <2>1. IsFiniteSet(A) /\ p \notin A
    BY <1>6, <1>7 DEF Limits, Counted
  <2>2. Slots' = A \cup {p}
    BY <1>6, <1>7
  <2> HIDE DEF A, p
  <2>3. IsFiniteSet(A \cup {p}) /\ Cardinality(A \cup {p}) = Cardinality(A) + 1
    BY <2>1, FS_AddElement
  <2>4. QED
    BY <2>2, <2>3 DEF A
<1>9. \A x \in DOMAIN queues' : Len(queues'[x]) <= MaxQueuedTotal /\ Len(queues'[x]) <= cap
  BY <1>2, <1>3, <1>5 DEF Limits, Counted, WithinLimits
<1>10. queuedTotal' = Cardinality(Slots') /\ queuedTotal' <= MaxQueuedTotal
  BY <1>1, <1>2, <1>3, <1>8 DEF Limits, WithinLimits
<1>11. Cardinality(DOMAIN pending') <= MaxPending
  BY <1>3 DEF Limits, WithinLimits
<1>12. QED
  BY <1>8, <1>9, <1>10, <1>11 DEF Limits, Counted, WithinLimits

\* drain() taking the first query of a host frees one position, the last of its
\* queue.
LEMMA DrainLimits ==
    ASSUME RpcInv, Limits, DrainSend
    PROVE  Limits'
<1> USE RpcAssumption
<1> DEFINE h == Head(order)
           q == Head(queues[h])
           left == Tail(queues[h])
           stay == IF left = <<>> THEN DOMAIN queues \ {h} ELSE DOMAIN queues
           n == Len(queues[h]) - 1
           cap == IF MaxQueued = 0 THEN 1 ELSE MaxQueued
<1>1. TypeOK /\ OrderMatchesQueues /\ WaitingOnce
  BY DEF RpcInv, CallbackOnce
<1>2. /\ order # <<>> /\ pending' = pending
      /\ queues' = [x \in stay |-> IF x = h THEN left ELSE queues[x]]
      /\ queuedTotal' = queuedTotal - 1
  BY DEF DrainSend, MoreTurns, HandOver
<1>3. h \in Hosts /\ h \in DOMAIN queues /\ queues[h] \in Seq(Queries) /\ queues[h] # <<>>
  <2>1. order \in Seq(Hosts) /\ Range(order) = DOMAIN queues
    BY <1>1 DEF TypeOK, OrderMatchesQueues
  <2>2. h \in Hosts /\ h \in Range(order)
    BY <1>2, <2>1, TailOnce
  <2> HIDE DEF h
  <2>3. QED
    BY <1>1, <2>1, <2>2 DEF TypeOK, OrderMatchesQueues
<1> HIDE DEF h
<1>4. q \in Queries /\ Len(queues[h]) = n + 1 /\ n \in Nat /\ Len(left) = n
      /\ (left = <<>> <=> n = 0)
  <2>1. \A s \in Seq(Queries) : s # <<>> =>
           /\ Head(s) \in Queries /\ Len(Tail(s)) = Len(s) - 1 /\ Len(s) \in Nat /\ Len(s) > 0
           /\ Tail(s) \in Seq(Queries)
    OBVIOUS
  <2>2. \A s \in Seq(Queries) : s = <<>> <=> Len(s) = 0
    BY EmptySeq
  <2>3. q \in Queries /\ left \in Seq(Queries) /\ Len(queues[h]) \in Nat
        /\ Len(queues[h]) > 0 /\ Len(left) = Len(queues[h]) - 1
    BY <1>3, <2>1
  <2> HIDE DEF left, q
  <2>4. Len(queues[h]) = n + 1 /\ n \in Nat /\ Len(left) = n
    BY <2>3
  <2>5. QED
    BY <2>2, <2>3, <2>4
<1> HIDE DEF n, q, left
<1>5. /\ DOMAIN queues = DOMAIN queues' \cup {h}
      /\ \A x \in DOMAIN queues' \ {h} : queues[x] = queues'[x]
      /\ h \in DOMAIN queues' => Len(queues'[h]) = n
      /\ h \notin DOMAIN queues' => n = 0
  BY <1>2, <1>3, <1>4
<1> HIDE DEF stay
<1>6. n + 1 <= MaxQueuedTotal /\ n + 1 <= cap
  BY <1>3, <1>4 DEF Limits, Counted, WithinLimits
<1>7. /\ Places(queues) = Places(queues') \cup {<<h, n + 1>>}
      /\ <<h, n + 1>> \notin Places(queues')
  <2>1. OneMore(queues', queues, h, n)
    BY <1>3, <1>4, <1>5, <1>6 DEF OneMore
  <2>2. QED
    BY <2>1, OnePlace
<1>8. Slots' = Places(queues') /\ Slots = Places(queues)
  BY DEF Slots, Places
<1>9. IsFiniteSet(Slots') /\ Cardinality(Slots') = Cardinality(Slots) - 1
  <2> DEFINE A == Slots
             p == <<h, n + 1>>
  <2>1. IsFiniteSet(A) /\ p \in A
    BY <1>7, <1>8 DEF Limits, Counted
  <2>2. Slots' = A \ {p}
    BY <1>7, <1>8
  <2> HIDE DEF A, p
  <2>3. IsFiniteSet(A \ {p}) /\ Cardinality(A \ {p}) = Cardinality(A) - 1
    BY <2>1, FS_RemoveElement
  <2>4. QED
    BY <2>2, <2>3 DEF A
<1>10. \A x \in DOMAIN queues' : Len(queues'[x]) <= MaxQueuedTotal /\ Len(queues'[x]) <= cap
  <2>1. n <= MaxQueuedTotal /\ n <= cap
    BY <1>4, <1>6
  <2>2. QED
    BY <1>5, <2>1 DEF Limits, Counted, WithinLimits
<1>11. queuedTotal' = Cardinality(Slots') /\ queuedTotal' <= MaxQueuedTotal
  <2>1. queuedTotal \in Int /\ queuedTotal = Cardinality(Slots) /\ queuedTotal <= MaxQueuedTotal
    BY <1>1 DEF TypeOK, Limits, WithinLimits
  <2>2. QED
    BY <1>2, <1>9, <2>1
<1>12. Cardinality(DOMAIN pending') <= MaxPending
  BY <1>2 DEF Limits, WithinLimits
<1>13. QED
  BY <1>9, <1>10, <1>11, <1>12 DEF Limits, Counted, WithinLimits

\* query(), whether it sends, queues or refuses, keeps the limits.
LEMMA QueryLimits ==
    ASSUME TypeOK, Limits, NEW q \in Queries, query(q)
    PROVE  Limits'
<1>1. CASE SendNow(q)
  <2>1. queues' = queues /\ queuedTotal' = queuedTotal /\ pending' = pending
    BY <1>1 DEF SendNow, HandOver, queueVars
  <2>2. QED
    BY <2>1, LimitsKept
<1>2. CASE Enqueue(q)
  BY <1>2, EnqueueLimits
<1>3. CASE refuse(q)
  <2>1. queues' = queues /\ queuedTotal' = queuedTotal /\ pending' = pending
    BY <1>3 DEF refuse, queueVars
  <2>2. QED
    BY <2>1, LimitsKept
<1>4. QED
  BY <1>1, <1>2, <1>3 DEF query

\* send() takes the room the check has found.
LEMMA SendLimits ==
    ASSUME TypeOK, PassedChecks, Limits, NEW q \in Queries, send(q)
    PROVE  Limits'
<1>1. queues' = queues /\ queuedTotal' = queuedTotal
  BY DEF send, queueVars
<1>2. Cardinality(DOMAIN pending') <= MaxPending
  BY SendPending
<1>3. Counted' /\ Slots' = Slots
  BY <1>1, QueuesKept DEF Limits
<1>4. QED
  BY <1>1, <1>2, <1>3 DEF Limits, WithinLimits

\* Closing the node leaves nothing to count.
LEMMA CancelLimits ==
    ASSUME cancelAll
    PROVE  Limits'
<1> USE RpcAssumption
<1>1. DOMAIN pending' = {} /\ DOMAIN queues' = {} /\ queuedTotal' = 0
  BY DEF cancelAll
<1>2. Slots' = {}
  BY <1>1 DEF Slots
<1>3. IsFiniteSet(Slots') /\ Cardinality(Slots') = 0 /\ Cardinality(DOMAIN pending') = 0
  BY <1>1, <1>2, FS_EmptySet
<1>4. 0 <= MaxPending /\ 0 <= MaxQueuedTotal
  OBVIOUS
<1>5. QED
  BY <1>1, <1>3, <1>4 DEF Limits, Counted, WithinLimits

\* m_queuedTotal is exactly what waits, and nothing that waits or is outstanding
\* exceeds its limit: through every send, refusal, drain and cancellation.
THEOREM LimitsSafety == Spec => []WithinLimits
<1> USE RpcAssumption
<1>1. Init => Limits
  <2> SUFFICES ASSUME Init PROVE Limits
    OBVIOUS
  <2>1. DOMAIN pending = {} /\ DOMAIN queues = {} /\ queuedTotal = 0
    BY DEF Init
  <2>2. Slots = {}
    BY <2>1 DEF Slots
  <2>3. IsFiniteSet(Slots) /\ Cardinality(Slots) = 0 /\ Cardinality(DOMAIN pending) = 0
    BY <2>1, <2>2, FS_EmptySet
  <2>4. 0 <= MaxPending /\ 0 <= MaxQueuedTotal
    OBVIOUS
  <2>5. QED
    BY <2>1, <2>3, <2>4 DEF Limits, Counted, WithinLimits
<1>2. RpcInv /\ Limits /\ [Next]_vars => Limits'
  <2> SUFFICES ASSUME RpcInv, Limits, [Next]_vars PROVE Limits'
    OBVIOUS
  <2>0. TypeOK /\ PassedChecks
    BY DEF RpcInv
  <2>1. ASSUME NEW q \in Queries, query(q) \/ send(q) PROVE Limits'
    BY <2>0, <2>1, QueryLimits, SendLimits
  <2>2. CASE DrainSend
    BY <2>2, DrainLimits
  <2>3. CASE drainBegin \/ DrainSkip \/ drainEnd \/ expireBegin \/ expireEnd \/ reportNotSent
             \/ UNCHANGED vars
    <3>1. queues' = queues /\ queuedTotal' = queuedTotal /\ pending' = pending
      BY <2>3 DEF drainBegin, DrainSkip, drainEnd, expireBegin, expireEnd, reportNotSent,
                  vars, queueVars, sendVars
    <3>2. QED
      BY <2>0, <3>1, LimitsKept
  <2>4. ASSUME NEW t \in Tids, (\E e \in Endpoints : handleReply(t, e)) \/ expireOne(t)
        PROVE  Limits'
    <3>1. queues' = queues /\ queuedTotal' = queuedTotal /\ pending' = Detached(t)
      BY <2>4 DEF handleReply, expireOne, queueVars
    <3>2. DOMAIN pending' \subseteq DOMAIN pending
      BY <3>1 DEF Detached
    <3>3. QED
      BY <2>0, <3>1, <3>2, LimitsKept
  <2>5. CASE cancelAll
    BY <2>5, CancelLimits
  <2>6. CASE Tick
    <3>1. queues' = queues /\ queuedTotal' = queuedTotal /\ DOMAIN pending' = DOMAIN pending
      BY <2>6 DEF Tick, queueVars
    <3>2. QED
      BY <2>0, <3>1, LimitsKept
  <2>7. QED
    BY <2>1, <2>2, <2>3, <2>4, <2>5, <2>6 DEF Next
<1>3. Limits => WithinLimits
  BY DEF Limits
<1>4. QED
  BY <1>1, <1>2, <1>3, RpcSafety, PTL DEF Spec
=============================================================================
