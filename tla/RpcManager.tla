----------------------------- MODULE RpcManager -----------------------------
(***************************************************************************)
(* Outstanding KRPC queries (dhtcore/src/RpcManager.cpp): transaction ids, *)
(* matching, timeouts, the per-host send limit with its queues, and the    *)
(* engine-wide allowance for newly contacted endpoints.                    *)
(*                                                                         *)
(* Everything runs on one thread, so an action is one event-loop handler,  *)
(* save that drain() takes steps for each host, expire() one per callback, *)
(* between which callbacks may call query() or close the node, and         *)
(* query() and drain() hand a query they have passed to a step of send().  *)
(*                                                                         *)
(* Time is relative: a countdown per pending query and per recent contact, *)
(* and credits that grow with Tick.  RateLimiter.tla shows that the lazy   *)
(* buckets of the code behave as such a credit.  It passes inside handlers *)
(* too: query() and a pass of drain() check with the clock they read when  *)
(* they began, send() charges with one it reads itself.  While they run,   *)
(* credit and recent are as of the first reading and `elapsed` says how    *)
(* far the clock has moved on since.                                       *)
(***************************************************************************)
EXTENDS Integers, Sequences, FiniteSets, Functions

CONSTANTS
    Queries,         \* queries a caller may have outstanding at the same time
    Endpoints,       \* address and port
    Hosts,           \* addresses
    To,              \* the endpoint of each query
    HostOf,          \* the address of each endpoint
    NumTids,         \* transaction ids, 65536 in the code
    MaxPending,      \* m_maxPending
    MaxQueued,       \* HostLimit::maxQueued
    MaxQueuedTotal,  \* MaxQueuedTotal
    Timeout,         \* timeoutMs, in ticks
    HostCost,        \* ticks that earn one datagram to a host
    HostBurst,       \* ticks that fill a host's bucket
    ContactCost,     \* ticks that earn one new contact
    ContactCap,      \* ticks that fill the contact allowance
    Window,          \* ContactBudget::WindowMs, in ticks
    MaxElapsed,      \* bound: ticks that pass while query() or a drain pass runs
    MaxDebt          \* bound: the balance below which none do

ASSUME RpcAssumption ==
    /\ To \in [Queries -> Endpoints] /\ HostOf \in [Endpoints -> Hosts]
    /\ NumTids \in Nat \ {0} /\ MaxPending \in 1..NumTids
    /\ MaxQueued \in Nat /\ MaxQueuedTotal \in Nat
    /\ Timeout \in Nat /\ Window \in Nat
    /\ HostCost \in Nat /\ HostBurst \in Nat
    /\ ContactCost \in Nat /\ ContactCap \in Nat
    /\ MaxElapsed \in Nat /\ MaxDebt \in Nat

VARIABLES
    live,       \* queries handed over whose callback has not run
    queues,     \* m_queues: a function on the hosts that have an entry
    order,      \* m_order
    queuedTotal,\* m_queuedTotal
    pending,    \* m_pending: a function on transaction ids
    nextId,     \* m_nextId
    notices,    \* queries whose Throttled report is posted to the event loop
    credit,     \* m_limiter, per host
    limited,    \* ContactBudget::isLimited(), as it was set before the run
    balance,    \* ContactBudget::m_balance
    recent,     \* ContactBudget::m_recent: ticks each endpoint stays live
    sending,    \* the query that has passed the checks and is given to send()
    elapsed,    \* ticks since the handler that runs has read its clock
    refilled,   \* of these, the ticks that balance has been refilled for
    exhausted,  \* m_budgetExhausted
    draining,   \* m_drainTimer.isActive()
    open,       \* the node's socket is open
    pc,         \* the handler that is running: idle, drain or expire
    turns,      \* drain(): hosts still to visit in this pass
    held,       \* drain(): the local `exhausted`
    expired     \* expire(): ids collected and not yet visited

clockVars == <<credit, balance, recent, elapsed, refilled>>
sendVars  == <<pending, nextId, notices, sending, limited, clockVars>>
queueVars == <<queues, order, queuedTotal>>
localVars == <<pc, turns, held, expired>>
vars == <<live, queueVars, sendVars, exhausted, draining, open, localVars>>

Tids == 0..(NumTids - 1)
Host(q) == HostOf[To[q]]

Init ==
    /\ live = {}
    /\ queues = [h \in {} |-> <<>>] /\ order = <<>> /\ queuedTotal = 0
    /\ pending = [t \in {} |-> [query |-> {}, left |-> 0]]
    /\ nextId \in Tids
    /\ notices = <<>>
    /\ credit = [h \in Hosts |-> HostBurst]
    /\ limited \in BOOLEAN /\ balance = ContactCap /\ recent = [e \in Endpoints |-> 0]
    /\ sending = {} /\ elapsed = 0 /\ refilled = 0
    /\ exhausted = FALSE /\ draining = FALSE /\ open = TRUE
    /\ pc = "idle" /\ turns = 0 /\ held = FALSE /\ expired = {}

-----------------------------------------------------------------------------
(* Sending one datagram                                                    *)

canSendNow == Cardinality(DOMAIN pending) < MaxPending

\* ContactBudget::isLive(), at the time the running handler began, by which the
\* checks go, and at the present, by which record() does.
LiveThen(e) == recent[e] > 0
LiveNow(e)  == recent[e] > elapsed

\* A query to an endpoint the router is already tracking is always affordable.
\* Nothing is refilled here: the time until the handler began has been already.
affordable(e) == limited => LiveThen(e) \/ balance >= ContactCost

HasCredit(h) == credit[h] >= HostCost

\* Mutant: ids are taken in turn without looking whether one is in use.
nextTransactionIdBlind == nextId

\* The first id from m_nextId on, wrapping, that no outstanding query holds.
nextTransactionId ==
    LET Free(k) == (nextId + k) % NumTids \notin DOMAIN pending
        k == CHOOSE i \in Tids : Free(i) /\ \A j \in 0..(i - 1) : ~Free(j)
    IN  (nextId + k) % NumTids

Lesser(x, y) == IF x <= y THEN x ELSE y
Less(x, n) == IF x <= n THEN 0 ELSE x - n

\* ContactBudget::refill() with a balance refilled for r of the elapsed ticks.
Refill(b, r) == Lesser(ContactCap, b + elapsed - r)

\* What ContactBudget holds when nothing is recorded, and after record() of an
\* endpoint that is charged and of one that is not.
Unrecorded == [balance |-> balance, refilled |-> refilled, recent |-> recent]
Written(e) == [recent EXCEPT ![e] = Window + elapsed]
Charged(e) == [balance |-> Refill(balance, refilled) - ContactCost,
               refilled |-> elapsed, recent |-> Written(e)]
Uncharged(e) == [Unrecorded EXCEPT !.recent = Written(e)]

\* Mutant: a datagram to an endpoint written to lately is charged as well.
recordAlways(e) == IF limited THEN Charged(e) ELSE Uncharged(e)

\* ContactBudget::record(): only an endpoint not written to lately is charged,
\* whatever the check found at its own time.
record(e) == IF limited /\ ~LiveNow(e) THEN Charged(e) ELSE Uncharged(e)

\* query() or the pass of drain() returns: the next handler reads the clock
\* anew and finds everything the elapsed ticks have earned and let lapse.
Return(budget) ==
    /\ credit' = [h \in Hosts |-> Lesser(HostBurst, credit[h] + elapsed)]
    /\ balance' = Refill(budget.balance, budget.refilled)
    /\ recent' = [e \in Endpoints |-> Less(budget.recent[e], elapsed)]
    /\ elapsed' = 0 /\ refilled' = 0

\* The pass goes on, with the clock reading it began with.
Proceed(budget) ==
    /\ balance' = budget.balance /\ refilled' = budget.refilled
    /\ recent' = budget.recent
    /\ UNCHANGED <<credit, elapsed>>

After(budget) == IF pc = "drain" THEN Proceed(budget) ELSE Return(budget)

Report(q) == notices' = Append(notices, q)

\* The OS takes the datagram: the query awaits its answer.
Sent(q, tid) ==
    /\ open
    /\ pending' = [t \in DOMAIN pending \cup {tid} |->
                     IF t = tid THEN [query |-> q, left |-> Timeout] ELSE pending[t]]
    /\ After(record(To[q]))
    /\ UNCHANGED notices

\* The OS refuses it: the entry is dropped again and the caller told later.
NotSent(q, tid) ==
    /\ pending' = [t \in DOMAIN pending \ {tid} |-> pending[t]]
    /\ Report(q)
    /\ After(Unrecorded)

\* send(), which reads the clock again.
send(q) ==
    LET tid == nextTransactionId IN
    /\ q \in sending /\ sending' = {}
    /\ nextId' = (tid + 1) % NumTids
    /\ Sent(q, tid) \/ NotSent(q, tid)
    /\ UNCHANGED <<live, queueVars, limited, exhausted, draining, open, localVars>>

\* The host's limit has let the query through, RateLimiter::allow() charging it
\* with the handler's clock, and send() is called.
HandOver(q) ==
    /\ sending' = {q}
    /\ credit' = [credit EXCEPT ![Host(q)] = @ - HostCost]
    /\ UNCHANGED <<pending, nextId, notices, limited, balance, recent, elapsed, refilled>>

-----------------------------------------------------------------------------
(* query()                                                                 *)

\* Anything waiting for this host goes first, and nothing goes while hosts are
\* known to wait for the allowance.
MayGoNow(q) ==
    /\ Host(q) \notin DOMAIN queues /\ ~exhausted
    /\ canSendNow /\ affordable(To[q]) /\ HasCredit(Host(q))

\* Mutant: the limits admit one more.
FullOffByOne(h) ==
    \/ queuedTotal > MaxQueuedTotal
    \/ h \in DOMAIN queues /\ Len(queues[h]) > MaxQueued

Full(h) ==
    \/ queuedTotal >= MaxQueuedTotal
    \/ h \in DOMAIN queues /\ Len(queues[h]) >= MaxQueued

SendNow(q) ==
    /\ MayGoNow(q)
    /\ HandOver(q)
    /\ UNCHANGED <<queueVars, draining>>

refuse(q) ==
    /\ ~MayGoNow(q) /\ Full(Host(q))
    /\ Report(q)
    /\ UNCHANGED <<queueVars, pending, nextId, sending, limited, clockVars, draining>>

\* Mutant: the drain timer is only started by the second query to wait.
EnqueueSilently(q) ==
    LET h == Host(q) IN
    /\ ~MayGoNow(q) /\ ~Full(h)
    /\ queues' = [x \in DOMAIN queues \cup {h} |->
                    IF x # h THEN queues[x]
                    ELSE IF h \in DOMAIN queues THEN Append(queues[h], q) ELSE <<q>>]
    /\ order' = IF h \in DOMAIN queues THEN order ELSE Append(order, h)
    /\ queuedTotal' = queuedTotal + 1
    /\ draining' = (draining \/ queuedTotal > 0)
    /\ UNCHANGED sendVars

Enqueue(q) ==
    LET h == Host(q) IN
    /\ ~MayGoNow(q) /\ ~Full(h)
    /\ queues' = [x \in DOMAIN queues \cup {h} |->
                    IF x # h THEN queues[x]
                    ELSE IF h \in DOMAIN queues THEN Append(queues[h], q) ELSE <<q>>]
    /\ order' = IF h \in DOMAIN queues THEN order ELSE Append(order, h)
    /\ queuedTotal' = queuedTotal + 1
    /\ draining' = TRUE
    /\ UNCHANGED sendVars

\* Called from the event loop, or by a callback that expire() is running.
query(q) ==
    /\ pc \in {"idle", "expire"} /\ sending = {} /\ q \notin live
    /\ live' = live \cup {q}
    /\ SendNow(q) \/ Enqueue(q) \/ refuse(q)
    /\ UNCHANGED <<exhausted, open, localVars>>

-----------------------------------------------------------------------------
(* drain()                                                                 *)

drainBegin ==
    /\ pc = "idle" /\ sending = {} /\ draining
    /\ pc' = "drain" /\ turns' = Len(order) /\ held' = FALSE
    /\ UNCHANGED <<live, queueVars, sendVars, exhausted, draining, open, expired>>

\* Whether the loop goes round again.
MoreTurns == turns > 0 /\ order # <<>> /\ canSendNow

\* The host in front is passed over and goes to the back: its head has to wait
\* for the allowance or for the host's own limit.
DrainSkip ==
    LET h == Head(order) IN
    /\ pc = "drain" /\ sending = {} /\ MoreTurns
    /\ ~(affordable(To[Head(queues[h])]) /\ HasCredit(h))
    /\ held' = (held \/ ~affordable(To[Head(queues[h])]))
    /\ order' = Append(Tail(order), h)
    /\ turns' = turns - 1
    /\ UNCHANGED <<live, queues, queuedTotal, sendVars, exhausted, draining, open, pc, expired>>

\* A host that still has queries waiting goes to the back of the order.
Requeue(h, rest) == IF Len(queues[h]) = 1 THEN rest ELSE Append(rest, h)

\* Its first query is taken out and sent; an emptied queue is erased.
DrainSend ==
    LET h == Head(order)
        q == Head(queues[h])
        left == Tail(queues[h])
        stay == IF left = <<>> THEN DOMAIN queues \ {h} ELSE DOMAIN queues
    IN
    /\ pc = "drain" /\ sending = {} /\ MoreTurns
    /\ affordable(To[q]) /\ HasCredit(h)
    /\ queues' = [x \in stay |-> IF x = h THEN left ELSE queues[x]]
    /\ order' = Requeue(h, Tail(order))
    /\ queuedTotal' = queuedTotal - 1
    /\ turns' = turns - 1
    /\ HandOver(q)
    /\ UNCHANGED <<live, exhausted, draining, open, pc, held, expired>>

\* Mutant: the flag outlives the last waiting host.
drainEndSticky ==
    /\ pc = "drain" /\ sending = {} /\ ~MoreTurns
    /\ exhausted' = (held \/ ~canSendNow)
    /\ draining' = (DOMAIN queues # {})
    /\ pc' = "idle" /\ turns' = 0 /\ held' = FALSE
    /\ Return(Unrecorded)
    /\ UNCHANGED <<live, queueVars, pending, nextId, notices, sending, limited, open, expired>>

\* The pass is over, early when too many queries await an answer.
drainEnd ==
    /\ pc = "drain" /\ sending = {} /\ ~MoreTurns
    /\ exhausted' = (DOMAIN queues # {} /\ (held \/ (turns > 0 /\ order # <<>>)))
    /\ draining' = (DOMAIN queues # {})
    /\ pc' = "idle" /\ turns' = 0 /\ held' = FALSE
    /\ Return(Unrecorded)
    /\ UNCHANGED <<live, queueVars, pending, nextId, notices, sending, limited, open, expired>>

-----------------------------------------------------------------------------
(* Replies, timeouts and the posted reports                                *)

Detached(tid) == [t \in DOMAIN pending \ {tid} |-> pending[t]]

\* handleReply(): the id is outstanding and the sender is the one we asked.
\* A reply that does not match changes nothing.
handleReply(tid, from) ==
    /\ pc = "idle" /\ sending = {} /\ open
    /\ tid \in DOMAIN pending /\ To[pending[tid].query] = from
    /\ pending' = Detached(tid)
    /\ live' = live \ {pending[tid].query}
    /\ UNCHANGED <<queueVars, nextId, notices, sending, limited, clockVars, exhausted,
                   draining, open, localVars>>

\* Mutant: everything within a tick of its deadline is collected.
DueEarly == {t \in DOMAIN pending : pending[t].left <= 1}

\* Outstanding queries whose deadline has come.
Due == {t \in DOMAIN pending : pending[t].left = 0}

expireBegin ==
    /\ pc = "idle" /\ sending = {} /\ Due # {}
    /\ pc' = "expire" /\ expired' = Due
    /\ UNCHANGED <<live, queueVars, sendVars, exhausted, draining, open, turns, held>>

\* One collected id: the entry, if it is still there, is detached before its
\* callback runs.
expireOne(tid) ==
    /\ pc = "expire" /\ sending = {} /\ tid \in expired
    /\ expired' = expired \ {tid}
    /\ pending' = Detached(tid)
    /\ live' = IF tid \in DOMAIN pending THEN live \ {pending[tid].query} ELSE live
    /\ UNCHANGED <<queueVars, nextId, notices, sending, limited, clockVars, exhausted,
                   draining, open, pc, turns, held>>

expireEnd ==
    /\ pc = "expire" /\ sending = {} /\ expired = {}
    /\ pc' = "idle"
    /\ UNCHANGED <<live, queueVars, sendVars, exhausted, draining, open, turns, held, expired>>

\* The event loop delivers the oldest posted Throttled report.
reportNotSent ==
    /\ pc = "idle" /\ sending = {} /\ notices # <<>>
    /\ live' = live \ {Head(notices)}
    /\ notices' = Tail(notices)
    /\ UNCHANGED <<queueVars, pending, nextId, sending, limited, clockVars, exhausted,
                   draining, open, localVars>>

Outstanding == {pending[t].query : t \in DOMAIN pending}
Queued      == UNION {Range(queues[h]) : h \in DOMAIN queues}
Noticed     == Range(notices)

\* DhtNode::close(): outstanding and waiting queries are dropped without a
\* callback and the socket closes; posted reports are still delivered.
cancelAll ==
    /\ pc \in {"idle", "expire"} /\ sending = {} /\ open
    /\ live' = live \ (Outstanding \cup Queued)
    /\ pending' = [t \in {} |-> [query |-> {}, left |-> 0]]
    /\ queues' = [h \in {} |-> <<>>] /\ order' = <<>> /\ queuedTotal' = 0
    /\ exhausted' = FALSE /\ draining' = FALSE /\ open' = FALSE
    /\ UNCHANGED <<nextId, notices, sending, limited, clockVars, localVars>>

Sooner(x) == Less(x, 1)

\* query() or a pass of drain() is using a clock it has read.
Running == pc = "drain" \/ sending # {}

\* Time passes, between handlers and inside them.
Tick ==
    /\ pending' = [t \in DOMAIN pending |-> [pending[t] EXCEPT !.left = Sooner(@)]]
    /\ UNCHANGED <<live, queueVars, nextId, notices, sending, limited, exhausted, draining,
                   open, localVars>>
    /\ \/ /\ Running /\ elapsed < MaxElapsed /\ balance >= -MaxDebt
          /\ elapsed' = elapsed + 1
          /\ UNCHANGED <<credit, balance, recent, refilled>>
       \/ /\ ~Running
          /\ credit' = [h \in Hosts |-> Lesser(HostBurst, credit[h] + 1)]
          /\ balance' = Lesser(ContactCap, balance + 1)
          /\ recent' = [e \in Endpoints |-> Sooner(recent[e])]
          /\ UNCHANGED <<elapsed, refilled>>

Next ==
    \/ \E q \in Queries : query(q) \/ send(q)
    \/ drainBegin \/ DrainSkip \/ DrainSend \/ drainEnd
    \/ \E t \in Tids, e \in Endpoints : handleReply(t, e)
    \/ expireBegin \/ (\E t \in Tids : expireOne(t)) \/ expireEnd
    \/ reportNotSent
    \/ cancelAll
    \/ Tick

\* A handler that has begun runs to its end, and the event loop neglects neither
\* a timer nor a posted report however often other handlers run; time passes.
Fairness ==
    /\ SF_vars(Tick) /\ SF_vars(reportNotSent)
    /\ WF_vars(\E q \in Queries : send(q))
    /\ SF_vars(drainBegin) /\ WF_vars(DrainSkip \/ DrainSend \/ drainEnd)
    /\ SF_vars(expireBegin) /\ WF_vars((\E t \in Tids : expireOne(t)) \/ expireEnd)

Spec == Init /\ [][Next]_vars
FairSpec == Spec /\ Fairness

-----------------------------------------------------------------------------
\* Types.  Among them: nextTransactionId() never leaves the two-byte range, and
\* every countdown stays between the timeout and zero.
TypeOK ==
    /\ live \subseteq Queries
    /\ DOMAIN queues \subseteq Hosts /\ \A h \in DOMAIN queues : queues[h] \in Seq(Queries)
    /\ order \in Seq(Hosts) /\ queuedTotal \in Int
    /\ DOMAIN pending \subseteq Tids
    /\ \A t \in DOMAIN pending : pending[t] \in [query : Queries, left : 0..Timeout]
    /\ nextId \in Tids /\ notices \in Seq(Queries)
    /\ credit \in [Hosts -> Nat] /\ limited \in BOOLEAN /\ balance \in Int
    /\ recent \in [Endpoints -> Nat]
    /\ sending \subseteq Queries /\ elapsed \in 0..MaxElapsed /\ refilled \in 0..elapsed
    /\ exhausted \in BOOLEAN /\ draining \in BOOLEAN /\ open \in BOOLEAN
    /\ pc \in {"idle", "drain", "expire"} /\ turns \in Nat /\ held \in BOOLEAN
    /\ expired \subseteq Tids

\* No query waits twice, awaits two answers or is reported twice.
WaitingOnce ==
    /\ \A h \in DOMAIN queues : IsInjective(queues[h])
    /\ \A h, g \in DOMAIN queues : h # g => Range(queues[h]) \cap Range(queues[g]) = {}
PendingOnce ==
    \A t, u \in DOMAIN pending : pending[t].query = pending[u].query => t = u

\* Every query handed over is in exactly one place, waiting for its host, on its
\* way through send(), waiting for an answer or for its Throttled report, and
\* nothing else is: so its callback runs once, and not at all only when the node
\* is closed.
CallbackOnce ==
    /\ WaitingOnce /\ PendingOnce /\ IsInjective(notices)
    /\ Queued \cap Outstanding = {} /\ Noticed \cap (Queued \cup Outstanding) = {}
    /\ sending \cap (Queued \cup Outstanding \cup Noticed) = {}
    /\ live = Queued \cup sending \cup Outstanding \cup Noticed

Slots == {s \in Hosts \X (1..MaxQueuedTotal) :
             s[1] \in DOMAIN queues /\ s[2] <= Len(queues[s[1]])}

\* m_order lists exactly the hosts that have a queue, each once, and no queue is
\* empty or holds a query for another host: a host missing from the order would
\* never be served, one listed twice would get two turns, and drain() would take
\* the front of a queue that is not there.
OrderMatchesQueues ==
    /\ Range(order) = DOMAIN queues /\ IsInjective(order)
    /\ \A h \in DOMAIN queues :
         queues[h] # <<>> /\ \A q \in Range(queues[h]) : Host(q) = h

\* Between handlers the drain timer runs exactly while something waits, and
\* m_budgetExhausted holds queries back only while somebody is there to be
\* overtaken: with no waiting host no pass would ever clear it again.
WaitersAreServed ==
    pc # "drain" => /\ draining = (DOMAIN queues # {})
                    /\ exhausted => DOMAIN queues # {}

\* m_queuedTotal counts what waits through every send, drop and cancel, and what
\* waits or is outstanding stays within the limits of RpcManager.h.
WithinLimits ==
    /\ queuedTotal = Cardinality(Slots)
    /\ queuedTotal <= MaxQueuedTotal
    /\ \A h \in DOMAIN queues : Len(queues[h]) <= IF MaxQueued = 0 THEN 1 ELSE MaxQueued
    /\ Cardinality(DOMAIN pending) <= MaxPending

\* What the checks have found holds for send() as well: there is room for one more
\* query, and what its contact may cost has not been spent.  There is never more
\* in the allowance than it can hold.
PassedChecks ==
    /\ balance <= ContactCap
    /\ \A q \in sending : sending = {q} /\ canSendNow /\ affordable(To[q])

\* A charge the allowance cannot pay, and a query that was live when it was
\* checked and whose window has lapsed since.
Overdrawn == balance' < 0 /\ balance' < balance
Lapsed(q) == LiveThen(To[q]) /\ ~LiveNow(To[q])

\* drain() relies on "each send is charged before the next budget check".  But
\* send() charges by a later clock than the one its check went by, so the
\* allowance can be overdrawn: only ever by a query to an endpoint whose window
\* lapsed between the two, never by one the check took for a new contact.
AllowanceKept == [][Overdrawn => \E q \in sending : Lapsed(q)]_vars

\* What expire() has collected and not visited is still overdue when it gets
\* there, whatever the callbacks in between sent under recycled ids: no query is
\* timed out before its deadline.
NoEarlyTimeout ==
    \A t \in expired \cap DOMAIN pending : pending[t].left = 0

\* The strengthening NoEarlyTimeout needs: while the node is open the ids still
\* to visit are outstanding, so nextTransactionId() cannot hand one out again,
\* and a closed node has nothing outstanding.
CollectedStillHeld ==
    /\ pc # "expire" => expired = {}
    /\ open => expired \subseteq DOMAIN pending
    /\ ~open => DOMAIN pending = {}

RpcInv ==
    /\ TypeOK /\ CallbackOnce /\ OrderMatchesQueues /\ WaitersAreServed
    /\ PassedChecks /\ NoEarlyTimeout /\ CollectedStillHeld

\* Without a contact limit every query is answered, timed out, reported or
\* cancelled in the end.  Its timeout only starts once it is sent, so this needs
\* the queues to move.
EveryQueryEnds == \A q \in Queries : q \in live /\ ~limited ~> q \notin live
=============================================================================
