------------------------------ MODULE Crawler ------------------------------
(***************************************************************************)
(* Crawler: the scan of the network.  Every node heard of is asked for its  *)
(* neighbours, asked again when it is silent, and rechecked for ever; nodes *)
(* that answer also get a series of feature checks.  References to nodes    *)
(* wait in queues or in callbacks while the catalogue evicts the nodes and  *)
(* gives their slots to others.                                             *)
(*                                                                         *)
(* An action is a handler of the event loop; tick() is one step.            *)
(***************************************************************************)
EXTENDS NodeCatalog

CONSTANTS
    Unroutable,         \* endpoints with an address problem
    Caps,               \* what the user may set the cap to
    FailuresToGiveUp,   \* config.failuresToGiveUp
    Checks,             \* the feature checks, 1..n in the order they are made
    FeatureTries,       \* unanswered tries that settle a check
    MinBatch, MaxBatch, \* queries per tick, at least and at most
    TrimPerTick,        \* evictions per tick
    MaxListed,          \* bound: nodes named by one reply
    MaxNodes            \* bound: generations handed out

ASSUME CrawlerAssumption ==
    /\ Unroutable \subseteq Endpoints
    /\ Caps \subseteq Nat
    /\ Checks \subseteq Nat \ {0}
    /\ {FailuresToGiveUp, FeatureTries, MinBatch, MaxBatch, TrimPerTick} \subseteq Nat \ {0}
    /\ {MaxListed, MaxNodes} \subseteq Nat

VARIABLES
    cat,            \* m_catalog
    fresh,          \* m_fresh: never asked
    retry,          \* m_retry: one unanswered query, or one that was not sent
    revisit,        \* m_revisit: answered last time
    revisitSilent,  \* m_revisitSilent: silent or gone
    deferred,       \* m_deferred: due, but the host is busy
    features,       \* m_features: answering, with checks left
    out,            \* queries whose callback is still to come
    outstanding,    \* m_outstanding
    monitoring,     \* m_monitoring
    alive           \* history: endpoints that have answered a scan query

rounds == <<fresh, retry, revisit, revisitSilent, deferred>>
vars == <<cat, rounds, features, out, outstanding, monitoring, alive>>

Refs == [slot : Nat \ {0}, generation : 1..MaxNodes]

\* A query in flight is find_node or the number of a feature check.
FindNode == 0

Init ==
    /\ \E cap \in Caps : cat = Empty(cap)
    /\ fresh = <<>> /\ retry = <<>> /\ revisit = <<>> /\ revisitSilent = <<>> /\ deferred = <<>>
    /\ features = <<>>
    /\ out = {} /\ outstanding = 0
    /\ monitoring = FALSE
    /\ alive = {}

-----------------------------------------------------------------------------
(* Learning                                                                *)

\* learn() of one endpoint: p holds the catalogue and m_fresh.
Learn(p, e) ==
    IF find(p.cat, e) # NoSlot \/ p.cat.cap = 0 \/ p.cat.nextGeneration > MaxNodes
    THEN {p}
    ELSE LET added(c) ==
               LET s == find(c, e)
               IN IF e \in Unroutable
                  THEN [cat |-> setState(c, s, "Unroutable"), fresh |-> p.fresh]
                  ELSE [cat |-> c, fresh |-> Append(p.fresh, RefOf(c, s))]
         IN {added(c) : c \in upsert(p.cat, e)}

\* All that a list of nodes may lead to, taken in order.
LearnAll(c, list) ==
    LET after[k \in 0..Len(list)] ==
          IF k = 0 THEN {[cat |-> c, fresh |-> fresh]}
          ELSE UNION {Learn(p, list[k]) : p \in after[k - 1]}
    IN after[Len(list)]

Lists == UNION {[1..n -> Endpoints] : n \in 0..MaxListed}

\* learnFrom(), the last thing a handler does.
learnFrom(c, list) == \E p \in LearnAll(c, list) : cat' = p.cat /\ fresh' = p.fresh

-----------------------------------------------------------------------------
(* tick()                                                                  *)

\* What a tick works on.
Members ==
    [cat |-> cat, fresh |-> fresh, retry |-> retry, revisit |-> revisit, revisitSilent |-> revisitSilent,
     deferred |-> deferred, features |-> features, out |-> out, outstanding |-> outstanding, sent |-> 0]

\* A query to the node of a reference.
Send(st, kind, ref) ==
    [st EXCEPT !.out = @ \cup {[kind |-> kind, ref |-> ref, to |-> st.cat.entries[ref.slot].endpoint]},
               !.outstanding = @ + 1, !.sent = @ + 1]

\* ask(): send find_node.
ask(st, ref) == Send(st, FindNode, ref)

\* A node set aside is looked at; a busy host goes back to the end.
DeferredTurn(t, budget) ==
    LET ref == Head(t.deferred)
        rest == [t EXCEPT !.deferred = Tail(@)]
    IN CASE t.sent >= budget -> {t}
         [] t.sent < budget /\ ~isCurrent(t.cat, ref) -> {rest}
         [] OTHER -> {[rest EXCEPT !.deferred = Append(@, ref)], ask(rest, ref)}

\* dispatchDeferred(): each of them once.
dispatchDeferred(st, budget) ==
    LET after[k \in 0..Len(st.deferred)] ==
          IF k = 0 THEN {st} ELSE UNION {DeferredTurn(t, budget) : t \in after[k - 1]}
    IN after[Len(st.deferred)]

\* takeDue() drops what is no longer current from the front ...
Dropped(st, q) ==
    LET n == CHOOSE n \in 0..Len(q) :
               /\ \A i \in 1..n : ~isCurrent(st.cat, q[i])
               /\ n < Len(q) => isCurrent(st.cat, q[n + 1])
    IN SubSeq(q, n + 1, Len(q))

\* The queues in the order dispatchNext() tries them.  The first has no delay;
\* of the others the first node that is current may or may not be due.
Queues == <<"fresh", "retry", "revisit", "revisitSilent">>

\* dispatchNext(): a queue is tried only if those before it had nobody due; the
\* node found is asked, or set aside when its host is busy.
dispatchNext(st) ==
    LET left == [k \in 1..4 |-> Dropped(st, st[Queues[k]])]
        cleaned(k) == [f \in DOMAIN st |-> IF \E j \in 1..k : Queues[j] = f THEN Dropped(st, st[f]) ELSE st[f]]
        found(k) ==
            LET taken == [cleaned(k) EXCEPT ![Queues[k]] = Tail(@)]
            IN {ask(taken, Head(left[k])), [taken EXCEPT !.deferred = Append(@, Head(left[k])), !.sent = @ + 1]}
        reachable == IF left[1] # <<>> THEN {1} ELSE {k \in 2..4 : left[k] # <<>>}
    IN (UNION {found(k) : k \in reachable}) \cup (IF left[1] = <<>> THEN {cleaned(4)} ELSE {})

\* The scan's loops end at their budget, and at any time when the RPC layer is
\* backlogged.
Scan(st, budget) ==
    LET turn(t) == {t} \cup IF t.sent < budget THEN dispatchNext(t) ELSE {}
        after[k \in 0..budget] == IF k = 0 THEN {st} ELSE UNION {turn(t) : t \in after[k - 1]}
    IN after[budget]

\* The first check not made yet.
NextCheck(entry) == CHOOSE k \in Checks \ entry.tested : \A j \in Checks \ entry.tested : k <= j
featuresDone(entry) == Checks \subseteq entry.tested

\* Only nodes that are answering are worth the queries.
WorthChecking(entry) == entry.state = "Responsive" /\ ~featuresDone(entry)

\* A node queued for checks is looked at: what is not worth checking loses its mark, so
\* that it is queued again when it next answers.
FeatureTurn(t, budget) ==
    LET ref == Head(t.features)
        entry == t.cat.entries[ref.slot]
        rest == [t EXCEPT !.features = Tail(@)]
    IN CASE t.sent >= budget -> {t}
         [] t.sent < budget /\ ~isCurrent(t.cat, ref) -> {rest}
         [] t.sent < budget /\ isCurrent(t.cat, ref) /\ ~WorthChecking(entry) ->
                {[rest EXCEPT !.cat.entries[ref.slot].featureQueued = FALSE]}
         [] OTHER -> {[rest EXCEPT !.features = Append(@, ref)], Send(rest, NextCheck(entry), ref)}

\* dispatchFeatures(): each of them once.
dispatchFeatures(st, budget) ==
    LET after[k \in 0..Len(st.features)] ==
          IF k = 0 THEN {st} ELSE UNION {FeatureTurn(t, budget) : t \in after[k - 1]}
    IN after[Len(st.features)]

\* The scan's share of a batch; the rest is kept for feature checks.
ScanShare(batch) == batch - (IF batch \div 4 > 1 THEN batch \div 4 ELSE 1)

\* The four loops of a tick, the first and third skipped when backlogged.
Dispatched(st, batch) ==
    LET s1 == {st} \cup dispatchDeferred(st, ScanShare(batch))
        s2 == UNION {Scan(t, ScanShare(batch)) : t \in s1}
        s3 == s2 \cup UNION {dispatchFeatures(t, batch) : t \in s2}
    IN UNION {Scan(t, batch) : t \in s3}

\* setMonitoring(): on begins with a seed from the routing tables, off only
\* stops the timer.
setMonitoring ==
    /\ monitoring' = ~monitoring
    /\ IF monitoring'
       THEN \E list \in Lists : learnFrom(cat, list)
       ELSE UNCHANGED <<cat, fresh>>
    /\ UNCHANGED <<retry, revisit, revisitSilent, deferred, features, out, outstanding, alive>>

\* With nothing to ask and nothing in flight, and SeedIntervalMs permitting, a
\* tick looks at the routing tables again.
Idle == fresh = <<>> /\ deferred = <<>> /\ outstanding = 0

\* tick(): trim, perhaps seed and widen, then dispatch.  The batch follows the
\* pace of the machine, which may be anything.
tick ==
    /\ monitoring
    /\ \E c \in trim(cat, TrimPerTick), list \in Lists, batch \in MinBatch..MaxBatch :
        /\ list # <<>> => Idle
        /\ \E p \in LearnAll(c, list) :
           \E st \in Dispatched([Members EXCEPT !.cat = p.cat, !.fresh = p.fresh], batch) :
              /\ cat' = st.cat /\ fresh' = st.fresh /\ retry' = st.retry /\ revisit' = st.revisit
              /\ revisitSilent' = st.revisitSilent /\ deferred' = st.deferred /\ features' = st.features
              /\ out' = st.out /\ outstanding' = st.outstanding
    /\ UNCHANGED <<monitoring, alive>>

-----------------------------------------------------------------------------
(* Answers                                                                 *)

\* queueFeatures() on a catalogue and the queue.
WantsFeatures(entry) == ~featuresDone(entry) /\ ~entry.featureQueued

Answered(q) ==
    /\ q \in out
    /\ out' = out \ {q}
    /\ outstanding' = outstanding - 1
    /\ UNCHANGED <<deferred, monitoring>>

\* Mutant: what was not sent is forgotten.
onThrottledDropped(q) ==
    /\ q.kind = FindNode /\ Answered(q)
    /\ UNCHANGED <<cat, fresh, retry, revisit, revisitSilent, features, alive>>

\* onReply(), Throttled: never sent, so it is tried again later.
onThrottled(q) ==
    /\ q.kind = FindNode /\ Answered(q)
    /\ retry' = IF isCurrent(cat, q.ref) THEN Append(retry, q.ref) ELSE retry
    /\ UNCHANGED <<cat, fresh, revisit, revisitSilent, features, alive>>

\* onReply(), Timeout: a second chance, then silent or gone.
onTimeout(q) ==
    /\ q.kind = FindNode /\ Answered(q)
    /\ LET s == q.ref.slot
           n == cat.entries[s].failures + 1
           failed == [cat EXCEPT !.entries[s].failures = n]
       IN \/ ~isCurrent(cat, q.ref) /\ UNCHANGED <<cat, retry, revisitSilent>>
          \/ /\ isCurrent(cat, q.ref) /\ n >= FailuresToGiveUp
             /\ cat' = LET c == setState(failed, s, IF cat.entries[s].answered THEN "Gone" ELSE "Silent")
                       IN [c EXCEPT !.entries[s].failures = FailuresToGiveUp]
             /\ revisitSilent' = Append(revisitSilent, q.ref)
             /\ UNCHANGED retry
          \/ /\ isCurrent(cat, q.ref) /\ n < FailuresToGiveUp
             /\ cat' = failed
             /\ retry' = Append(retry, q.ref)
             /\ UNCHANGED revisitSilent
    /\ UNCHANGED <<fresh, revisit, features, alive>>

\* onReply(), a response or an error: alive either way; a response also names
\* nodes, learnt after the entry was updated.
onAnswer(q, list) ==
    /\ q.kind = FindNode /\ Answered(q)
    /\ alive' = alive \cup {q.to}
    /\ IF isCurrent(cat, q.ref)
       THEN LET s == q.ref.slot
                more == WantsFeatures(cat.entries[s])
                c == setState([cat EXCEPT !.entries[s].failures = 0, !.entries[s].answered = TRUE,
                                          !.entries[s].featureQueued = @ \/ more], s, "Responsive")
            IN /\ revisit' = Append(revisit, q.ref)
               /\ features' = IF more THEN Append(features, q.ref) ELSE features
               /\ learnFrom(c, list)
       ELSE /\ UNCHANGED <<revisit, features>>
            /\ learnFrom(cat, list)
    /\ UNCHANGED <<retry, revisitSilent>>

\* onFeatureReply(): Throttled changes nothing, a Timeout counts a try, and an
\* answer, an error too, settles the check.  With checks left it queues again.
FeatureOutcome(entry, check, status) ==
    CASE status = "Throttled" -> entry
      [] status = "Timeout" ->
            IF entry.tries + 1 >= FeatureTries
            THEN [entry EXCEPT !.tested = @ \cup {check}, !.tries = 0]
            ELSE [entry EXCEPT !.tries = @ + 1]
      [] status = "Answer" -> [entry EXCEPT !.tested = @ \cup {check}, !.tries = 0]

\* Mutant: the flag is left set when the checks are done.
FeatureFlagKept(entry) == entry

FeatureFlag(entry) == [entry EXCEPT !.featureQueued = @ /\ ~featuresDone(entry)]

onFeatureReply(q, status, list) ==
    /\ q.kind # FindNode /\ Answered(q)
    /\ list # <<>> => status = "Answer"
    /\ IF isCurrent(cat, q.ref)
       THEN LET s == q.ref.slot
                entry == FeatureOutcome(cat.entries[s], q.kind, status)
            IN /\ features' = IF featuresDone(entry) THEN features ELSE Append(features, q.ref)
               /\ learnFrom([cat EXCEPT !.entries[s] = FeatureFlag(entry)], list)
       ELSE UNCHANGED <<features, cat, fresh>>
    /\ UNCHANGED <<retry, revisit, revisitSilent, alive>>

\* recordLookup(): a random lookup, of which widen() and estimateSize() start
\* one after the other, ends and its nodes are learnt, also while the scan is
\* paused.
recordLookup(list) ==
    /\ learnFrom(cat, list)
    /\ UNCHANGED <<retry, revisit, revisitSilent, deferred, features, out, outstanding, monitoring, alive>>

\* DhtEngine::setCatalogCap(): a paused scan trims at once.
setCatalogCap(limit) ==
    /\ IF monitoring
       THEN cat' = setCap(cat, limit)
       ELSE cat' \in trim(setCap(cat, limit), Len(cat.entries))
    /\ UNCHANGED <<rounds, features, out, outstanding, monitoring, alive>>

\* Mutant: feature checks are not waited for.
PhaseScanOnly ==
    CASE ~monitoring -> "Off"
      [] monitoring /\ (fresh # <<>> \/ deferred # <<>> \/ cat.counts["New"] > 0) -> "Discovering"
      [] monitoring /\ cat.size = 0 -> "WaitingForNodes"
      [] OTHER -> "UpToDate"

\* snapshot(): the phase shown, when no recheck is due.
Phase ==
    CASE ~monitoring -> "Off"
      [] monitoring /\ (fresh # <<>> \/ deferred # <<>> \/ cat.counts["New"] > 0) -> "Discovering"
      [] monitoring /\ fresh = <<>> /\ deferred = <<>> /\ cat.counts["New"] = 0
           /\ (outstanding > 0 \/ features # <<>>) -> "Rechecking"
      [] monitoring /\ fresh = <<>> /\ deferred = <<>> /\ cat.counts["New"] = 0
           /\ outstanding = 0 /\ features = <<>> /\ cat.size = 0 -> "WaitingForNodes"
      [] OTHER -> "UpToDate"

Statuses == {"Throttled", "Timeout", "Answer"}

Next ==
    \/ setMonitoring \/ tick
    \/ \E q \in out : onThrottled(q) \/ onTimeout(q)
    \/ \E q \in out, list \in Lists : onAnswer(q, list)
    \/ \E q \in out, status \in Statuses, list \in Lists : onFeatureReply(q, status, list)
    \/ \E list \in Lists : recordLookup(list)
    \/ \E limit \in Caps : setCatalogCap(limit)

Spec == Init /\ [][Next]_vars

-----------------------------------------------------------------------------
(* Properties                                                              *)

Waiting(ref) ==
    LET times(q) == Cardinality({i \in DOMAIN q : q[i] = ref})
    IN times(fresh) + times(retry) + times(revisit) + times(revisitSilent) + times(deferred)
         + Cardinality({q \in out : q.kind = FindNode /\ q.ref = ref})

\* Every node the catalogue holds, unless its address is unusable, is in
\* exactly one place of the rounds: one queue, or one query in flight.  Twice
\* and it is asked twice as often for ever, never and it is not asked again
\* and the scan keeps saying that it is discovering.
InOneRound ==
    \A s \in InUse(cat) :
        Waiting(RefOf(cat, s)) = IF cat.entries[s].state = "Unroutable" THEN 0 ELSE 1

\* A node is marked as queued for feature checks exactly when one reference to
\* it waits in m_features or one check of it is in flight, so that checks go
\* one at a time and a node with checks left is not forgotten.
FeaturesOneAtATime ==
    \A s \in InUse(cat) :
        LET ref == RefOf(cat, s)
            places == Cardinality({i \in DOMAIN features : features[i] = ref})
                        + Cardinality({q \in out : q.kind # FindNode /\ q.ref = ref})
        IN /\ places = IF cat.entries[s].featureQueued THEN 1 ELSE 0
           /\ cat.entries[s].state = "Responsive" /\ ~featuresDone(cat.entries[s]) => cat.entries[s].featureQueued

\* A node is shown as answering or gone only if its own endpoint has answered:
\* the answer of an evicted node never reaches the one that has its slot.
AnswersAreItsOwn ==
    \A s \in InUse(cat) :
        cat.entries[s].state \in {"Responsive", "Gone"} => cat.entries[s].endpoint \in alive

\* The scan says it is up to date only when every node it holds has answered or
\* run out of tries, and every node that answers has been through its checks.
UpToDateIsDone ==
    Phase = "UpToDate" =>
        \A s \in InUse(cat) :
            /\ cat.entries[s].state # "New"
            /\ cat.entries[s].state = "Responsive" => featuresDone(cat.entries[s])

\* The index finds exactly what is stored (see FindsExactly).
IndexIsExact == FindsExactly(cat)

\* The counts shown are exact, and so is the number of queries in flight that
\* decides whether the scan seeds itself again.
CountsExact == CountsAgree(cat) /\ outstanding = Cardinality(out)

\* Types.
TypeOK ==
    /\ cat.entries \in Seq([endpoint : Endpoints, generation : 1..MaxNodes, inUse : BOOLEAN,
                            state : EntryStates, failures : 0..FailuresToGiveUp,
                            answered : BOOLEAN, tested : SUBSET Checks, tries : 0..(FeatureTries - 1),
                            featureQueued : BOOLEAN])
    /\ \A q \in {fresh, retry, revisit, revisitSilent, deferred, features} : q \in Seq(Refs)
    /\ monitoring \in BOOLEAN

\* Through growth, eviction and reuse of slots the catalogue finds every node once
\* and counts it once.
CatalogExact == TypeOK /\ IndexIsExact /\ CountsExact
=============================================================================
