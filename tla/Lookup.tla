------------------------------- MODULE Lookup -------------------------------
(***************************************************************************)
(* Iterative Kademlia lookup (dhtcore/src/Lookup.cpp).                     *)
(*                                                                         *)
(* Nodes are numbered by their distance to the target, the order in which  *)
(* m_candidates is kept, so a candidate is its number and the vector is    *)
(* the function st.  Only nodes addCandidate() would take are numbered:    *)
(* not ourselves, of our family, with a usable address.                    *)
(*                                                                         *)
(* Queries go through RpcManager, which runs each callback once and never  *)
(* from inside the call (RpcManager.tla), so every handler is one action.  *)
(***************************************************************************)
EXTENDS Integers, Sequences, FiniteSets

CONSTANTS
    N,               \* nodes in reach of the lookup
    K,               \* Lookup::K
    Alpha,           \* Lookup::Alpha
    MaxOutstanding,  \* Lookup::MaxOutstanding
    MaxCandidates,   \* Lookup::MaxCandidates
    MaxQueries,      \* Lookup::MaxQueries
    HoldsOld,        \* nodes that hold an early version of the item looked for
    HoldsNew,        \* nodes that hold the latest
    MaxFound         \* bound: nodes one reply refers us to

ASSUME LookupAssumption ==
    /\ N \in Nat /\ K \in Nat \ {0} /\ Alpha \in Nat \ {0} /\ MaxFound \in Nat
    /\ MaxOutstanding \in Nat \ {0} /\ MaxCandidates \in Nat /\ MaxQueries \in Nat
    /\ HoldsOld \cup HoldsNew \subseteq 1..N

Nodes == 1..N

VARIABLES
    st,           \* what is known of each node, in order of distance
    inFlight,     \* m_inFlight
    outstanding,  \* m_outstanding
    queries,      \* m_queries
    clock,        \* nodes in flight whose query has left, oldest first
    slowTimer,    \* m_slowTimer.isActive()
    started,      \* m_started
    finished,     \* m_finished
    item,         \* m_itemFound, m_itemSequence: 0 none yet, 1 the early version, 2 the latest
    result        \* what m_onDone was called with

vars == <<st, inFlight, outstanding, queries, clock, slowTimer, started, finished, item, result>>

\* unseen: not in m_seen; trimmed: in m_seen but no longer a candidate.
Awaited == {"InFlight", "Slow"}
Settled == {"Responded", "Failed"}
States  == {"unseen", "trimmed", "New"} \cup Awaited \cup Settled

In(f, S) == {n \in Nodes : f[n] \in S}

\* How many nodes of S are closer than n.
Closer(S, n) == Cardinality({m \in S : m < n})

Init ==
    /\ st = [n \in Nodes |-> "unseen"]
    /\ inFlight = 0 /\ outstanding = 0 /\ queries = 0
    /\ clock = <<>> /\ slowTimer = FALSE
    /\ started = FALSE /\ finished = FALSE
    /\ item = 0 /\ result = [closest |-> {}, item |-> 0]

-----------------------------------------------------------------------------
(* Candidates                                                              *)

\* Mutant: the far end is trimmed whatever is known of it.
InsertTrimsAny(f, found) ==
    LET pool == {n \in found : f[n] = "unseen"} \cup In(f, {"New"} \cup Awaited \cup Settled)
        kept == {n \in pool : Closer(pool, n) < MaxCandidates}
    IN  [n \in Nodes |-> IF n \notin pool THEN f[n]
                         ELSE IF n \notin kept THEN "trimmed"
                         ELSE IF f[n] = "unseen" THEN "New" ELSE f[n]]

\* addCandidate() for each node of found: the unseen ones are candidates, and the
\* far end is trimmed to MaxCandidates, sparing whatever has been asked.
Insert(f, found) ==
    LET pool == {n \in found : f[n] = "unseen"} \cup In(f, {"New"})
        asked == Cardinality(In(f, Awaited \cup Settled))
        kept == {n \in pool : Closer(pool, n) + asked < MaxCandidates}
    IN  [n \in Nodes |-> IF n \in kept THEN "New"
                         ELSE IF n \in pool THEN "trimmed" ELSE f[n]]

-----------------------------------------------------------------------------
(* step()                                                                  *)

Least(x, y) == IF x <= y THEN x ELSE y

\* How many queries may go out now.
Room(inF, out, asked) ==
    Least(Least(Alpha - inF, MaxOutstanding - out), MaxQueries - asked)

\* The candidates a step sends to: the closest new ones that have fewer than K
\* responders ahead of them, as many as there is room for.
ToSend(f, room) ==
    {n \in In(f, {"New"}) : Closer(In(f, {"New"}), n) < room
                            /\ Closer(In(f, {"Responded"}), n) < K}

\* Mutant: responders are counted without looking what is still awaited.
CanFinishEarly(f, out, asked) ==
    \/ Cardinality(In(f, {"Responded"})) >= K
    \/ out = 0 /\ (asked >= MaxQueries \/ In(f, {"New"}) = {})

\* canFinish(): nothing awaited is ahead of the K-th responder, or there are
\* fewer than K and nothing is left to wait for or to ask.
CanFinish(f, out, asked) ==
    LET responded == In(f, {"Responded"}) IN
    /\ \A n \in In(f, Awaited) : Closer(responded, n) >= K
    /\ \/ Cardinality(responded) >= K
       \/ out = 0 /\ (asked >= MaxQueries \/ In(f, {"New"}) = {})

TimerAfter(done, timer, out) == ~done /\ (timer \/ out > 0)

\* finish(): the K closest that answered, and the item.
Result(f, best) ==
    [closest |-> {n \in In(f, {"Responded"}) : Closer(In(f, {"Responded"}), n) < K}, item |-> best]

\* step() from candidates f and counters inF and out: mark and send, start the
\* slow timer while anything is awaited, and finish if that is all.
step(f, inF, out, timer) ==
    LET sending == ToSend(f, Room(inF, out, queries))
        more == Cardinality(sending)
        g == [n \in Nodes |-> IF n \in sending THEN "InFlight" ELSE f[n]]
        done == CanFinish(g, out + more, queries + more)
    IN
    /\ st' = g
    /\ inFlight' = inF + more /\ outstanding' = out + more /\ queries' = queries + more
    /\ finished' = done
    /\ slowTimer' = TimerAfter(done, timer, out + more)
    /\ result' = IF done THEN Result(g, item') ELSE result

-----------------------------------------------------------------------------
(* Handlers                                                                *)

\* A caller offers a node: a seed, or one a bootstrap router referred us to.
addCandidate(n) ==
    /\ ~finished /\ st[n] = "unseen"
    /\ UNCHANGED <<clock, started, item>>
    /\ \/ /\ started
          /\ step(Insert(st, {n}), inFlight, outstanding, slowTimer)
       \/ /\ ~started
          /\ st' = Insert(st, {n})
          /\ UNCHANGED <<inFlight, outstanding, queries, slowTimer, finished, result>>

start ==
    /\ ~started
    /\ started' = TRUE
    /\ UNCHANGED <<clock, item>>
    /\ step(st, inFlight, outstanding, slowTimer)

Left(n) == \E i \in 1..Len(clock) : clock[i] = n

\* The query to n leaves, at once or after waiting for the host's allowance.
onSent(n) ==
    /\ ~finished /\ st[n] = "InFlight" /\ ~Left(n)
    /\ clock' = Append(clock, n)
    /\ UNCHANGED <<st, inFlight, outstanding, queries, slowTimer, started, finished, item, result>>

\* A slow query no longer holds one of the Alpha slots.
FreedSlots(overdue) == inFlight - Cardinality(overdue)

\* checkSlow() when the oldest k queries in flight are overdue.
checkSlow(k) ==
    LET overdue == {clock[i] : i \in 1..k}
        f == [n \in Nodes |-> IF n \in overdue THEN "Slow" ELSE st[n]]
        freed == FreedSlots(overdue)
    IN
    /\ ~finished /\ slowTimer
    /\ UNCHANGED <<started, item>>
    /\ clock' = SubSeq(clock, k + 1, Len(clock))
    /\ \/ /\ k > 0
          /\ step(f, freed, outstanding, freed > 0)
       \/ /\ k = 0
          /\ slowTimer' = (inFlight > 0)
          /\ UNCHANGED <<st, inFlight, outstanding, queries, finished, result>>

\* What onReply() does before it looks at the answer.
Release(n, outcome) ==
    [f   |-> [st EXCEPT ![n] = outcome],
     inF |-> IF st[n] = "InFlight" THEN inFlight - 1 ELSE inFlight,
     out |-> outstanding - 1]

\* n is no longer among the queries that may become slow.
Forget(n) ==
    \/ \E i \in 1..Len(clock) :
         /\ clock[i] = n
         /\ clock' = [j \in 1..(Len(clock) - 1) |-> clock[IF j < i THEN j ELSE j + 1]]
    \/ ~Left(n) /\ UNCHANGED clock

\* collectItem(): what n holds replaces an earlier version; a value that is not the
\* item's, or whose signature fails, is none.
collectItem(n) ==
    LET version == IF n \in HoldsNew THEN 2 ELSE IF n \in HoldsOld THEN 1 ELSE 0
    IN IF version <= item THEN item ELSE version

\* A response, which only a query that left can get: its nodes become candidates
\* in one batch before the next step.
onResponse(n, found) ==
    LET r == Release(n, "Responded") IN
    /\ ~finished /\ st[n] \in Awaited /\ (Left(n) \/ st[n] = "Slow")
    /\ item' = collectItem(n)
    /\ step(Insert(r.f, found), r.inF, r.out, slowTimer)
    /\ Forget(n) /\ UNCHANGED started

\* Mutant: a refusal of a query that never left is taken for no answer at all.
onFailureOnceSent(n) ==
    LET r == Release(n, "Failed") IN
    /\ ~finished /\ st[n] \in Awaited /\ (Left(n) \/ st[n] = "Slow")
    /\ item' = item
    /\ step(r.f, r.inF, r.out, slowTimer)
    /\ Forget(n) /\ UNCHANGED started

\* An error, a timeout, or a refusal by RpcManager before it ever left.
onFailure(n) ==
    LET r == Release(n, "Failed") IN
    /\ ~finished /\ st[n] \in Awaited
    /\ item' = item
    /\ step(r.f, r.inF, r.out, slowTimer)
    /\ Forget(n) /\ UNCHANGED started

FoundSets == {S \in SUBSET Nodes : Cardinality(S) <= MaxFound}

onReply(n) == onFailure(n) \/ \E found \in FoundSets : onResponse(n, found)

Next ==
    \/ \E n \in Nodes : addCandidate(n) \/ onSent(n) \/ onReply(n)
    \/ start
    \/ \E k \in 0..Len(clock) : checkSlow(k)

Spec == Init /\ [][Next]_vars

\* RpcManager runs the callback of every query in the end.
FairSpec == Spec /\ \A n \in Nodes : WF_vars(onReply(n))

-----------------------------------------------------------------------------
\* Types.  Among them: no mix of replies and slow promotions gives back a slot
\* twice, which would drive m_inFlight below zero.
TypeOK ==
    /\ st \in [Nodes -> States]
    /\ inFlight \in Nat /\ outstanding \in Nat /\ queries \in Nat
    /\ clock \in Seq(Nodes)
    /\ slowTimer \in BOOLEAN /\ started \in BOOLEAN /\ finished \in BOOLEAN
    /\ item \in 0..2 /\ result \in [closest : SUBSET Nodes, item : 0..2]

\* The counters agree with the candidates whatever mix of replies, promotions
\* and trims occurred, and hold the lookup to Alpha slots and MaxOutstanding
\* queries: a slot lost to a slow query would throttle it for good.  What has been
\* asked is never trimmed, so MaxCandidates caps the queries as well.
SlotsCounted ==
    /\ inFlight = Cardinality(In(st, {"InFlight"})) /\ inFlight <= Alpha
    /\ outstanding = Cardinality(In(st, Awaited)) /\ outstanding <= MaxOutstanding
    /\ queries = Cardinality(In(st, Awaited \cup Settled))
    /\ queries <= Least(MaxQueries, MaxCandidates)

\* A running lookup always has a callback to come: nothing but a reply moves it,
\* so a step that neither sends, waits nor finishes would hang it.
NeverStuck == started /\ ~finished => outstanding > 0

\* The timer that frees the slots of slow queries runs while a slot is taken.
SlotsCanBeFreed == started /\ ~finished /\ inFlight > 0 => slowTimer

\* Once it has reported, a lookup ignores what still comes (onReply() returns), and a
\* slow or queued query may be answered then.  The report holds the closest of all that
\* answered, which is where the writes go, no node still awaited belongs among them, and
\* it has the latest item any answer gave, in whatever order they came.
ReportsBestAnswers ==
    LET responded == In(st, {"Responded"}) IN
    finished =>
        /\ result.closest \subseteq responded
        /\ Cardinality(result.closest) = Least(K, Cardinality(responded))
        /\ \A m \in result.closest, n \in responded \ result.closest : m < n
        /\ \A n \in In(st, Awaited) :
             Cardinality(result.closest) = K /\ \A m \in result.closest : m < n
        /\ \A n \in responded : n \in HoldsNew => result.item = 2
        /\ result.item = 1 => responded \cap HoldsOld # {}

\* "A lookup ends as soon as the eight closest have answered" (NOTES.md:46), "the K closest
\* have answered with nothing closer outstanding, or there is simply nothing left to wait
\* for" (Lookup.h:113): when a lookup reports with queries to spare, every known node that
\* did not fail has answered or has K closer ones that did, or nothing is left.
ClosestHaveAnswered ==
    finished /\ queries < MaxQueries =>
        \/ \A n \in In(st, {"New"} \cup Awaited) : Closer(In(st, {"Responded"}), n) >= K
        \/ outstanding = 0 /\ In(st, {"New"}) = {}

\* Every lookup that was started reports.
EndsEventually == started ~> finished

\* What a running lookup keeps: counters that agree with the candidates, a timer
\* that can free its slots, and a callback that will wake it.
LookupInv == TypeOK /\ SlotsCounted /\ SlotsCanBeFreed /\ NeverStuck
=============================================================================
