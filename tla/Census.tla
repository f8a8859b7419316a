------------------------------ MODULE Census ------------------------------
(***************************************************************************)
(* Census: the precise count.  Slice after slice of the ID space is taken;  *)
(* the nodes inside are asked for others, round after round, until rounds   *)
(* turn up nobody new.  Queries and seeding lookups of a slice that is over *)
(* or was cancelled still come back later.                                  *)
(*                                                                         *)
(* Membership of an ID is relative to the slice in progress: nothing learnt *)
(* about one slice outlives it.  Targets and durations are left out.        *)
(***************************************************************************)
EXTENDS Integers, SequencesExt

CONSTANTS
    Endpoints, Addresses,
    AddressOf, FamilyOf,   \* of an endpoint
    Present,               \* the families that have a node, in the order of the plan
    SliceIds, OtherIds,    \* node IDs inside and outside the slice
    OwnId,                 \* the ID of our own node
    DefaultId,             \* NodeId(), which nobody has
    Unusable,              \* endpoints isUsableRemote() refuses
    CatalogIds,            \* distinct IDs the scan knows at an address
    Slices,                \* config.slices, per family
    MaxOutstanding,        \* config.maxOutstanding
    FailuresToGiveUp,      \* config.failuresToGiveUp
    QuietRoundsToFinish,   \* config.quietRoundsToFinish
    MaxRounds,             \* config.maxRounds
    SeedLookups,           \* lookups that seed a slice
    MaxListed,             \* bound: nodes named by one reply
    MaxCounts              \* bound: counts started

ASSUME CensusAssumption ==
    /\ AddressOf \in [Endpoints -> Addresses] /\ CatalogIds \in [Addresses -> Nat]
    /\ Present \in Seq({"IPv4", "IPv6"}) /\ FamilyOf \in [Endpoints -> {"IPv4", "IPv6"}]
    /\ DefaultId \notin SliceIds \cup OtherIds
    /\ {Slices, MaxOutstanding, FailuresToGiveUp, QuietRoundsToFinish, MaxRounds} \subseteq Nat \ {0}
    /\ {SeedLookups, MaxListed, MaxCounts} \subseteq Nat

VARIABLES
    state,           \* m_state
    plan,            \* m_plan: the families of the slices still to run
    generation,      \* m_generation
    family,          \* m_family
    round,           \* m_round
    quietRounds,     \* m_quietRounds
    newThisRound,    \* m_newThisRound
    nodes,           \* m_nodes
    queue,           \* m_queue
    outstanding,     \* m_outstanding
    pendingLookups,  \* m_pendingLookups
    out,             \* queries and lookups whose callback is still to come
    done,            \* m_done
    counts           \* counts started

slice == <<family, round, quietRounds, newThisRound, nodes, queue>>
vars  == <<state, plan, generation, slice, outstanding, pendingLookups, out, done, counts>>

Ids == SliceIds \cup OtherIds
SliceNode ==
    [listedId : SliceIds, answeredId : SliceIds \cup OtherIds \cup {DefaultId},
     state : {"Waiting", "Asked", "Answered", "Silent"}, failures : 0..FailuresToGiveUp,
     answeredInSlice : BOOLEAN]

\* A node as lists of nodes name it.
Listings == [endpoint : Endpoints, id : Ids]
Lists == UNION {[1..n -> Listings] : n \in 0..MaxListed}

isRunning == state = "Running"
NoNodes == [e \in {} |-> 0]

Init ==
    /\ state = "Idle" /\ plan = <<>> /\ generation = 0
    /\ family = "IPv4" /\ round = 0 /\ quietRounds = 0 /\ newThisRound = 0
    /\ nodes = NoNodes /\ queue = <<>>
    /\ outstanding = 0 /\ pendingLookups = 0 /\ out = {}
    /\ done = <<>> /\ counts = 0

-----------------------------------------------------------------------------
(* The slice in progress, as the record S of the members a handler changes *)

Slice == [family |-> family, round |-> round, quietRounds |-> quietRounds,
          newThisRound |-> newThisRound, nodes |-> nodes, queue |-> queue]

SetSlice(S) ==
    /\ family' = S.family /\ round' = S.round /\ quietRounds' = S.quietRounds
    /\ newThisRound' = S.newThisRound /\ nodes' = S.nodes /\ queue' = S.queue

inSlice(id) == id \in SliceIds

\* consider(): a node of the slice that was not known is put in the queue.
consider(S, l) ==
    IF \/ FamilyOf[l.endpoint] # S.family \/ ~inSlice(l.id)
       \/ l.endpoint \in Unusable \/ l.id = OwnId
       \/ l.endpoint \in DOMAIN S.nodes
    THEN S
    ELSE [S EXCEPT
            !.nodes = [e \in DOMAIN @ \cup {l.endpoint} |->
                         IF e \in DOMAIN @ THEN @[e]
                         ELSE [listedId |-> l.id, answeredId |-> DefaultId, state |-> "Waiting",
                               failures |-> 0, answeredInSlice |-> FALSE]],
            !.newThisRound = @ + 1,
            !.queue = Append(@, l.endpoint)]

\* The nodes of a list, one after the other.
ConsiderAll(S, list) ==
    LET after[k \in 0..Len(list)] == IF k = 0 THEN S ELSE consider(after[k - 1], list[k])
    IN after[Len(list)]

\* Whoever answered is asked again; m_nodes is a hash, so in any order.
Answered(S) == {e \in DOMAIN S.nodes : S.nodes[e].state = "Answered"}

beginRound(S) ==
    [S EXCEPT !.round = @ + 1, !.newThisRound = 0, !.queue = @ \o SetToSeq(Answered(S))]

\* The members startSlice() resets, its first round, and what the catalogue and
\* our routing table name (seedSlice()).
Seeded(f, list) ==
    ConsiderAll(beginRound([family |-> f, round |-> 0, quietRounds |-> 0, newThisRound |-> 0,
                            nodes |-> NoNodes, queue |-> <<>>]), list)

\* Callbacks of the generation in progress.
Current(O) == {q \in O : q.generation = generation}

\* finishAll()
finishAll(end) ==
    /\ state' = end /\ plan' = <<>>
    /\ SetSlice([Slice EXCEPT !.nodes = NoNodes, !.queue = <<>>])
    /\ outstanding' = 0 /\ pendingLookups' = 0
    /\ generation' = generation + 1

Rest(p) == Tail(p)

\* startSlice(): the next of the plan p, or the end of the count.
startSlice(p) ==
    IF p = <<>> THEN finishAll("Done") /\ out' = out
    ELSE \E list \in Lists :
           /\ state' = "Running" /\ plan' = Rest(p)
           /\ SetSlice(Seeded(Head(p), list))
           /\ generation' = generation + 1
           /\ outstanding' = 0 /\ pendingLookups' = SeedLookups
           /\ out' = out \cup {[generation |-> generation', lookup |-> i] : i \in 1..SeedLookups}

-----------------------------------------------------------------------------
(* Operations                                                              *)

\* The plan start() makes.
Plan == FlattenSeq([i \in 1..Len(Present) |-> [k \in 1..Slices |-> Present[i]]])

start ==
    /\ ~isRunning /\ counts < MaxCounts
    /\ counts' = counts + 1 /\ done' = <<>>
    /\ startSlice(Plan)

cancel ==
    /\ isRunning
    /\ finishAll("Cancelled")
    /\ UNCHANGED <<out, done, counts>>

\* ask(): a node that answered in an earlier round stays Answered.
ask(t, e) ==
    [t EXCEPT !.nodes[e].state = IF @ = "Answered" THEN @ ELSE "Asked",
              !.outstanding = @ + 1,
              !.out = @ \cup {[generation |-> generation, to |-> e]}]

\* The loop of tick(): every queued node is looked at once, those on a busy host go
\* to the end.
Dispatched(busy) ==
    LET turn(t) ==
          IF t.outstanding >= MaxOutstanding THEN t
          ELSE LET e == Head(t.queue)
                   rest == [t EXCEPT !.queue = Tail(@)]
               IN IF e \in busy THEN [rest EXCEPT !.queue = Append(@, e)] ELSE ask(rest, e)
        after[k \in 0..Len(queue)] ==
          IF k = 0 THEN [queue |-> queue, nodes |-> nodes, outstanding |-> outstanding, out |-> out]
          ELSE turn(after[k - 1])
    IN after[Len(queue)]

\* Mutant: the seeding lookups are not waited for.
RoundOverEarly(t) == t.queue = <<>> /\ t.outstanding = 0

RoundOver(t) == t.queue = <<>> /\ t.outstanding = 0 /\ pendingLookups = 0

\* countSlice(): everything is counted by address, scaled by the IDs it runs.
countSlice(S) ==
    LET replied == {e \in Answered(S) : S.nodes[e].answeredInSlice}
        idsAt(a) == {S.nodes[e].listedId : e \in {x \in DOMAIN S.nodes : AddressOf[x] = a}}
                      \cup {S.nodes[e].answeredId : e \in {x \in replied : AddressOf[x] = a}}
        heard == {AddressOf[e] : e \in DOMAIN S.nodes}
    IN [family |-> S.family, rounds |-> S.round,
        nodesHeard |-> Cardinality(DOMAIN S.nodes), nodesAnswered |-> Cardinality(replied),
        ipsHeard |-> heard, ipsAnswered |-> {AddressOf[e] : e \in replied},
        ids |-> [a \in heard |-> Max({Cardinality(idsAt(a)), CatalogIds[a]})]]

Finished(S) == S.quietRounds >= QuietRoundsToFinish \/ S.round >= MaxRounds

\* tick(): send what the window allows; a round that is over leads to the next, or
\* to the next slice.
tick(busy) ==
    /\ isRunning
    /\ LET t == Dispatched(busy)
           S == [Slice EXCEPT !.queue = t.queue, !.nodes = t.nodes,
                              !.quietRounds = IF newThisRound = 0 THEN @ + 1 ELSE 0]
       IN \/ /\ ~RoundOver(t)
             /\ SetSlice([Slice EXCEPT !.queue = t.queue, !.nodes = t.nodes])
             /\ outstanding' = t.outstanding /\ out' = t.out
             /\ UNCHANGED <<state, plan, generation, pendingLookups, done>>
          \/ /\ RoundOver(t) /\ ~Finished(S)
             /\ SetSlice(beginRound(S))
             /\ UNCHANGED <<state, plan, generation, outstanding, out, pendingLookups, done>>
          \/ /\ RoundOver(t) /\ Finished(S)
             /\ done' = Append(done, countSlice(S))
             /\ startSlice(plan)
    /\ UNCHANGED counts

-----------------------------------------------------------------------------
(* Callbacks                                                               *)

\* Mutant: an answer of an earlier slice is taken for one of this.
ForThisSliceAny(q) == isRunning

ForThisSlice(q) == q.generation = generation

Returned(q) ==
    /\ out' = out \ {q}
    /\ UNCHANGED <<state, plan, generation, done, counts>>

\* A reply or a lookup that belongs to a slice that is over.
late(q) ==
    /\ q \in out /\ ~ForThisSlice(q)
    /\ Returned(q) /\ UNCHANGED <<slice, outstanding, pendingLookups>>

onSeedLookup(q, list) ==
    /\ q \in out /\ "lookup" \in DOMAIN q /\ ForThisSlice(q)
    /\ pendingLookups' = pendingLookups - 1
    /\ SetSlice(ConsiderAll(Slice, list))
    /\ Returned(q) /\ UNCHANGED outstanding

\* onReply() to a query of this slice: the node's entry becomes n, and it is queued
\* again or not.
onReply(q, n, again) ==
    /\ outstanding' = outstanding - 1
    /\ SetSlice([Slice EXCEPT !.nodes[q.to] = n, !.queue = IF again THEN Append(@, q.to) ELSE @])
    /\ Returned(q) /\ UNCHANGED pendingLookups

IsReplyHere(q) == q \in out /\ "to" \in DOMAIN q /\ ForThisSlice(q) /\ q.to \in DOMAIN nodes

\* Mutant: a node whose query was refused is not asked again.
onThrottledDropped(q) ==
    /\ IsReplyHere(q)
    /\ onReply(q, [nodes[q.to] EXCEPT !.state = IF @ = "Answered" THEN @ ELSE "Waiting"], FALSE)

onThrottled(q) ==
    /\ IsReplyHere(q)
    /\ onReply(q, [nodes[q.to] EXCEPT !.state = IF @ = "Answered" THEN @ ELSE "Waiting"], TRUE)

\* Mutant: timeouts are not counted.
FailuresKept(n) == n.failures

Failures(n) == n.failures + 1

onTimeout(q) ==
    /\ IsReplyHere(q)
    /\ LET n == nodes[q.to]
           givesUp == Failures(n) >= FailuresToGiveUp
       IN IF n.state = "Answered" THEN onReply(q, n, FALSE)
          ELSE onReply(q, [n EXCEPT !.failures = Failures(n),
                                    !.state = IF givesUp THEN "Silent" ELSE "Waiting"], ~givesUp)

\* The entry of a node that answered; an answer without an ID (an error) leaves
\* answeredId as it was.
Heard(n, sender) ==
    IF sender \in Ids
    THEN [n EXCEPT !.state = "Answered", !.failures = 0,
                   !.answeredId = sender, !.answeredInSlice = inSlice(sender)]
    ELSE [n EXCEPT !.state = "Answered", !.failures = 0, !.answeredInSlice = inSlice(n.listedId)]

\* An error, or a response that lists nodes; sender is DefaultId when it gives none.
onAnswer(q, sender, list) ==
    /\ IsReplyHere(q)
    /\ outstanding' = outstanding - 1
    /\ SetSlice(ConsiderAll([Slice EXCEPT !.nodes[q.to] = Heard(@, sender)], list))
    /\ Returned(q) /\ UNCHANGED pendingLookups

Next ==
    \/ start \/ cancel
    \/ \E busy \in SUBSET Endpoints : tick(busy)
    \/ \E q \in out :
         \/ late(q) \/ onThrottled(q) \/ onTimeout(q)
         \/ \E list \in Lists : onSeedLookup(q, list)
         \/ \E sender \in Ids \cup {DefaultId}, list \in Lists : onAnswer(q, sender, list)

\* The query of this slice to e ends in an answer or a timeout.
settled(e) ==
    LET q == [generation |-> generation, to |-> e]
    IN onTimeout(q) \/ \E s \in Ids \cup {DefaultId}, list \in Lists : onAnswer(q, s, list)

\* The timer ticks and a host does not stay busy; a query ends, and not always unsent;
\* lookups end.
Fairness ==
    /\ \A e \in Endpoints :
         /\ SF_vars(\E busy \in SUBSET (Endpoints \ {e}) : tick(busy))
         /\ SF_vars(settled(e))
    /\ WF_vars(\E q \in out, list \in Lists : onSeedLookup(q, list))

Spec == Init /\ [][Next]_vars /\ Fairness

-----------------------------------------------------------------------------
(* Properties                                                              *)

\* Types of the members and of the callbacks under way.
TypeOK ==
    /\ state \in {"Idle", "Running", "Done", "Cancelled"}
    /\ \A e \in DOMAIN nodes : e \in Endpoints /\ nodes[e] \in SliceNode
    /\ ToSet(queue) \subseteq Endpoints
    /\ generation \in Nat /\ round \in 0..MaxRounds
    /\ outstanding \in 0..MaxOutstanding /\ pendingLookups \in 0..SeedLookups

\* m_outstanding and m_pendingLookups, on which the end of a round depends, count exactly
\* the callbacks of this slice that are still to come, whatever comes back late
\* from slices that are over or counts that were cancelled.
CountersExact ==
    /\ outstanding = Cardinality({q \in Current(out) : "to" \in DOMAIN q})
    /\ pendingLookups = Cardinality({q \in Current(out) : "lookup" \in DOMAIN q})

\* While a slice runs, a node that has neither answered nor been given up is in the queue
\* or being asked, once: it cannot be forgotten by a refusal, a timeout or a busy host.
NobodyForgotten ==
    \A e \in DOMAIN nodes :
        LET places == Cardinality({i \in DOMAIN queue : queue[i] = e})
                        + (IF [generation |-> generation, to |-> e] \in out THEN 1 ELSE 0)
        IN /\ places <= 1
           /\ nodes[e].state \in {"Waiting", "Asked"} => places = 1

\* A slice is counted only once everybody found in it has answered or been given up
\* and no lookup can still name more (tick, finishSlice); until then an answer counts: no
\* timeout or refusal of a later round takes it back.
SettledForGood ==
    [][/\ Len(done') > Len(done) =>
            /\ \A e \in DOMAIN nodes : nodes[e].state \in {"Answered", "Silent"}
            /\ Current(out) = {}
       /\ generation' = generation =>
            \A e \in Answered(Slice) : e \in DOMAIN nodes' /\ nodes'[e].state = "Answered"]_vars

\* A slice in which anybody was found ran the quiet rounds after the round that found the
\* last of them, or all the rounds there may be.
QuietBeforeFinish ==
    \A i \in DOMAIN done :
        done[i].nodesHeard > 0 => done[i].rounds >= Min({1 + QuietRoundsToFinish, MaxRounds})

\* What the end of a round and of a slice is decided by.
CensusInv == TypeOK /\ CountersExact /\ QuietBeforeFinish

\* A count that is started is cancelled or ends with every slice planned counted, in the
\* order planned, though queries are refused and unanswered and nodes keep turning up.
CensusEnds ==
    isRunning ~> \/ state = "Cancelled"
                 \/ state = "Done" /\ [i \in DOMAIN done |-> done[i].family] = Plan
=============================================================================
