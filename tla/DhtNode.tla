------------------------------- MODULE DhtNode -------------------------------
(***************************************************************************)
(* One node of the DHT (dhtcore/src/DhtNode.cpp): what it learns from the  *)
(* queries it receives and from the answers to its own, the seeds it joins *)
(* through, and the vote on its external address (ExternalIpVoter in       *)
(* Support.cpp), on top of the routing table.                              *)
(*                                                                         *)
(* Lookups, probes, the crawler and the census may query any endpoint at   *)
(* any time and their sending changes nothing here, so an answer may come  *)
(* from anywhere; only the queries to seeds, whose callbacks are the       *)
(* node's own, are counted.  The clock stands still: ages only decide      *)
(* which cached node is promoted or trimmed (RoutingTable; with equal ages *)
(* any of them), when a vote is the oldest (the order of the votes) and    *)
(* when a verification is forgotten (a choice).  What the handlers answer  *)
(* is in Server and ItemServer.                                            *)
(***************************************************************************)
EXTENDS RoutingTable

CONSTANTS
    RemoteIds,                \* IDs that other nodes answer with
    FirstId,                  \* NodeConfig::nodeId
    IdFor,                    \* the IDs bep42::generate() derives from our possible addresses
    Exempt,                   \* addresses bep42::isExempt() holds of
    SeedEndpoints,            \* endpoints used as seeds
    Nameless,                 \* endpoints that answer without an ID, or as read-only nodes
    MaxAsked,                 \* bound: queries in flight to one seed
    MaxPendingVerifications,  \* DhtNode.cpp
    MinVotes, MaxVoters       \* ExternalIpVoter

ASSUME NodeAssumption ==
    /\ RemoteIds \subseteq Ids /\ FirstId \in Ids /\ Exempt \subseteq DOMAIN IdFor
    /\ \A x \in DOMAIN IdFor : IdFor[x] \in Ids
    /\ SeedEndpoints \cup Nameless \subseteq Endpoints
    /\ {MaxAsked, MaxPendingVerifications, MinVotes, MaxVoters} \subseteq Nat \ {0}

VARIABLES
    seeds,      \* m_seeds: source and state of each
    asked,      \* seed queries whose callback has not run yet
    recent,     \* m_recentVerifications: the endpoints
    votes,      \* m_votes of m_voter, the oldest first
    consensus,  \* m_consensus, as a set of at most one address
    handling    \* the answer onRpcReply() is in the middle of, while the table is re-keyed

seedVars == <<seeds, asked>>
voter    == <<votes, consensus>>
nodeVars == <<vars, recent, seedVars, voter, handling>>

Addresses == DOMAIN IdFor
Sources   == {"Injected", "Bootstrap"}
States    == {"Querying", "Responded", "NoResponse"}

\* An answer, as onRpcReply() looks at it: id is empty when there is none or the node says it
\* is read-only, reported when our address is not in it, and seed says whether the callback
\* is that of addSeed().
Answer == [from : Endpoints \ Nameless, id : {{}} \cup {{i} : i \in RemoteIds},
           reported : {{}} \cup {{x} : x \in Addresses}, seed : BOOLEAN]
     \cup [from : Nameless, id : {{}}, reported : {{x} : x \in Addresses}, seed : {FALSE}]

NodeInit ==
    /\ self = FirstId /\ buckets = <<EmptyBucket>> /\ left = NoneLeft /\ now = 1
    /\ seeds = [e \in {} |-> 0] /\ asked = [e \in SeedEndpoints |-> 0]
    /\ recent = {}
    /\ votes = <<>> /\ consensus = {}
    /\ handling = {}

Free == Idle /\ handling = {}

-----------------------------------------------------------------------------
(* ExternalIpVoter                                                         *)

\* The votes without the i-th.
Without(i) == [j \in 1..(Len(votes) - 1) |-> votes[IF j < i THEN j ELSE j + 1]]

\* addVote(): one vote per address, its latest, the oldest making room.
Voted(ip, reported) ==
    LET mine == {i \in 1..Len(votes) : votes[i].ip = ip}
        others == IF mine = {} THEN votes ELSE Without(CHOOSE i \in mine : TRUE)
        all == Append(others, [ip |-> ip, reported |-> reported])
    IN  IF Len(all) > MaxVoters THEN Tail(all) ELSE all

Tally(vs, x) == Cardinality({i \in 1..Len(vs) : vs[i].reported = x})

\* Mutant: one vote is enough.
WinnersByOne(vs) ==
    {x \in Addresses : Tally(vs, x) + 1 >= MinVotes /\ \A y \in Addresses \ {x} : Tally(vs, x) > 2 * Tally(vs, y)}

\* The address reported often enough, and twice as often as any other.
Winners(vs) ==
    {x \in Addresses : Tally(vs, x) >= MinVotes /\ \A y \in Addresses \ {x} : Tally(vs, x) >= 2 * Tally(vs, y)}

-----------------------------------------------------------------------------
(* Incoming queries                                                        *)

isUsableRemote(e) == e.ip \notin LocalIps

wouldAccept(id) ==
    LET i == bucketIndexFor(id, Len(buckets)) IN
    /\ id # self /\ id \notin IdsOf(buckets[i].nodes)
    /\ HasRoom(buckets[i]) \/ canSplit(i, Len(buckets)) \/ Victims(buckets[i]) # {}

\* queriedBy(): the sender is in the table under this ID.
queriedBy(id, e) == \E i \in Holding(e) : \E n \in buckets[i].nodes : n.ep = e /\ n.id = id

\* Mutant: whoever queries us goes straight into the table.
maybeVerifyTrusting(id, e) ==
    /\ isUsableRemote(e) /\ wouldAccept(id)
    /\ recent' = recent
    /\ heardFrom(id, e)

\* maybeVerify(): a ping to the sender, unless it had one within VerificationWindowMs, which
\* may have passed since.
maybeVerify(id, e) ==
    /\ isUsableRemote(e) /\ wouldAccept(id)
    /\ Cardinality(recent) < MaxPendingVerifications
    /\ recent' = recent \cup {e}
    /\ UNCHANGED vars

\* A query past the limiter and not dropped in read-only mode, from a sender that is not
\* read-only itself.
handleQuery(id, e) ==
    /\ Free
    /\ id # self /\ ~queriedBy(id, e)
    /\ maybeVerify(id, e)
    /\ UNCHANGED <<seedVars, voter, handling>>

\* The part of onMaintenance() that changes state; its pings are answered like any other.
onMaintenance ==
    /\ Free
    /\ \E old \in SUBSET recent : old # {} /\ recent' = recent \ old
    /\ UNCHANGED <<vars, seedVars, voter, handling>>

-----------------------------------------------------------------------------
(* Answers to our queries                                                  *)

isRouter(e) == e \in DOMAIN seeds /\ seeds[e].source = "Bootstrap"

\* The callback of addSeed(); the lookup it starts or feeds is not part of this module.
SeedSettled(e, state) ==
    /\ asked[e] > 0
    /\ asked' = [asked EXCEPT ![e] = @ - 1]
    /\ seeds' = [seeds EXCEPT ![e].state = state]

Callback(r, state) == IF r.seed THEN SeedSettled(r.from, state) ELSE UNCHANGED seedVars

Learnable(r) == r.id # {} /\ r.id # {self} /\ ~isRouter(r.from)

\* The second half of onRpcReply(), and the query's own callback.
Learn(r) ==
    /\ IF Learnable(r) THEN \E id \in r.id : heardFrom(id, r.from) ELSE UNCHANGED vars
    /\ Callback(r, "Responded")

\* Mutant: the ID is kept when our address changes a second time.
AdoptsOnce(x) == x \notin Exempt /\ consensus = {} /\ self # IdFor[x]

\* adoptExternalAddress() takes a new ID.
Adopts(x) == x \notin Exempt /\ self # IdFor[x]

\* onRpcReply() of a response: the vote, and a new ID when it is decisive, then the rest.
onResponse(r) ==
    LET after == IF r.reported = {} THEN votes ELSE Voted(r.from.ip, CHOOSE x \in r.reported : TRUE)
        won == IF r.reported = {} THEN {} ELSE Winners(after) \ consensus
    IN
    /\ Free /\ (r.seed => r.from \in SeedEndpoints /\ asked[r.from] > 0)
    /\ votes' = after
    /\ consensus' = IF won = {} THEN consensus ELSE won
    /\ IF \E x \in won : Adopts(x)
       THEN /\ \E x \in won : rebuild(IdFor[x])
            /\ handling' = {r}
            /\ UNCHANGED seedVars
       ELSE Learn(r) /\ UNCHANGED handling
    /\ UNCHANGED recent

\* The table has been re-keyed and the handler goes on.
resume ==
    /\ Idle
    /\ \E r \in handling : Learn(r)
    /\ handling' = {}
    /\ UNCHANGED <<recent, voter>>

rekey == reinsert /\ UNCHANGED <<recent, seedVars, voter, handling>>

onTimeout(e) ==
    /\ Free /\ failed(e)
    /\ UNCHANGED <<recent, seedVars, voter, handling>>

\* What a seed's callback is told besides a response.
onSeedFailure(e) ==
    /\ Free
    /\ \/ failed(e) /\ SeedSettled(e, "NoResponse")          \* Timeout
       \/ SeedSettled(e, "NoResponse") /\ UNCHANGED vars     \* Throttled
       \/ SeedSettled(e, "Responded") /\ UNCHANGED vars      \* Error
    /\ UNCHANGED <<recent, voter, handling>>

-----------------------------------------------------------------------------
(* Seeds                                                                   *)

\* A seed is a router only if it came from bootstrapping in the first place.
SourceOf(e, source) ==
    IF source = "Injected" \/ e \notin DOMAIN seeds THEN source ELSE seeds[e].source

addSeed(e, source) ==
    /\ Free /\ asked[e] < MaxAsked
    /\ seeds' = [f \in DOMAIN seeds \cup {e} |->
                   IF f = e THEN [source |-> SourceOf(e, source), state |-> "Querying"] ELSE seeds[f]]
    /\ asked' = [asked EXCEPT ![e] = @ + 1]
    /\ UNCHANGED <<vars, recent, voter, handling>>

NodeNext ==
    \/ \E id \in RemoteIds, e \in Endpoints \ Nameless : handleQuery(id, e)
    \/ \E r \in Answer : onResponse(r)
    \/ \E e \in Endpoints \ Nameless : onTimeout(e)
    \/ \E e \in SeedEndpoints : onSeedFailure(e)
    \/ \E e \in SeedEndpoints, source \in Sources : addSeed(e, source)
    \/ resume \/ rekey \/ onMaintenance

NodeSpec == NodeInit /\ [][NodeNext]_nodeVars

-----------------------------------------------------------------------------
(* Properties                                                              *)

\* Everything known of other nodes: the table, its caches, and what is being re-keyed.
Known(bs, l) == InTable(bs) \cup InCache(bs) \cup l.nodes \cup l.cache

\* Types, and the bounds on votes and verifications.
NodeTypeOK ==
    /\ TypeOK
    /\ recent \subseteq Endpoints
    /\ DOMAIN seeds \subseteq SeedEndpoints
    /\ \A e \in DOMAIN seeds : seeds[e] \in [source : Sources, state : States]
    /\ asked \in [SeedEndpoints -> 0..MaxAsked]
    /\ Len(votes) <= MaxVoters /\ consensus \subseteq Addresses
    /\ Cardinality(recent) <= MaxPendingVerifications
    /\ handling \subseteq Answer

\* A seed shown as being queried has a query whose callback is still to come, so it does
\* not stay that way, however the answers to several queries to it overtake each other.
QueryingIsAwaited ==
    \A e \in DOMAIN seeds : seeds[e].state = "Querying" => asked[e] > 0

\* "Nodes that query us only enter the table after answering a ping": whatever is new in the
\* table or a cache is the sender of the answer being handled, under the ID it gave, and has
\* not said that it is read-only; and it is no bootstrap router.
LearnsFromAnswers ==
    [][\A n \in Known(buckets', left') :
         (\A k \in Known(buckets, left) : k.id # n.id \/ k.ep # n.ep) =>
            \E r \in Answer :
               /\ r.from = n.ep /\ r.id = {n.id} /\ ~isRouter(n.ep)
               /\ IF handling = {} THEN onResponse(r) ELSE r \in handling]_nodeVars

\* Our external address changes only when MinVotes different addresses now say so, and twice
\* as many as say anything else, however often a single one repeats or changes its report.
ConsensusIsMajority ==
    [][\A x \in consensus' \ consensus :
         LET sayers(y) == {v.ip : v \in {votes'[i] : i \in {j \in 1..Len(votes') : votes'[j].reported = y}}} IN
         /\ Cardinality(sayers(x)) >= MinVotes
         /\ \A y \in Addresses \ {x} : Cardinality(sayers(x)) >= 2 * Cardinality(sayers(y))]_nodeVars

\* BEP 42: once an address is agreed on, the ID is the one derived from it, through any number
\* of changes of mind.
IdFollowsAddress == \A x \in consensus \ Exempt : self = IdFor[x]

\* No seed is stuck and no ID left behind.
NodeInv == NodeTypeOK /\ QueryingIsAwaited /\ IdFollowsAddress
=============================================================================
