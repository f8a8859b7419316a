---------------------------- MODULE RoutingTable ----------------------------
(***************************************************************************)
(* Kademlia routing table (dhtcore/src/RoutingTable.cpp): k-buckets keyed  *)
(* by the prefix shared with our own ID, each with a cache of              *)
(* replacements.                                                           *)
(*                                                                         *)
(* A bucket's two vectors are sets: which of several bad, oldest or newest *)
(* nodes comes first is left open.  Left out: the version and round-trip   *)
(* time, which are shown only, and the times that tell good nodes from     *)
(* questionable ones and pace pings and refreshes (lastQuery,              *)
(* lastPingSent, lastChanged): no operation here depends on them.          *)
(***************************************************************************)
EXTENDS Integers, Sequences, FiniteSets

CONSTANTS
    Bits,             \* NodeId::Bits
    Ids,              \* node IDs that occur: bit strings, most significant first
    Endpoints,        \* endpoints that occur, each a record with fields ip and port
    LocalIps,         \* addresses isLocalAddress() holds of
    K,                \* RoutingTable::K
    BadFailCount,     \* RoutingTable::BadFailCount
    RemoveFailCount,  \* RoutingTable::RemoveFailCount
    MaxNow            \* bound: how far the clock runs

ASSUME TableAssumption ==
    /\ Bits \in Nat \ {0} /\ K \in Nat \ {0}
    /\ Ids \subseteq [1..Bits -> {0, 1}] /\ Ids # {}
    /\ BadFailCount \in Nat \ {0} /\ RemoveFailCount \in Nat
    /\ BadFailCount <= RemoveFailCount /\ MaxNow \in Nat \ {0}

VARIABLES
    self,     \* m_self
    buckets,  \* m_buckets, the bucket of the longest shared prefix last
    left,     \* while rebuild() runs: what it has still to insert
    now       \* the clock the callers pass

vars == <<self, buckets, left, now>>

Node == [id : Ids, ep : Endpoints, fails : 0..(RemoveFailCount - 1), resp : 1..MaxNow]
Pair == [nodes : SUBSET Node, cache : SUBSET Node]

NoneLeft    == [nodes |-> {}, cache |-> {}]
EmptyBucket == [nodes |-> {}, cache |-> {}]

-----------------------------------------------------------------------------
(* Reading the table                                                       *)

\* How many leading bits two IDs share.
commonPrefixLength(a, b) == Cardinality({n \in 1..Bits : \A i \in 1..n : a[i] = b[i]})

\* The place of an ID sharing c bits with ours in a table of m buckets.
Place(c, m) == IF c < m THEN c + 1 ELSE m
bucketIndexFor(id, m) == Place(commonPrefixLength(self, id), m)

\* stateOf() is Bad; good and questionable nodes are treated alike.
Bad(n) == n.fails >= BadFailCount

InTable(bs) == UNION {bs[i].nodes : i \in 1..Len(bs)}
InCache(bs) == UNION {bs[i].cache : i \in 1..Len(bs)}
IdsOf(S) == {n.id : n \in S}

\* The buckets locate() may answer from: the first that holds the endpoint.
Holding(ep) ==
    {i \in 1..Len(buckets) :
        /\ \E n \in buckets[i].nodes : n.ep = ep
        /\ \A j \in 1..(i - 1) : \A n \in buckets[j].nodes : n.ep # ep}

ipInUse(bs, ip) == \E n \in InTable(bs) : n.ep.ip = ip

-----------------------------------------------------------------------------
(* insert()                                                                *)

\* Mutant: a node sharing exactly the split bucket's prefix moves out with the rest.
SplitToOffByOne(bs, m) ==
    LET last == Len(bs)
        Part(S, i) == {n \in S : Place(commonPrefixLength(self, n.id) + 1, m) = i}
    IN  [i \in 1..m |-> IF i < last THEN bs[i]
                        ELSE [nodes |-> Part(bs[last].nodes, i),
                              cache |-> Part(bs[last].cache, i)]]

\* split() until there are m buckets: each takes the last one apart by prefix.
SplitTo(bs, m) ==
    LET last == Len(bs)
        Part(S, i) == {n \in S : bucketIndexFor(n.id, m) = i}
    IN  [i \in 1..m |-> IF i < last THEN bs[i]
                        ELSE [nodes |-> Part(bs[last].nodes, i),
                              cache |-> Part(bs[last].cache, i)]]

canSplit(index, m) == index = m /\ m < Bits

HasRoom(b) == Cardinality(b.nodes) < K

\* The loop of insert() goes no further with m buckets.
Stops(bs, id, m) ==
    LET index == bucketIndexFor(id, m) IN
    HasRoom(SplitTo(bs, m)[index]) \/ ~canSplit(index, m)

\* Mutant: one failure is enough to make way.
VictimsAfterOne(b) == {n \in b.nodes : n.fails > 0}

\* The nodes a newcomer may take the place of.
Victims(b) == {n \in b.nodes : Bad(n)}

\* rest is the cache without the oldest of more than K.
Trimmed(cache, rest) ==
    IF Cardinality(cache) <= K THEN rest = cache
    ELSE \E o \in cache : rest = cache \ {o} /\ \A n \in cache : o.resp <= n.resp

\* insert(): split while the node's bucket is full and is the last, then add,
\* replace a bad node, or keep for later.  A taken public address is refused.
Insert(bs, node) ==
    \/ /\ node.id = self \/ (node.ep.ip \notin LocalIps /\ ipInUse(bs, node.ep.ip))
       /\ buckets' = bs
    \/ /\ node.id # self
       /\ node.ep.ip \in LocalIps \/ ~ipInUse(bs, node.ep.ip)
       /\ \E m \in Len(bs)..Bits :
            /\ Stops(bs, node.id, m)
            /\ \A j \in Len(bs)..(m - 1) : ~Stops(bs, node.id, j)
            /\ LET split == SplitTo(bs, m)
                   i == bucketIndexFor(node.id, m)
                   b == split[i]
               IN
               \/ /\ HasRoom(b)
                  /\ buckets' = [split EXCEPT ![i].nodes = @ \cup {node}]
               \/ /\ ~HasRoom(b)
                  /\ \E v \in Victims(b) :
                        buckets' = [split EXCEPT ![i].nodes = (@ \ {v}) \cup {node}]
               \/ /\ ~HasRoom(b) /\ Victims(b) = {}
                  /\ \E rest \in SUBSET (b.cache \cup {node}) :
                        /\ Trimmed(b.cache \cup {node}, rest)
                        /\ buckets' = [split EXCEPT ![i].cache = rest]

-----------------------------------------------------------------------------
(* Operations                                                              *)

Idle == left = NoneLeft

\* No cached copy of this node or endpoint is left.
DropStale(bs, id, ep) ==
    [i \in 1..Len(bs) |-> [bs[i] EXCEPT !.cache = {n \in @ : n.ep # ep /\ n.id # id}]]

\* heardFrom() of an ID whose endpoint is not in bs: an established entry of
\* that ID stays as it is unless it is bad, and then moves to the endpoint.
HeardElsewhere(bs, id, ep) ==
    LET i == bucketIndexFor(id, Len(bs))
        held == {n \in bs[i].nodes : n.id = id}
    IN
    \/ \E n \in held : ~Bad(n) /\ buckets' = bs
    \/ \E n \in held :
        /\ Bad(n)
        /\ buckets' = [bs EXCEPT ![i].nodes =
                        (@ \ {n}) \cup {[n EXCEPT !.ep = ep, !.resp = now, !.fails = 0]}]
    \/ /\ held = {}
       /\ Insert(DropStale(bs, id, ep),
                 [id |-> id, ep |-> ep, fails |-> 0, resp |-> now])

\* A node answered one of our queries.  Whoever held its endpoint under
\* another ID has restarted and is forgotten.
heardFrom(id, ep) ==
    /\ Idle /\ id # self
    /\ \/ \E i \in Holding(ep) : \E n \in buckets[i].nodes :
            /\ n.ep = ep /\ n.id = id
            /\ buckets' = [buckets EXCEPT ![i].nodes =
                            (@ \ {n}) \cup {[n EXCEPT !.resp = now, !.fails = 0]}]
       \/ \E i \in Holding(ep) :
            /\ \E n \in buckets[i].nodes : n.ep = ep /\ n.id # id
            /\ HeardElsewhere([buckets EXCEPT ![i].nodes = {n \in @ : n.ep # ep}], id, ep)
       \/ Holding(ep) = {} /\ HeardElsewhere(buckets, id, ep)
    /\ UNCHANGED <<self, left, now>>

\* A node is dropped even if nothing can take its place.
Gone(n) == n.fails >= RemoveFailCount

\* A query to this endpoint timed out.
failed(ep) ==
    /\ Idle
    /\ \/ \E i \in Holding(ep) : \E n \in buckets[i].nodes :
            LET worse == [n EXCEPT !.fails = @ + 1]
                b == buckets[i]
            IN
            /\ n.ep = ep
            /\ \/ /\ ~Bad(worse) \/ (b.cache = {} /\ ~Gone(worse))
                  /\ buckets' = [buckets EXCEPT ![i].nodes = (@ \ {n}) \cup {worse}]
               \/ /\ Bad(worse)
                  /\ \E best \in b.cache :
                        /\ \A c \in b.cache : c.resp <= best.resp
                        /\ buckets' = [buckets EXCEPT ![i].nodes = (@ \ {n}) \cup {best},
                                                      ![i].cache = @ \ {best}]
               \/ /\ Bad(worse) /\ b.cache = {} /\ Gone(worse)
                  /\ buckets' = [buckets EXCEPT ![i].nodes = {m \in @ : m.ep # ep}]
       \/ /\ Holding(ep) = {}
          /\ buckets' = [i \in 1..Len(buckets) |->
                            [buckets[i] EXCEPT !.cache = {n \in @ : n.ep # ep}]]
    /\ UNCHANGED <<self, left, now>>

\* rebuild() around a new own ID, run to its end before anything else: the
\* table is emptied, then every node inserted anew, the cached ones last.
rebuild(newSelf) ==
    /\ Idle /\ newSelf # self
    /\ self' = newSelf
    /\ left' = [nodes |-> InTable(buckets), cache |-> InCache(buckets)]
    /\ buckets' = <<EmptyBucket>>
    /\ UNCHANGED now

reinsert ==
    /\ \/ \E n \in left.nodes :
            Insert(buckets, n) /\ left' = [left EXCEPT !.nodes = @ \ {n}]
       \/ /\ left.nodes = {}
          /\ \E n \in left.cache :
                Insert(buckets, n) /\ left' = [left EXCEPT !.cache = @ \ {n}]
    /\ UNCHANGED <<self, now>>

Tick ==
    /\ Idle /\ now < MaxNow
    /\ now' = now + 1
    /\ UNCHANGED <<self, buckets, left>>

Init ==
    /\ self \in Ids
    /\ buckets = <<EmptyBucket>>
    /\ left = NoneLeft
    /\ now = 1

Next ==
    \/ \E id \in Ids, ep \in Endpoints : heardFrom(id, ep)
    \/ \E ep \in Endpoints : failed(ep)
    \/ \E id \in Ids : rebuild(id)
    \/ reinsert
    \/ Tick

Spec == Init /\ [][Next]_vars

-----------------------------------------------------------------------------
(* Properties                                                              *)

\* Types.  Among them: a node is dropped before its failures in a row reach
\* RemoveFailCount (failed()), and there are never more buckets than bits.
TypeOK ==
    /\ self \in Ids
    /\ buckets \in Seq(Pair) /\ Len(buckets) \in 1..Bits
    /\ left \in Pair
    /\ now \in 1..MaxNow

\* Every node, cached ones included, is in the bucket bucketIndexFor() looks for
\* it in, whatever was split and re-keyed since it was put there; a node of
\* another bucket would be invisible to the search for its ID in heardFrom().
WellPlaced ==
    \A i \in 1..Len(buckets) : \A n \in buckets[i].nodes \cup buckets[i].cache :
        bucketIndexFor(n.id, Len(buckets)) = i

\* An ID has one entry, in the tables, the caches and what rebuild() has yet to
\* insert together, although heardFrom() looks into one bucket only; and none is ours.
OneEntryPerId ==
    LET all == InTable(buckets) \cup InCache(buckets) \cup left.nodes \cup left.cache IN
    /\ \A m, n \in all : m.id = n.id => m = n
    /\ InTable(buckets) \cap InCache(buckets) = {}
    /\ self \notin IdsOf(InTable(buckets) \cup InCache(buckets))

\* No bucket and no cache outgrows K, also when a split moves everything one way.
WithinK ==
    \A i \in 1..Len(buckets) :
        Cardinality(buckets[i].nodes) <= K /\ Cardinality(buckets[i].cache) <= K

\* insert() caches only in a bucket that can no longer be split, so split() never
\* finds a node in the cache of the bucket that covers our own ID.
SplitFindsNoCache == Len(buckets) < Bits => buckets[Len(buckets)].cache = {}

\* A node makes way for another only when it is bad (insert()) or, for one that
\* waited in the cache, becomes bad with the failure just reported (failed()); a
\* node that restarted on the same endpoint is not displaced but forgotten.
OnlyBadDisplaced ==
    [][\A n \in InTable(buckets), m \in InTable(buckets') :
        ( /\ n.id \notin IdsOf(InTable(buckets'))
          /\ m.id \notin IdsOf(InTable(buckets))
          /\ m.ep # n.ep )
        => Bad(n) \/ (m \in InCache(buckets) /\ n.fails + 1 >= BadFailCount)]_vars

\* The table is one that heardFrom() can search and insert() can split: every ID
\* has one entry, where it is looked for, within the bounds.
TableInv == TypeOK /\ WellPlaced /\ OneEntryPerId /\ WithinK /\ SplitFindsNoCache
=============================================================================
