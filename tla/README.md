# DHT Inspector: TLA+ models, checks and proofs

DHT Inspector is a BitTorrent DHT node with a measuring instrument on top of
it. Its engine, `dhtcore`, runs on one thread of its own under the Qt event
loop; a QML front end talks to it through queued signals. This directory holds
TLA+ models of the engine's parts, TLC configurations that check them on small
instances, and TLAPS proofs of the properties that matter most.

Line numbers refer to the repository's `dhtcore/src` and
`dhtcore/include/dhtcore` unless another directory is named. `PROJECT.json`
maps every definition that models code to the lines it stands for.

## Inventory

| Component | State | Operations | Talks to |
|---|---|---|---|
| `RpcManager` | outstanding queries by 2-byte id, a queue per host, the order hosts are served in, the drain timer, the budget flag | `query`, `drain`, `handleReply`, `expire`, `cancelAll` | socket (`m_send`), `RateLimiter`, `ContactBudget`, callbacks of every caller |
| `RateLimiter` | a token bucket per address | `allow`, `prune` | `RpcManager` (outgoing), `DhtNode` (incoming) |
| `ContactBudget` | balance, endpoints written to within 3 minutes | `allows`, `record`, `setLimit`, `prune` | shared by the `RpcManager`s of both families |
| `TokenManager` | two secrets and the time of the last rotation | `generate`, `validate` | `DhtNode` query handlers |
| `Lookup` | candidates by distance, slot counters, slow timer | `addCandidate`, `start`, `step`, `onSent`, `checkSlow`, `onReply` | `RpcManager` through `DhtNode::sendQuery` |
| `RoutingTable` | buckets with replacement caches, own ID | `heardFrom`, `failed`, `rebuild`, `queriedBy`, `markPinged`, `touchBucket` | `DhtNode` |
| `DhtNode` | socket, seeds, announce/put counters, ID, external address | query handlers, `onRpcReply`, maintenance, verification | all of the above, one per address family |
| `PeerStorage`, `ItemStorage` | peers by infohash, BEP 44 items, counters | `announce`, `putImmutable`, `putMutable`, `expire` | `DhtNode`, shared by both families |
| `ExternalIpVoter` | one vote per address | `addVote` | `DhtNode`, which then changes its ID |
| `PortMapper`, `UpnpIgd` | protocol in use, retry and renew timers, mapping | `start`, `stop`, replies, timers | gateway |
| `NodeCatalog` | 80-byte entries, hash index, generations, counts | `observe`, updates, eviction | `Crawler`, statistics |
| `Crawler` | queues of a round, outstanding queries, feature checks | ticks, replies | `NodeCatalog`, `DhtNode` |
| `Census` | slices, rounds, outstanding queries | ticks, replies | `DhtNode` |
| `DhtEngine` | both nodes, searches, publishing, probes | joins over both families, snapshots, shutdown | everything below, `DhtController` |
| `DhtController` | engine thread, generation, requests in flight | start, stop, user commands, queued results | `DhtEngine`, QML |
| codecs, IDs, statistics, models, pages | none or derived | pure functions, presentation | |

What is hard about it, and hard to test:

- **Callbacks.** Every query ends in a callback, run by a reply, by `expire()`,
  or by a posted event when it was never sent. Callbacks issue more queries and
  may close the node while the loop that runs them is half way.
- **Waiting.** A query waits for its host's allowance, for the contact
  allowance and for a free id, and its timeout starts only when it leaves.
- **Ordering.** Replies come in any order, late, or not at all; a node restarts
  under another ID, moves to another port, or sits in a cache while its entry
  changes.
- **Time.** Token rotation, bucket refill and expiry happen lazily, when
  somebody asks, so a quiet spell reaches states a test with a steady clock does
  not.
- **Threads.** The interface posts commands to the engine's thread and gets
  signals back through its own queue; stopping waits for the other thread, and
  signals of an engine that is gone are still queued.
- **Reuse.** Slots of the catalogue, ids of queries, slices of a count and
  engines are replaced while references to the old ones are under way; each has
  a generation number to tell them apart.
- **Limits.** Ids, queues, buckets, caches, candidates and queries are all
  bounded, each in its own place.

What makes each part correct: no query is lost or called back twice and none
times out early (`RpcManager`); no host is sent more than its limit in any
window (`RateLimiter`); a token is good in its holder's hands for a period at
least and never for three (`TokenManager`); a lookup never hangs, never leaks a
slot, and reports the closest and the latest that anybody answered (`Lookup`); an ID has one entry, where searches look for it, and a
working node is never displaced (`RoutingTable`); a forwarded port that is shown
exists and is kept alive (`PortMapper`); only holders of tokens get stored
(`Server`); a writer never overwrites what it has not read (`ItemServer`); no
node drops out of the scan or is in it twice, and no answer is booked on another
node (`Crawler`); a count ends, with everyone it found settled (`Census`); only
nodes that answered enter the table and the ID follows the address (`DhtNode`); a
page waits only for what will come and shows only what belongs to the engine that
runs (`DhtController`). `PROJECT.json` lists the
hazards with their lines under `hazards`.

## Modules

| Module | Models | Checked by |
|---|---|---|
| `Clock` | who asks and the clock, shared by `TokenManager` and `RateLimiter` | their runs |
| `TokenManager` | `TokenManager` (Support.cpp 45-76) | `server`, `token_window`, `ServerProofs` |
| `HostAllowance` | what the rate limit promises: a credit that grows with the clock | abstract side of `item_server`, `ServerProofs` |
| `RateLimiter` | `RateLimiter` (Support.cpp 343-356, 425-430) | `item_server`, `ServerProofs` |
| `RpcManager`, `MCRpcManager` | `RpcManager` with the contact allowance | `rpc`, `RpcManagerProofs` |
| `Lookup` | `Lookup` | `lookup`, `lookup_closest`, `LookupProofs` |
| `RoutingTable` | `RoutingTable` | `node`, `DhtNodeProofs` |
| `Server` | `get_peers` and `announce_peer` of `DhtNode` (DhtNode.cpp 247-288) with `TokenManager` and `PeerStorage` (Support.cpp 80-147) | `server`, `ServerProofs` |
| `PortMapper` | `PortMapper` and the `UpnpIgd` it falls back to | `port_mapper`, `natpmp_abandoned`, `PortMapperProofs` |
| `ItemServer` | `get` and `put` of `DhtNode` behind the rate limit, with `ItemStorage` (Support.cpp 149-306); extends `RateLimiter` | `item_server`, `ServerProofs` |
| `DhtNode`, `MCDhtNode` | what `DhtNode` learns from queries and answers, seeds, verification, `ExternalIpVoter`; extends `RoutingTable` | `node`, `DhtNodeProofs` |
| `NodeCatalog` | `NodeCatalog` as operators on a catalogue | `crawler`, `CrawlerProofs` |
| `Crawler`, `MCCrawler` | `Crawler`; extends `NodeCatalog` | `crawler`, `CrawlerProofs` |
| `Census`, `MCCensus` | `Census` | `census`, `CensusProofs` |
| `DhtEngine` | `DhtEngine` on its thread: commands, jobs over both families, signals | `controller`, `DhtControllerProofs` |
| `DhtController` | `DhtController` (src/DhtController.cpp) composed with `DhtEngine` | `controller`, `DhtControllerProofs` |

Operators called "Mutant" in a comment are deliberately wrong variants of the
definition that follows them. They are not used by the specifications; each
shows that some property notices the mistake.

### TokenManager

A secret is a serial number, since eight fresh random bytes do not repeat, and
a token is the pair of a secret and an address (SHA-1 is taken to be collision
free). `generate` and `validate` both begin with `rotateIfNeeded`, as in the
code, and the clock jumps by any amount between calls. `issued` remembers what
was handed out and when; `verdict` holds the last answer of `validate`.

### RateLimiter and HostAllowance

Tokens are counted in milliseconds of credit, so a rate of two a second is a
cost of 500 and the code's doubles become integers. A bucket exists only for
addresses that have been asked about and not pruned. `spent[a][s]` is a history
variable: what was granted to `a` at or after instant `s`. `HostAllowance` has
no buckets, only a credit; `RateLimiter` implements it with
`credit[a] <- Refilled(a)`.

### RpcManager

One action is one event-loop handler, except where other code can run in
between or time matters: `drain()` is one step per host (no other handler
interleaves, since sending only writes a datagram), `expire()` one step per
callback, between which callbacks may call `query()` or close the node, and
`query()` and `drain()` hand a query that has passed their checks to a step of
`send()` (`sending`). A datagram may be accepted or refused by the OS. `live` is
the set of queries whose callback is still to run.

Time is relative: a countdown per outstanding query, a countdown per recently
contacted endpoint, and credits that grow with `Tick`; `RateLimiter` is what
justifies the credit. The clock moves on inside handlers too, because the code
reads it more than once: `query()` and a pass of `drain()` check the host limit,
the window of the endpoint and the balance with the reading they began with
(RpcManager.cpp 56, 149), and `send()` charges with one of its own (108), by which
`record()` decides afresh whether the endpoint is live. While a handler runs,
`credit` and `recent` are as of its reading, `elapsed` is how far the clock has
moved on since and `refilled` how much of that the balance has had already;
`Return` lets the rest count for the next handler. An endpoint whose three minutes
lapse in between is taken for live and then charged, so the balance can go
below zero. `AllowanceKept` says that nothing else overdraws it: `drain()` relies
on each send being charged before the next check (151-153), and a query the check
took for a new contact is always paid for.

Not modelled: changing limits while running, statistics counters, the read-only
flag, the contents of messages.

### Lookup

Nodes are numbered by distance to the target, which is the order of
`m_candidates`, so the vector is a function from numbers to what is known of
the node. `step` is an operator on the candidates and counters, used by each
handler as the code does. A query leaves (`onSent`) some time after the step
that marked it, or is refused before that. `clock` orders the queries that have
left, so `checkSlow(k)` promotes the oldest `k`. Each node holds no item, an early
version or the latest (`HoldsOld`, `HoldsNew`); `collectItem` keeps the best and
`result` is what `finish()` reports. Peers, sightings and tokens are left out:
nothing in the search depends on them.

### RoutingTable

IDs are bit strings; `commonPrefixLength` is the code's, on bits. A bucket is a
pair of sets, so where the code takes the first bad, the oldest or the newest
of several the model allows any. `insert()` splits in a loop; `Insert` says in
one step how many buckets there are when the loop stops, and `SplitTo` what
that many splits produce. `rebuild()` empties the table and then inserts one
node per `reinsert` step. Good and questionable nodes are not told apart: only
pings and refreshes depend on the difference.

### Server

`Server` extends `TokenManager` with the handlers that use it and the storage
behind them. A query dropped by the rate limit, by read-only mode or for a
missing ID or infohash changes neither tokens nor storage, so it is no step.
All peers of all infohashes are one set of announcements `[infohash, peer, at]`,
and `lastAnnounce` is a function on the infohashes held. Where the code takes
the first of several equally old entries of a hash table the model allows any.
Whoever announces may present any token that was ever issued, from any address.

### PortMapper

`m` is the mapper, `u` its UPnP client, `wire` how many PCP and NAT-PMP requests
the gateway may still answer on the current socket, and `granted` what it
forwards for us. Retry, renewal and search timers are Booleans and fire in any
order, and an answer may come after the mapper has moved on, so every handler is
met in every state that allows it. `UpnpIgd::cancel` aborts a reply after
raising `m_generation`, so its handler does nothing; the model drops the reply.
`UpnpIgd` calls back through signals delivered in the same handler, which is why
`upnpFail` and `upnpMapped` change both objects. A gateway that lets a lease
lapse, the address it reports, and the parsing of its answers are left out.

### ItemServer

Every query passes `allow()` first, so a client behind the limit is met with its
reads and writes spread over time. A value is named by the client that wrote it;
`read` remembers what a client last read of an item and whether somebody has
written since, which is what `NoLostUpdate` is about. The checks that end in an
error answer (size, salt, key, token, signature) change nothing and are one
choice. `makeRoom()` drops the oldest over both maps, any of several equally old.
`expireItems` is `ItemStorage::expire()`.

### DhtNode

`handleQuery`, `onResponse`, `onTimeout` and `onSeedFailure` are what the query
handlers, `onRpcReply()` and the callback of a seed learn; `resume` and `rekey` are
the rest of an answer that changed the ID. `addSeed` comes from the user
(Injected) or from resolved bootstrap names (Bootstrap). `votes` is the order of `m_votes`. A vote that
changes the consensus changes the ID in the middle of `onRpcReply`: `handling`
holds the answer while `rebuild()` inserts the old nodes one by one, then the
sender goes into the new table, as in the code. `asked` counts the queries to a
seed whose callbacks are still to come. Pings, bucket refresh and the lookups a
new ID starts only send queries, whose answers may come from anywhere anyway.

### NodeCatalog and Crawler

A catalogue is a record: slots with generations, the open-addressing index with
its probe sequences and backward-shift deletion, the cap and the counts. Its
operations are operators, so that a handler that learns several nodes passes
the catalogue along; where the code draws a random victim an operator returns
the set of results. `pickVictim()` takes the worst of a small catalogue; in a large
one it draws with replacement, so that its sample may come down to any one slot in
use, and scans everything when it drew none: any slot in use may go (`Victims`).
`Crawler` has the five queues of the rounds, the queue of feature checks and the
queries in flight, each a reference (slot, generation) as in the code. `tick()` is one step made of its loops: deferred nodes, due nodes,
feature checks and trimming. Whether a node is due and whether its host is busy
is chosen. `alive` is a history variable: who has really answered. A loop of the
code is a recursive function of the number of its turns (`after`, `walk`), each
turn an operator of its own (`DeferredTurn`, `FeatureTurn`, `PulledBack`), so that it can be
reasoned about. An index has two positions at least (the code starts with 1024):
it is grown when more than half of it would be taken, which in an index of one
position would leave none free for a probe to stop at.

### Census

A slice is a record that the operators pass along, as the members are changed
by `tick`, `consider` and the callbacks in the code. IDs are inside or outside the
slice. Queries and seeding lookups carry the generation they were issued in;
`late` is the early return of their callbacks. The estimate computed from the
counts is arithmetic on reals and left out.

### DhtEngine and DhtController

`commands` is the queue of calls posted to the engine's thread, `jobs` the
operations with callbacks pending on one or both families, `signals` the queue
back. A job keeps what the code's shared join object keeps: how many parts
remain, what was found, how many writes are out. Writes start when the lookup of
that family is done (`put`, `announce`). The controller has one action per call
the pages can make, with the guards of the pages' buttons where the code relies
on them, and one per signal, each with the comparison of generations.
`startEngine` runs the engine's `start` while the interface waits and may find
that the first socket, or only the second, cannot be bound. `stopEngine` raises
the generation and blocks until `shutdown` has run behind the commands posted
before; `stopping` is that wait. `wanted` and `answered` are history variables
that number requests.

## Runs

| Run | Bounds | What it shows |
|---|---|---|
| `rpc` | 3 queries, 3 endpoints on 2 hosts, 3 ids, 2 outstanding, queues of 2 for one host and in all, a contact limit of one at a time or none, window of a tick, one tick inside a handler | each query has one owner, lists agree, limits hold, the allowance is overdrawn only as described, nothing expires early; every query ends |
| `lookup` | 5 nodes, K = 2, Alpha = 2, 3 outstanding, 4 candidates, 3 queries | counters agree, never stuck, ends, with the closest and the latest |
| `lookup_closest` (violation) | as above, 5 candidates and 5 queries | ends with a closer node known and not asked |
| `server` | 2 addresses with 2 ports, rotation every 2 ticks, clock to 6, 2 tokens, 2 infohashes of which 1 fits, 2 of 4 peers fit, peers live 2 ticks | token lifetimes; only holders get stored; the count is exact |
| `token_window` (violation) | 2 addresses, rotation every 3 ticks, clock to 8, 2 tokens | a holder refused before two periods are over |
| `port_mapper` | 2 ports, 2 retries, 2 searches, 2 devices, 2 services, 1 conflict retry, 2 answers on the way, 2 starts | what is shown was granted and is kept alive; both objects agree; nothing runs when off; discovery ends |
| `natpmp_abandoned` (violation) | as above | NAT-PMP given up for an answer to PCP |
| `item_server` | 2 clients, cost 2 and burst 3, clock to 4, 2 immutable and 1 mutable target, 2 sequence numbers, 2 items fit, items live 2 ticks | compare-and-swap, sequence numbers, what is dropped; no window grants more than burst plus earnings; refinement of `HostAllowance` |
| `node` | four 3-bit IDs of which 2 are other nodes', 3 endpoints (1 local, 1 public, 1 that answers without an ID), K = 1, bad after 2 failures, gone after 3, 2 external addresses, 2 votes decide, 2 voters kept, 2 queries to a seed | placement, uniqueness, bounds, who may be displaced, who enters the table, seeds, vote and ID |
| `crawler` | 3 endpoints of which 2 collide in the index and 1 is unroutable, caps of 1 and 2, index of 2 that grows, 1 check with 2 tries, 2 generations | rounds, checks, answers after eviction, phase, index and counts |
| `census` | 3 nodes at 2 addresses of 2 families, 1 slice each, 2 rounds, 2 failures, 1 seeding lookup, 2 counts | nobody forgotten, counted when settled, late answers harmless; every count ends |
| `controller` | 2 calls of the user beside starts and stops, 3 generations, 1 snapshot queued, 2 pages, 2 filters, 1 write | busy flags, stale signals, node list, settings and ID; every wait ends |

Why the bounds are enough: each limit of the code is present at a size that the
run reaches (full queues beside a host that is free, ids that wrap and are
recycled while others are outstanding, a lookup that runs into each of its four
limits, a bucket that is full with a full cache, and a table that splits to its
last bit), and the clock runs past every period at least twice. With K = 1 a
bucket is full with one node, which is the boundary every decision of
`insert()` is about.

What a run does not reach is left to the proofs, which have no bounds. In `rpc`
the limit of one host is also the total, so a host refused while another has room
is only in `LimitsSafety`; and no time passes inside a handler while the balance
is below zero (`MaxDebt`), which bounds how far a run of overdrafts can go and is
any number in `AllowanceSafety`. In `node` two other nodes' IDs are known, there is
one local port and the ages of entries stay equal, which lets every choice among
them happen; more IDs, ports and ages are in `TableSafety` and
`NoGoodNodeDisplaced`. `port_mapper` lets two answers be on the way at a time, so
that a refusal can follow a grant while the renewal timer runs: left over at the
next protocol, that timer starts its retries again. In `crawler` a catalogue of one
slot is scanned and one of two is sampled (`ScanAll`).

Deadlock is checked except where the model may really stop: a lookup or a count
that has finished, a mapper that has failed or was stopped for the last time, a
clock or a number of user calls at its bound (`lookup`, `census`, `port_mapper`,
`item_server`, `controller`).

### Fairness

`rpc` assumes (for `EveryQueryEnds` only) that time passes, that a handler
which has begun runs to its end, and that the event loop neglects neither a
timer nor a posted event however often other handlers run. The latter is strong
fairness: `pc` is busy whenever another handler runs, so a handler is enabled
again and again rather than continuously, and Qt's event loop serves expired
timers and posted events in each of its turns. Nothing is assumed of replies, of
callers or of the operating system. `lookup` assumes only that the callback of
each query is run in the end, which is what `EveryQueryEnds` establishes of
`RpcManager` without a contact limit (`limited` is chosen once, at the start).

`port_mapper` assumes that a timer that was started fires and that an HTTP
request finishes, which its transfer timeout guarantees. Nothing is assumed of
the gateway.

`census` assumes of each endpoint that a query to it ends in an answer or a
timeout if it is sent again and again, and that the timer keeps ticking at
moments when its host is not busy; both are strong fairness, since other hosts'
events come between. A query that was refused is put back, so without the first
assumption refusals for ever would hold a round open, in the code too; the drain
of `RpcManager` is what ends them. Seeding lookups end by `EndsEventually`.
`controller` assumes that both event loops run what is queued, that the callback
of every query is run (`EveryQueryEnds`) and that the resolver answers. Nothing
is assumed of the user, of timers that make snapshots, or of the thread that
writes an export.

## Findings

The runs marked as violations check what the documents and comments of the
repository say and find that the code does otherwise; `PROJECT.json` quotes the
lines.

- **`natpmp_abandoned`.** A gateway that speaks only NAT-PMP answers each
  retransmitted PCP request; the second answer arrives when the mapper is
  already at NAT-PMP and is read as a refusal of the mapping.
- **`lookup_closest`.** `canFinish()` passes over candidates that have not been
  asked. Nodes 1, 3 and 4 are known, 1 answers naming 5, 3 turns slow, and 4 and 5
  hold both slots when 3 answers at last and names 2: the lookup has its two
  answers, nothing awaited is closer, and it ends without asking 2. NOTES.md:46
  and Lookup.h:113-114 say that it ends when the closest have answered. What does
  hold is in `ReportsBestAnswers`.
- **`token_window`.** Secrets rotate when somebody asks. A token issued just after a
  rotation is refused to its holder once two quiet periods have passed since that
  rotation, although it is younger than that; and where rotations come late one is
  accepted for just under three periods. Support.h:19-21 speaks of a ten-minute
  window, and the test of that name asks once in each period. What does hold is
  in `TokensLast`: at least one period, less than three.

Noticed while modelling, and not stated as properties:

- The contact allowance can be overdrawn by an endpoint whose window lapses between
  check and charge (see RpcManager above); the next contacts wait longer for it.
- `drain()` rotates `m_order` by a full turn in every pass, so with the contact
  limit on the host in front stays in front and can take each new contact;
  NOTES.md:60-62 says that none is starved. `EveryQueryEnds` is without the limit.
- `Lookup::MaxQueries` (150) cannot be reached, because nothing that was asked is
  ever trimmed and `MaxCandidates` is 100.
- An entry that moves to another endpoint, and a cached node that is promoted, are
  not held to one node per public address (RoutingTable.cpp:65, NOTES.md:35). Two
  entries can share an endpoint.
- A node in the table stays there when its endpoint becomes a bootstrap router.
  A seed may be shown as not responding while a second query to it is in flight.
- An error answer without an ID enters the zero ID into a count (Census.cpp:394).
- A put with an equal sequence number and another value is answered as stored.
- `applyNodePage()` copies the offset of the page that arrived over the one asked
  for meanwhile (src/DhtController.cpp:1014), so a click on Next during a refresh
  is lost.
- If the engine stops before an export is collected its busy flag stays set
  (src/DhtController.cpp:1064); `BusyIsAwaited` speaks of exports of the engine
  that runs. A name that fails to resolve after a stop adds a row to the history,
  and the first of two probe results clears the busy flag of both.
- stop() between the gateway accepting a UPnP mapping and the address being known
  releases nothing (Upnp.cpp:410), and during a renewal that met a conflict it
  deletes the port just drawn (Upnp.cpp:417).
- A late answer to a query that timed out is taken for the answer to another
  query that got its id and goes to the same endpoint (RpcManager.cpp:190).

## Proofs

The proofs hold for every value of the constants that satisfies the `ASSUME` of
the module, in particular for the code's own limits.

- **`RpcManagerProofs`.** `RpcSafety` proves `RpcInv`, the conjunction of the
  type invariant, single ownership, agreement of order and queues, the state of
  the drain timer, no early timeout, `PassedChecks` (what the checks found still
  holds for the query that `send()` is given: room for it, and the balance it was
  checked against) and `CollectedStillHeld`: while the node is open the ids
  `expire()` has still to visit are outstanding, so `nextTransactionId()` cannot
  hand one out again to a query sent from a callback. `NoEarlyTimeout` is not
  inductive without it. The proof has a lemma per state change (enqueueing, taking
  the head of a queue, detaching an entry, posting a report, sending, returning
  to the event loop) and one step per action. `EveryQueryOwnedOnce`,
  `WaitersSafety` and `TimeoutSafety` read the properties off the invariant.
  `AllowanceSafety` is an action property: only `send()` lowers the balance, and
  by `SendEffect` it ends below zero only where `PassedChecks` let the query through
  as live and `record()` no longer finds it so. `LimitsSafety` is a second induction on
  top of it: that `m_queuedTotal` is the number of occupied positions of the
  queues needs them to be finitely many, and each handler changes the positions
  of one host by one (`OnePlace`, `QueueBelowTotal`) or none.
- **`LookupProofs`.** `LookupInvariant` proves `IInv`: each of the three counters
  is the number of candidates in the states it stands for, the queries timed by
  `clock` are distinct and in flight, the item kept is the latest any answer gave,
  and before `start()` nothing has been asked. The counters alone are not
  inductive: `checkSlow()` frees as many slots as it promotes queries only because
  none is timed twice. `step()` is proved once, for any candidates and counters,
  and used by each handler. `LookupSafety` follows, and `ReportSafety`: that nobody
  awaited is closer than what is reported (`ReportIsAhead`) is read off what
  `canFinish()` saw when the lookup ended, which `IInv` keeps (`EndsForAReason`)
  since nothing moves after that. Counting the closest (`Closer`, the K-th of a finite set) is done on intervals, by the
  theorems on finite sets of the library. The constants are any positive numbers.
- **`DhtNodeProofs`.** `TableSafety` proves `TInv`: every bucket holds at most K
  nodes and K cached ones, each where `bucketIndexFor()` looks for it and no ID
  twice, a bucket that can be split has no cache, and what `rebuild()` has yet to
  insert has IDs of its own, none of them in the table. Without the last part a
  rebuild could enter an ID twice, and without the one before a split would leave
  cached nodes in the wrong bucket. `SplitTo` is treated as a whole: an ID keeps
  its place unless it was in the last bucket (`Places`). `NoGoodNodeDisplaced` is
  the action property, operation by operation. `NodeUsesTable` shows that
  `NodeSpec` implements the `Spec` of `RoutingTable`, each handler being one
  operation of the table or none, so both results hold in the node. `NodeSafety`
  proves seeds, verifications and the ID; `MajorityDecides` needs that
  the list of votes never holds two of one address, so that counting entries
  counts voters; `OnlyAnswersTeach` that a rebuild brings back only what was known.
- **`ServerProofs`, tokens and peers.** `TokenSafety` proves the inductive invariant
  `TokenInv`: an issuance signed by the current secret is no older than the last
  rotation and was made within a period of it, one signed by the previous secret
  was made less than two periods before it, and any other is more than a period
  old. The two lifetime properties (`TokenLifetime`) need exactly these three
  cases. Assumption: the period is positive. `ServerSafety` proves `ServerInv`: the
  token invariant, the types of the storage, that the count is exact, that
  `lastAnnounce` is the time of the newest peer, and `AnnouncedByHolder`. The handlers are steps of
  `TokenManager` (`TokenPart`), so its invariant carries over, and the verdict it
  gives on the token presented is what makes `AnnouncedByHolder` inductive.
  `AnnounceCount` shows that the entries evicted and the one replaced are
  disjoint, which is why adding and subtracting their sizes keeps the count.
  `NewestDecides` survives `expire()` because the newest peer is the last to go.
- **`ServerProofs`, the rate limit.** `LimiterSafety` proves `LimiterInv`, whose core is
  `WindowCredit`: what was spent in a window plus what is left in the bucket is
  within burst plus elapsed time. It is what makes `prune()` harmless, since a
  bucket idle for that long would be full. `LimiterWindow` follows, and
  `LimiterRefines` shows that the buckets implement `HostAllowance`: a refusal
  and a prune are stuttering steps.
- **`ServerProofs`, items.** `ItemsBehindLimiter` shows that the handlers are steps
  of `RateLimiter`, so `LimiterSafety`, `LimiterWindow` and `LimiterRefines` hold in
  front of them. `ItemSafety` proves `ItemInv`: the items are within their limit,
  and what a client has read is stored under a sequence number no lower, and
  strictly higher once somebody else wrote, unless it was dropped. `NoUpdateLost`
  is an action property that needs it in the old state: a `cas` equal to the
  number stored then means that nobody wrote since. `OldestGoes` covers `expire()`
  and `makeRoom()`.
- **`PortMapperProofs`.** `MapperInvariant` proves `IInv`: the properties
  `StagesAgree`, `QuietWhenOff`, `KeptAlive` and `ShownIsGranted` together with
  `StageTells` (which request is out and whether the timer runs follows from the
  stage of `UpnpIgd`, and while the address is asked the port is granted) and
  `DatagramsTell` (requests and retries only at PCP and NAT-PMP, and none left
  to be answered for a mapper that is off, unless it failed at UPnP where answers
  are ignored). None of the four is inductive without these. `MapperSafety`,
  `MappingKeptAlive` and `ShownPortGranted` read the properties off.
- **`DhtControllerProofs`.** `Safety` proves `IInv`, the invariant of the interface
  and the engine's thread with the two event queues between them. `Exchange` and
  `Interface` are the types, with what the parts of a message tell about each other
  (the callbacks outstanding of a job are counted by `remaining`, the item kept is
  the newest seen). `Lives` says where `shutdown` can be: nowhere while the engine is
  in use, last of its queue while it stops, and once no family is left nothing is
  queued, under way or due. `Generations` says that signals belong to engines that
  were there, and to the one of now only while it is in use. `Awaited` is the core:
  for searches, publishing and node pages, a page that waits has exactly one request
  in exactly one of three places (posted, a job, a result on its way), with the
  number asked last, and a page that does not wait has none. `BusyIsAwaited` only
  says that there is one; that there are not two is what keeps the flag right when
  the result arrives, and that its filter is the one set, unless a second query is
  noted, is what makes `FilterShown` inductive. `ProbeAwaited` and `ExportAwaited`
  are weaker, since several probes may be under way and an export is written by a
  third thread. `SettingsAgree` and `IdFollows` speak of the last change or snapshot
  in a queue, which taking the head or adding at the end either leaves or replaces.
  The lemmas on queues (`Shorter`, `Longer`, `Grown`) are proved once for any
  elements, each command, callback and delivery is then one lemma per part it
  touches. `ControllerSafety`, `WaitsAreAwaited`, `NothingStaleShown`,
  `AnswersAreRight` and `SettingsInUse` read the properties off. The bounds on
  operations, generations and queues are any numbers.

- **`CensusProofs`.** `Invariant` proves `IInv`. While a count runs, the record of the
  slice is `Going`: a node is in the queue or asked, once, until it is settled
  (`Sound`), and a slice that has found anybody has run at least one round more than
  it has been quiet for (`RoundsOK`), from which the rounds of a counted slice follow. `CallsCount` ties both counters to
  the callbacks of the present generation, which is why a late answer of an earlier
  slice may be ignored and must not count down; `AtRest` says that nothing of
  the present generation is left between counts, so a new slice starts from zero.
  Every operator of the slice (`consider`, an answer, a refusal, a timeout, a turn of
  the loop of `tick()`) is one lemma that it keeps the slice sound, and the loops follow by
  induction. `AnswersCount` is the action property, operation by operation, from
  the invariant in the old state.
- **`CrawlerProofs`.** The inductive invariant is `Good`, stated about the record a tick
  passes along, with the weight of a reference: in how many places of the rounds
  (five queues and the queries in flight) it is, and in how many of the
  checks. For a current reference the weights are decided by the entry (`Fits`),
  queries in flight to it carry its endpoint, and a reference
  not handed out yet has weight nothing anywhere. The last part is
  what makes the reuse of slots safe: the node that takes a slot over starts with no place
  of its own, whatever is still on its way to its predecessor. Each handler moves
  a weight from one place to another, so the proofs are about sums that stay the
  same (`Moved`, `SameBut`) and not about queues. The index is proved on its own: every entry lies in a run that is
  unbroken from its home (`Reached`), at least one position is free (`Room`), so
  a probe ends; while `eraseIndex()` walks, a run may be broken
  only by the hole, and only for the entries the walk has yet to come by (`InLine`,
  measured from a position that is free, so that wrapping around drops out). Growth enters the slots in use one by one into an empty index. `EveryNodeInOneRound`,
  `ChecksOneAtATime`, `RepliesReachTheirNode`, `UpToDateMeansDone` and
  `CatalogIsExact` read the properties off. Nothing is assumed of the hash, the
  endpoints, the caps or the batches but that they are numbers of the right kind.

Loops are proved by `EveryTurn`: a set of numbers that holds 0 and with each k the
next one holds every number of turns. The set stands for the predicate, so no theorem
with an operator as parameter is needed; it rests on `WFMin` of the library.

Only model-checked: liveness (`EveryQueryEnds`, `EndsEventually`,
`DiscoveryEnds`, `CensusEnds`, `WaitsEnd`), since fairness and ENABLED are out
of the prover's reach, and what the three violation runs show. Every
invariant and every other action property a run checks is proved. `OrderMatchesQueues` and
`NewestDecides` are proved (as parts of `RpcInv` and `ServerInv`) and not listed by a run.

## Not modelled

Codecs (Bencode, KRPC), address classification, BEP 42 and CRC-32C, SHA-1 and
Ed25519 are pure functions on bytes with published test vectors. Statistics
(`NetworkStats`, `Sybil`, `History`, `Inbound`, `NodeList`) are single passes in
floating point over catalogues that `Crawler` models. `Gateway` reads the operating system's routing table. List
models and QML pages are presentation, Monocypher is vendored. What is planned
and not yet done is below.

## Plan

In order of importance:

1. `ContactBudget` with the `RpcManager`s of both families as clients.
2. Limits changed while running (`setHostLimit`, `setMaxPending`), and the pings
   and refreshes of `onMaintenance()` with the times they depend on.
3. The compact encodings of nodes and peers as operators, against a reference.
