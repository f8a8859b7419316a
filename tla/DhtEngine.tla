------------------------------ MODULE DhtEngine ------------------------------
(***************************************************************************)
(* DhtEngine (dhtcore/src/DhtEngine.cpp): the object that lives on the     *)
(* engine thread, owns one DhtNode per address family and turns each call  *)
(* the user interface posts to that thread into queries on both families   *)
(* and one signal back.                                                    *)
(*                                                                         *)
(* `commands' is the thread's event queue (QMetaObject::invokeMethod with  *)
(* Qt::QueuedConnection), `jobs' the operations whose callbacks are still  *)
(* pending and `signals' the event queue of the user interface.  Payloads  *)
(* are reduced to the number of the request they belong to and the few     *)
(* values the controller acts on.                                          *)
(***************************************************************************)
EXTENDS Integers, Sequences, FiniteSets, FiniteSetsExt

CONSTANTS Settings,    \* the settings that may change while the engine runs
          NodeIds,     \* IDs this node can have
          SecureId,    \* the one BEP 42 derives from the external address
          Hashes,      \* infohashes other nodes announce to this one
          MaxPages,    \* bound: pages of nodes a query can match
          MaxWrites,   \* bound: nodes that gave a write token
          MaxQueued    \* bound: snapshots waiting for the user interface

ASSUME EngineAssumption ==
    /\ MaxPages \in Nat /\ MaxWrites \in Nat /\ MaxQueued \in Nat \ {0}
    /\ IsFiniteSet(Hashes) /\ NodeIds \subseteq Nat \ {0} /\ SecureId \in NodeIds

VARIABLES engine, commands, jobs, signals

engineVars == <<engine, commands, jobs, signals>>

Families == {"v4", "v6"}

\* m_v4 and m_v6, m_config, the crawler's switch, the BEP 42 checked ID and
\* whether the coalescing timer is running.  gen 0: there is no engine.
NoEngine == [gen |-> 0, up |-> {}, settings |-> [s \in Settings |-> 0],
             monitoring |-> FALSE, id |-> 0, due |-> FALSE]

EngineInit == /\ engine = NoEngine
              /\ commands = <<>>
              /\ jobs = {}
              /\ signals = <<>>

-----------------------------------------------------------------------------
(* Signals to the user interface.                                          *)

Plain(kind, id) == [gen |-> engine.gen, kind |-> kind, id |-> id,
                    at |-> 0, of |-> 0, total |-> 0, rows |-> {}]

emit(s) == signals' = Append(signals, s)

Snapshots == {i \in DOMAIN signals : signals[i].kind = "snapshot"}

snapshot(g, id) == [gen |-> g, kind |-> "snapshot", id |-> 0,
                    at |-> id, of |-> 0, total |-> 0, rows |-> {}]

\* start() when the first socket could be bound: nodes for the families that have
\* one, a notice if IPv6 was asked for and has none, and the first snapshot.
start(g, set, id, wantV6, v6Bound) ==
    /\ engine' = [gen |-> g, up |-> IF v6Bound THEN Families ELSE {"v4"},
                  settings |-> set, monitoring |-> FALSE, id |-> id, due |-> FALSE]
    /\ LET first == snapshot(g, id)
       IN signals' = signals \o IF wantV6 /\ ~v6Bound
                                THEN <<[first EXCEPT !.kind = "notice"], first>>
                                ELSE <<first>>

\* Mutant: the change is left to the periodic snapshot.
scheduleSnapshotNever == engine

scheduleSnapshot == [engine EXCEPT !.due = TRUE]

\* The coalescing timer.  The periodic one, with none due, would tell nothing
\* that was not told before.  A queue that already holds MaxQueued snapshots
\* is a user interface that is behind.
publishSnapshot ==
    /\ engine.due
    /\ Cardinality(Snapshots) < MaxQueued
    /\ emit(snapshot(engine.gen, engine.id))
    /\ engine' = [engine EXCEPT !.due = FALSE]
    /\ UNCHANGED <<commands, jobs>>

\* A consensus on the external address replaces an ID that does not match it
\* (DhtNode::changed is connected to scheduleSnapshot).
rekey ==
    /\ engine.up # {} /\ engine.id # SecureId
    /\ engine' = [scheduleSnapshot EXCEPT !.id = SecureId]
    /\ UNCHANGED <<commands, jobs, signals>>

-----------------------------------------------------------------------------
(* Jobs: one record per call whose callbacks are outstanding.              *)

\* `part' is what each family is doing, `pending' the write queries a family
\* waits for, `remaining' the families not finished, `found' and `best' the
\* item kept so far and `seen' every item a family brought (history).
Job(kind, c, part) ==
    [kind |-> kind, id |-> c.id, of |-> c.of, part |-> part,
     pending |-> [f \in Families |-> 0],
     remaining |-> Cardinality({f \in Families : part[f] # "off"}),
     found |-> FALSE, best |-> -1, seen |-> {}]

Both(what) == [f \in Families |-> IF f \in engine.up THEN what ELSE "off"]
Only(f, what) == [g \in Families |-> IF g = f THEN what ELSE "off"]

Arrives(kind) == commands # <<>> /\ Head(commands).kind = kind

begin(kind, part) == /\ jobs' = jobs \cup {Job(kind, Head(commands), part)}
                     /\ commands' = Tail(commands)
                     /\ UNCHANGED <<engine, signals>>

answer(s) == emit(s) /\ commands' = Tail(commands) /\ UNCHANGED <<engine, jobs>>

searchPeers == Arrives("searchPeers") /\ begin("peers", Both("lookup"))
searchItem == Arrives("searchItem") /\ begin("item", Both("lookup"))
announcePeer == Arrives("announcePeer") /\ begin("announce", Both("lookup"))

\* publishImmutable and publishMutable: a value, salt or key that is out of
\* bounds is answered at once.
publishItem ==
    /\ Arrives("publishItem")
    /\ \/ answer(Plain("publish", Head(commands).id))
       \/ begin("put", Both("lookup"))

Family(c) == IF c.at = 0 THEN "v4" ELSE "v6"

\* A family that is not running is reported as the result.
probe ==
    /\ Arrives("probe")
    /\ IF Family(Head(commands)) \in engine.up
       THEN begin("probe", Only(Family(Head(commands)), "query"))
       ELSE answer(Plain("probe", Head(commands).id))

probeAnnounce ==
    /\ Arrives("probeAnnounce")
    /\ IF Family(Head(commands)) \in engine.up
       THEN begin("probeAnnounce", Only(Family(Head(commands)), "query"))
       ELSE answer(Plain("probe", Head(commands).id))

\* An address is contacted at once; a name (c.of = 1), or the routers to
\* bootstrap from, are resolved first.
addNode ==
    /\ Arrives("addNode")
    /\ emit(Plain("notice", 0))
    /\ jobs' = IF Head(commands).of = 0 THEN jobs
               ELSE jobs \cup {Job("dns", Head(commands), Only("v4", "dns"))}
    /\ commands' = Tail(commands)
    /\ UNCHANGED engine

-----------------------------------------------------------------------------
(* What the callbacks do.                                                  *)

Replace(j, k) == jobs' = (jobs \ {j}) \cup {k}

KindShown(kind) == CASE kind = "peers" -> "peers"
                     [] kind = "item" -> "item"
                     [] OTHER -> "publish"

\* collect: one family is done; the last one emits the result.
finishOne(j, k, f) ==
    LET n == [k EXCEPT !.part[f] = "done", !.remaining = @ - 1] IN
    /\ IF n.remaining = 0
       THEN /\ jobs' = jobs \ {j}
            /\ emit([Plain(KindShown(j.kind), j.id) EXCEPT
                       !.at = n.best, !.total = IF n.found THEN 1 ELSE 0, !.rows = n.seen])
       ELSE Replace(j, n) /\ UNCHANGED signals
    /\ UNCHANGED commands

\* Mutant: the sequence number alone decides, which immutable items do not have.
NewerBySequence(j, seq) == seq > j.best

Newer(j, seq) == ~j.found \/ seq > j.best

\* The item a lookup brought, if any: immutable items carry no sequence.
FoundItems(j) == {{}} \cup {{s} : s \in IF j.of = 0 THEN {-1} ELSE {0, 1}}

keep(j, items) ==
    IF items # {} /\ Newer(j, Max(items))
    THEN [j EXCEPT !.found = TRUE, !.best = Max(items), !.seen = @ \cup items]
    ELSE [j EXCEPT !.seen = @ \cup items]

\* A family's lookup ends (DhtNode::changed follows).  A search is done
\* with it, a put or an announce writes to the nodes that gave a token.
lookupEnds(j, f) ==
    /\ j.part[f] = "lookup"
    /\ engine' = scheduleSnapshot
    /\ \/ /\ j.kind = "peers"
          /\ finishOne(j, j, f)
       \/ /\ j.kind = "item"
          /\ \E items \in FoundItems(j) : finishOne(j, keep(j, items), f)
       \/ /\ j.kind \in {"put", "announce"}
          /\ \E n \in 0..MaxWrites :
                IF n = 0
                THEN finishOne(j, j, f)
                ELSE /\ Replace(j, [j EXCEPT !.part[f] = "writing",
                                             !.pending[f] = n])
                     /\ UNCHANGED <<commands, signals>>

\* One write is answered, refused or times out.
writeAnswered(j, f) ==
    LET k == [j EXCEPT !.pending[f] = @ - 1] IN
    /\ j.part[f] = "writing"
    /\ IF k.pending[f] = 0
       THEN finishOne(j, k, f)
       ELSE Replace(j, k) /\ UNCHANGED <<commands, signals>>
    /\ UNCHANGED engine

\* The probed node answers or the query times out.  An announce goes on with
\* the token, or reports that there is none as a second result.
probeAnswered(j, f) ==
    /\ j.part[f] \in {"query", "second"}
    /\ \/ /\ j.kind = "probe" \/ j.part[f] = "second"
          /\ jobs' = jobs \ {j}
          /\ emit(Plain("probe", j.id))
       \/ /\ j.kind = "probeAnnounce" /\ j.part[f] = "query"
          /\ \/ /\ Replace(j, [j EXCEPT !.part[f] = "second"])
                /\ emit(Plain("probe", j.id))
             \/ /\ jobs' = jobs \ {j}
                /\ signals' = signals \o <<Plain("probe", j.id), Plain("probe", j.id)>>
    /\ UNCHANGED <<engine, commands>>

\* A name was resolved or not: seeds are added, and all but a router that
\* resolved is worth a notice.
resolved(j, f) ==
    /\ j.part[f] = "dns"
    /\ jobs' = jobs \ {j}
    /\ emit(Plain("notice", 0)) \/ UNCHANGED signals
    /\ UNCHANGED <<engine, commands>>

JobStep == \E j \in jobs, f \in Families :
    \/ lookupEnds(j, f) \/ writeAnswered(j, f)
    \/ probeAnswered(j, f) \/ resolved(j, f)

-----------------------------------------------------------------------------
(* Calls answered, or carried out, at once.                                *)

\* queryNodes of NodeList.cpp: an offset past the end is the last page.
PageOffset(offset, total) ==
    IF offset < total THEN offset ELSE IF total > 0 THEN total - 1 ELSE 0

queryNodes ==
    LET c == Head(commands) IN
    /\ Arrives("queryNodes")
    /\ \E total \in 0..MaxPages :
          answer([Plain("page", c.id) EXCEPT !.at = PageOffset(c.at, total),
                                             !.of = c.of, !.total = total])

exportNodes == Arrives("exportNodes") /\ answer(Plain("export", Head(commands).id))

requestStorageSnapshot ==
    /\ Arrives("requestStorageSnapshot")
    /\ \E stored \in SUBSET Hashes :
          answer([Plain("storage", 0) EXCEPT !.rows = stored])

\* The state after a call that changes a setting, each of which ends with
\* scheduleSnapshot.  startCensus and cancelCensus are modelled in Census.
Applied(e, c) ==
    CASE c.kind = "set" -> [e EXCEPT !.settings[c.name] = c.at]
      [] c.kind = "monitoring" -> [e EXCEPT !.monitoring = (c.at = 1)]
      [] OTHER -> e

change ==
    /\ commands # <<>> /\ Head(commands).kind \in {"set", "monitoring", "census"}
    /\ engine' = Applied(scheduleSnapshot, Head(commands))
    /\ commands' = Tail(commands)
    /\ UNCHANGED <<jobs, signals>>

shutdown ==
    /\ Arrives("shutdown")
    /\ engine' = [engine EXCEPT !.up = {}, !.due = FALSE, !.monitoring = FALSE]
    /\ jobs' = {}
    /\ commands' = Tail(commands)
    /\ UNCHANGED signals

Command == \/ searchPeers \/ searchItem \/ announcePeer \/ publishItem
           \/ probe \/ probeAnnounce \/ addNode
           \/ queryNodes \/ exportNodes \/ requestStorageSnapshot
           \/ change \/ shutdown

EngineNext == Command \/ JobStep \/ publishSnapshot \/ rekey
=============================================================================
