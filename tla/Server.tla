------------------------------- MODULE Server -------------------------------
(***************************************************************************)
(* Announcements from other nodes: the get_peers and announce_peer         *)
(* handlers of DhtNode (dhtcore/src/DhtNode.cpp), the tokens they issue    *)
(* and check, and the PeerStorage behind them (dhtcore/src/Support.cpp).   *)
(*                                                                         *)
(* A query dropped by the rate limit or by read-only mode, and one without *)
(* a valid ID or infohash, touches neither tokens nor storage and is no    *)
(* step.  The peers of all infohashes are one set of announcements.        *)
(***************************************************************************)
EXTENDS TokenManager

CONSTANTS
    Infohashes,
    Ports,                \* ports named in announcements
    MaxInfohashes,        \* PeerStorage::MaxInfohashes
    MaxPeersPerInfohash,  \* PeerStorage::MaxPeersPerInfohash
    PeerTtlMs             \* PeerStorage::PeerTtlMs, in clock ticks

ASSUME ServerAssumption ==
    /\ Ports \subseteq Nat /\ MaxInfohashes \in Nat \ {0}
    /\ MaxPeersPerInfohash \in Nat \ {0} /\ PeerTtlMs \in Nat \ {0}

VARIABLES
    stored,        \* the peers in m_entries, with the time each was announced
    lastAnnounce,  \* lastAnnounce of each infohash in m_entries
    peerCount      \* m_peerCount

store      == <<stored, lastAnnounce, peerCount>>
serverVars == <<now, current, previous, rotatedAt, minted, issued, verdict, store>>

Held == DOMAIN lastAnnounce

PeersOf(S, h) == {s \in S : s.infohash = h}

ServerInit == Init /\ stored = {} /\ lastAnnounce = [h \in {} |-> 0] /\ peerCount = 0

-----------------------------------------------------------------------------
(* PeerStorage.  Of several equally old the code takes the one it meets    *)
(* first, so the model allows any.                                         *)

\* What is evicted for h: at capacity, an infohash announced least recently.
InfohashesDroppedFor(h) ==
    IF h \in Held \/ Cardinality(Held) < MaxInfohashes THEN {{}}
    ELSE {{old} : old \in {g \in Held : \A f \in Held : lastAnnounce[g] <= lastAnnounce[f]}}

\* What is evicted from a full list for a peer that is not known there.
PeersDroppedFor(known, list) ==
    IF known # {} \/ Cardinality(list) < MaxPeersPerInfohash THEN {{}}
    ELSE {{old} : old \in {s \in list : \A r \in list : s.at <= r.at}}

\* Mutant: an evicted infohash takes its peers with it, but not from the count.
CountAfterForgets(gone, dropped, known) ==
    peerCount - Cardinality(dropped) + (IF known = {} THEN 1 ELSE 0)

CountAfter(gone, dropped, known) ==
    peerCount - Cardinality(gone) - Cardinality(dropped) + (IF known = {} THEN 1 ELSE 0)

\* lastAnnounce once h has been announced and the infohashes out have gone.
Touched(h, out, known) ==
    [g \in (Held \ out) \cup {h} |-> IF g = h THEN now ELSE lastAnnounce[g]]

announce(h, peer) ==
    \E out \in InfohashesDroppedFor(h) :
        LET gone  == {s \in stored : s.infohash \in out}
            list  == PeersOf(stored, h)
            known == {s \in list : s.peer = peer}
        IN  \E dropped \in PeersDroppedFor(known, list) :
              /\ stored' = (stored \ (gone \cup known \cup dropped))
                              \cup {[infohash |-> h, peer |-> peer, at |-> now]}
              /\ lastAnnounce' = Touched(h, out, known)
              /\ peerCount' = CountAfter(gone, dropped, known)

Expired == {s \in stored : now - s.at >= PeerTtlMs}

\* PeerStorage::expire(), from the engine's timer.
expire ==
    /\ stored' = stored \ Expired
    /\ lastAnnounce' = [h \in {g \in Held : PeersOf(stored', g) # {}} |-> lastAnnounce[h]]
    /\ peerCount' = peerCount - Cardinality(Expired)
    /\ UNCHANGED vars

-----------------------------------------------------------------------------
(* Query handlers                                                          *)

\* get_peers and get hand out a token; peers() only reads.
getPeers(a) == generate(a) /\ UNCHANGED store

\* A port that an announcement may name.
ValidPort(port) == port >= 1 /\ port <= 65535

\* Mutant: the verdict on the token is not heeded.
announcePeerTrusting(h, t, a, port) ==
    /\ validate(t, a)
    /\ IF ValidPort(port) THEN announce(h, <<a, port>>) ELSE UNCHANGED store

\* announce_peer from address a with the token of issuance t; port is the one
\* named, or with implied_port the one the query came from.
announcePeer(h, t, a, port) ==
    /\ validate(t, a)
    /\ IF Matches(t.token, a) /\ ValidPort(port) THEN announce(h, <<a, port>>) ELSE UNCHANGED store

ServerNext ==
    \/ \E a \in Addresses : getPeers(a)
    \/ \E h \in Infohashes, t \in issued, a \in Addresses, port \in Ports :
          announcePeer(h, t, a, port)
    \/ expire
    \/ Tick /\ UNCHANGED store

ServerSpec == ServerInit /\ [][ServerNext]_serverVars

-----------------------------------------------------------------------------
(* Properties                                                              *)

\* m_peerCount, kept up by every insertion, eviction and expiry, is the number of
\* peers stored, and each endpoint is stored once per infohash.
PeerCountExact ==
    /\ peerCount = Cardinality(stored)
    /\ \A s, r \in stored : s.infohash = r.infohash /\ s.peer = r.peer => s = r

\* lastAnnounce, which decides what announce() evicts, is the time of the newest peer
\* stored, through evictions and expiries that happen in between.
NewestDecides ==
    \A h \in Held : \E s \in PeersOf(stored, h) :
        lastAnnounce[h] = s.at /\ \A r \in PeersOf(stored, h) : r.at <= s.at

\* Nobody gets another's address stored: at the time a peer was announced its address
\* had been issued a token within the last three rotation periods, whatever
\* tokens were presented from wherever (announce_peer with TokenManager::validate).
AnnouncedByHolder ==
    \A s \in stored : \E t \in issued :
        /\ t.token.address = s.peer[1] /\ t.at <= s.at /\ s.at < t.at + 3 * RotationMs

-----------------------------------------------------------------------------
\* What the proofs need besides: the types of the storage, no announcement from the
\* future, and no infohash without peers.
StoreType ==
    /\ stored \subseteq [infohash : Infohashes, peer : Addresses \X Ports, at : Nat]
    /\ \A s \in stored : s.at <= now
    /\ Held \subseteq Infohashes /\ lastAnnounce \in [Held -> Nat]

HeldHavePeers == \A s \in stored : s.infohash \in Held

ServerInv ==
    /\ TokenInv /\ StoreType /\ HeldHavePeers
    /\ IsFiniteSet(stored) /\ PeerCountExact /\ NewestDecides /\ AnnouncedByHolder
=============================================================================
