---------------------------- MODULE ServerProofs ----------------------------
(***************************************************************************)
(* What a node does for others.                                            *)
(*                                                                         *)
(* Server: the lifetime of an announce token; every announcement stored    *)
(* was made by a holder of one; the time that decides evictions is the     *)
(* time of the newest peer.  RateLimiter: the token bucket bounds what any *)
(* host receives in any window, and implements HostAllowance.  ItemServer: *)
(* what others store with us (BEP 44) is neither overwritten behind a      *)
(* writer's back nor dropped before its time, and the query handlers keep  *)
(* to the rate limit they are behind.                                      *)
(*                                                                         *)
(* All for any number of addresses, infohashes, items and sequence         *)
(* numbers, any capacities, rates and periods, and every schedule of calls.*)
(***************************************************************************)
EXTENDS Server, ItemServer, TLAPS, FiniteSetTheorems

USE RotationAssumption, BoundsAssumption

\* A secret retired less than two periods after the issuance, and live for
\* less than one more, bounds the age by three.
LEMMA ThreePeriods ==
    \A n, x, r, k \in Nat : n < r + k /\ r < x + 2 * k => n - x < 3 * k
  OBVIOUS

\* What rotateIfNeeded leaves behind, whichever of its three branches ran: a
\* current secret within its period, and every issuance still in the relation
\* to the two live secrets that IssuanceInv states.
LEMMA RotationStep ==
    ASSUME TypeOK, SecretInv, IssuanceInv, rotateIfNeeded
    PROVE  /\ current' \in Nat /\ previous' \in Nat /\ minted' \in Nat
           /\ rotatedAt' \in Nat
           /\ rotatedAt' <= now /\ current' <= minted' /\ previous' <= minted'
           /\ current' # previous' /\ 0 < current'
           /\ now < rotatedAt' + RotationMs
           /\ \A t \in issued :
                /\ t.at <= now /\ 0 < t.token.secret /\ t.token.secret <= minted'
                /\ t.token.secret = current' =>
                     rotatedAt' <= t.at /\ t.at < rotatedAt' + RotationMs
                /\ t.token.secret = previous' =>
                     t.at < rotatedAt' /\ rotatedAt' < t.at + 2 * RotationMs
                /\ t.token.secret \notin {current', previous'} =>
                     t.at + RotationMs < now
<1>1. \A t \in issued : t.at \in Nat /\ t.token.secret \in Nat
  BY DEF TypeOK, Issuance, Token
<1> USE DEF TypeOK, SecretInv, IssuanceInv, Age, BothStale, CurrentAged
<1>2. CASE BothStale /\ current' = minted + 1 /\ previous' = minted + 2
           /\ minted' = minted + 2 /\ rotatedAt' = now
  BY <1>1, <1>2
<1>3. CASE CurrentAged /\ previous' = current /\ current' = minted + 1
           /\ minted' = minted + 1 /\ rotatedAt' = now
  BY <1>1, <1>3
<1>4. CASE ~BothStale /\ ~CurrentAged
           /\ UNCHANGED <<current, previous, minted, rotatedAt>>
  BY <1>1, <1>4
<1>5. QED
  BY <1>2, <1>3, <1>4 DEF rotateIfNeeded

\* A call of generate(a): the new issuance is signed by the secret that the
\* rotation has just made, or left, current.
LEMMA GenerateStep ==
    ASSUME TokenInv, NEW a \in Addresses, generate(a)
    PROVE  TokenInv'
<1> DEFINE i == [token |-> tokenFor(current', a), at |-> now]
<1>0. TypeOK /\ SecretInv /\ IssuanceInv /\ FreshTokenAccepted /\ StaleTokenRefused
  BY DEF TokenInv
<1>1. rotateIfNeeded
  BY DEF generate
<1>2. current' \in Nat /\ previous' \in Nat /\ minted' \in Nat /\ rotatedAt' \in Nat
  BY <1>0, <1>1, RotationStep
<1>3. /\ now' = now /\ verdict' = verdict /\ issued' = issued \cup {i}
      /\ i \in Issuance /\ i.at = now /\ i.token.secret = current'
  BY <1>0, <1>2 DEF generate, Issuance, Token, tokenFor, TypeOK
<1>4. TypeOK'
  BY <1>0, <1>2, <1>3 DEF TypeOK
<1>5. SecretInv'
  BY <1>0, <1>1, <1>2, <1>3, RotationStep DEF SecretInv
<1>6. IssuanceInv'
  <2>1. ASSUME NEW t \in issued'
        PROVE  /\ t.at <= now' /\ 0 < t.token.secret /\ t.token.secret <= minted'
               /\ t.token.secret = current' =>
                    rotatedAt' <= t.at /\ t.at < rotatedAt' + RotationMs
               /\ t.token.secret = previous' =>
                    t.at < rotatedAt' /\ rotatedAt' < t.at + 2 * RotationMs
               /\ t.token.secret \notin {current', previous'} =>
                    t.at + RotationMs < now'
    <3>1. CASE t \in issued
      BY <3>1, <1>0, <1>1, <1>3, RotationStep
    <3>2. CASE t = i
      <4>1. t.at = now /\ t.token.secret = current' /\ now \in Nat /\ now' = now
        BY <3>2, <1>3, <1>0 DEF TypeOK
      <4>2. rotatedAt' <= now /\ current' <= minted' /\ current' # previous'
            /\ 0 < current' /\ now < rotatedAt' + RotationMs
        BY <1>0, <1>1, RotationStep
      <4>3. t.token.secret # previous'
        BY <4>1, <4>2
      <4>4. t.at <= now' /\ 0 < t.token.secret /\ t.token.secret <= minted'
        BY <4>1, <4>2
      <4>5. rotatedAt' <= t.at /\ t.at < rotatedAt' + RotationMs
        BY <4>1, <4>2
      <4>6. QED
        BY <4>1, <4>3, <4>4, <4>5
    <3>3. QED
      BY <3>1, <3>2, <1>3
  <2>2. QED
    BY <2>1 DEF IssuanceInv
<1>7. FreshTokenAccepted' /\ StaleTokenRefused'
  BY <1>0, <1>3 DEF FreshTokenAccepted, StaleTokenRefused
<1>8. QED
  BY <1>4, <1>5, <1>6, <1>7 DEF TokenInv

\* A call of validate(t, a): the verdict is judged against the secrets that
\* the rotation has just left, so IssuanceInv' bounds the token's age.
LEMMA ValidateStep ==
    ASSUME TokenInv, NEW t \in issued, NEW a \in Addresses, validate(t, a)
    PROVE  TokenInv'
<1> DEFINE v == [holder |-> t.token.address, from |-> a, age |-> now - t.at,
                 ok |-> Matches(t.token, a)]
<1>0. TypeOK /\ SecretInv /\ IssuanceInv
  BY DEF TokenInv
<1>1. rotateIfNeeded /\ now' = now /\ issued' = issued /\ verdict' = {v}
  BY DEF validate
<1>2. /\ current' \in Nat /\ previous' \in Nat /\ minted' \in Nat
      /\ rotatedAt' \in Nat /\ now < rotatedAt' + RotationMs
  BY <1>0, <1>1, RotationStep
<1>3. SecretInv'
  BY <1>0, <1>1, <1>2, RotationStep DEF SecretInv
<1>4. IssuanceInv'
  BY <1>0, <1>1, RotationStep DEF IssuanceInv
<1>5. /\ t.token \in Token /\ t.at \in Nat /\ now \in Nat
      /\ t.token.address \in Addresses /\ t.token.secret \in Nat
  BY <1>0 DEF TypeOK, Issuance, Token
<1>6. Matches(t.token, a) <=>
        t.token.address = a /\ t.token.secret \in {current', previous'}
  <2>1. t.token = [secret |-> t.token.secret, address |-> t.token.address]
    BY <1>5 DEF Token
  <2>2. \A s : t.token = tokenFor(s, a) <=> t.token.secret = s /\ t.token.address = a
    BY <2>1 DEF tokenFor
  <2>3. QED
    BY <2>2 DEF Matches
<1>7. v \in Verdict
  BY <1>5 DEF Verdict, Matches
<1>8. TypeOK'
  BY <1>0, <1>1, <1>2, <1>7 DEF TypeOK
<1>9. /\ t.token.secret = current' =>
           rotatedAt' <= t.at /\ t.at < rotatedAt' + RotationMs
      /\ t.token.secret = previous' =>
           t.at < rotatedAt' /\ rotatedAt' < t.at + 2 * RotationMs
      /\ t.token.secret \notin {current', previous'} => t.at + RotationMs < now
  BY <1>0, <1>1, RotationStep
<1>10. a = t.token.address /\ now - t.at <= RotationMs => Matches(t.token, a)
  BY <1>5, <1>6, <1>9
<1>11. Matches(t.token, a) => a = t.token.address /\ now - t.at < 3 * RotationMs
  <2>1. t.token.secret = current' => rotatedAt' < t.at + 2 * RotationMs
    BY <1>2, <1>5, <1>9
  <2>2. Matches(t.token, a) => rotatedAt' < t.at + 2 * RotationMs
    BY <1>6, <1>9, <2>1
  <2>3. RotationMs \in Nat
    OBVIOUS
  <2>4. QED
    BY <1>2, <1>5, <1>6, <2>2, <2>3, ThreePeriods
<1>12. FreshTokenAccepted' /\ StaleTokenRefused'
  <2>1. /\ v.ok = Matches(t.token, a) /\ v.from = a
        /\ v.holder = t.token.address /\ v.age = now - t.at
    OBVIOUS
  <2>2. verdict' = {v}
    BY <1>1
  <2> HIDE DEF v
  <2>3. QED
    BY <2>1, <2>2, <1>10, <1>11 DEF FreshTokenAccepted, StaleTokenRefused
<1>13. QED
  BY <1>3, <1>4, <1>8, <1>12 DEF TokenInv

\* Every step of the token manager, a clock tick included, keeps the invariant.
LEMMA TokenStep ==
    ASSUME TokenInv, [Next]_vars
    PROVE  TokenInv'
<1>1. CASE Tick
  <2>1. now' \in Nat /\ now < now'
    BY <1>1 DEF Tick, TokenInv, TypeOK
  <2>2. UNCHANGED <<current, previous, rotatedAt, minted, issued, verdict>>
    BY <1>1 DEF Tick
  <2>3. \A t \in issued : t.at \in Nat
    BY DEF TokenInv, TypeOK, Issuance
  <2>4. QED
    BY <2>1, <2>2, <2>3 DEF TokenInv, TypeOK, SecretInv, IssuanceInv,
      FreshTokenAccepted, StaleTokenRefused
<1>2. CASE UNCHANGED vars
  BY <1>2 DEF vars, TokenInv, TypeOK, SecretInv, IssuanceInv,
    FreshTokenAccepted, StaleTokenRefused
<1>3. QED
  BY <1>1, <1>2, GenerateStep, ValidateStep DEF Next

\* Every reachable state satisfies the inductive invariant: types, how the two
\* secrets relate to the clock, and how each issuance relates to them.
THEOREM TokenSafety == Spec => []TokenInv
<1>1. Init => TokenInv
  BY DEF Init, TokenInv, TypeOK, SecretInv, IssuanceInv, FreshTokenAccepted,
    StaleTokenRefused
<1>2. TokenInv /\ [Next]_vars => TokenInv'
  BY TokenStep
<1>3. QED
  BY <1>1, <1>2, PTL DEF Spec

\* A token handed out by get_peers is honoured for at least one rotation
\* period; it is refused to other addresses and after three periods.
THEOREM TokenLifetime == Spec => []TokensLast
<1>1. TokenInv => TokensLast
  BY DEF TokenInv, TokensLast
<1>2. QED
  BY <1>1, TokenSafety, PTL

-----------------------------------------------------------------------------

\* The handlers take the token manager through steps of its own.
LEMMA TokenPart ==
    ASSUME TokenInv, [ServerNext]_serverVars
    PROVE  TokenInv'
<1>1. [Next]_vars
  <2>1. CASE \E a \in Addresses : getPeers(a)
    BY <2>1 DEF getPeers, Next
  <2>2. CASE \E h \in Infohashes, t \in issued, a \in Addresses, port \in Ports :
                announcePeer(h, t, a, port)
    BY <2>2 DEF announcePeer, Next
  <2>3. CASE expire
    BY <2>3 DEF expire
  <2>4. CASE Tick
    BY <2>4 DEF Next
  <2>5. CASE UNCHANGED serverVars
    BY <2>5 DEF serverVars, vars
  <2>6. QED
    BY <2>1, <2>2, <2>3, <2>4, <2>5 DEF ServerNext
<1>2. QED
  BY <1>1, TokenStep

\* What announce() does to the storage, whichever victims it takes: the new
\* announcement is there, nothing of other infohashes is lost except whole ones,
\* and nothing else is new.
LEMMA AnnounceStep ==
    ASSUME StoreType, HeldHavePeers, NewestDecides, now \in Nat, now' = now,
           NEW h \in Infohashes, NEW peer \in Addresses \X Ports, announce(h, peer)
    PROVE  /\ StoreType' /\ HeldHavePeers' /\ NewestDecides'
           /\ stored' \subseteq stored \cup {[infohash |-> h, peer |-> peer, at |-> now]}
<1> DEFINE new == [infohash |-> h, peer |-> peer, at |-> now]
           list == PeersOf(stored, h)
           known == {s \in list : s.peer = peer}
<1>1. PICK out \in InfohashesDroppedFor(h), dropped \in PeersDroppedFor(known, list) :
        /\ stored' = (stored \ ({s \in stored : s.infohash \in out} \cup known \cup dropped))
                        \cup {new}
        /\ lastAnnounce' = Touched(h, out, known)
  BY DEF announce
<1>2. out \subseteq Held
  BY DEF InfohashesDroppedFor
<1>3. dropped \subseteq list
  BY DEF PeersDroppedFor
<1>4. new \in [infohash : Infohashes, peer : Addresses \X Ports, at : Nat]
  OBVIOUS
<1>5. /\ Held' = (Held \ out) \cup {h}
      /\ lastAnnounce' = [g \in (Held \ out) \cup {h} |-> IF g = h THEN now ELSE lastAnnounce[g]]
  BY <1>1 DEF Touched, Held
<1> HIDE DEF new
<1>6. new.infohash = h /\ new.at = now
  BY DEF new
<1>7. stored' \subseteq stored \cup {new}
  BY <1>1
<1>8. \A s \in stored' : s # new /\ s.infohash \in Held => s.infohash \notin out
  BY <1>1
<1>9. StoreType'
  <2>1. stored' \subseteq [infohash : Infohashes, peer : Addresses \X Ports, at : Nat]
    BY <1>4, <1>7 DEF StoreType
  <2>2. \A s \in stored' : s.at <= now'
    BY <1>6, <1>7 DEF StoreType
  <2>3. Held' \subseteq Infohashes
    BY <1>5 DEF StoreType
  <2>4. lastAnnounce' \in [Held' -> Nat]
    BY <1>5 DEF StoreType
  <2>5. QED
    BY <2>1, <2>2, <2>3, <2>4 DEF StoreType
<1>10. HeldHavePeers'
  BY <1>5, <1>6, <1>7, <1>8 DEF HeldHavePeers
<1>11. NewestDecides'
  <2>1. SUFFICES ASSUME NEW g \in Held'
                 PROVE  \E s \in PeersOf(stored', g) :
                          /\ lastAnnounce'[g] = s.at
                          /\ \A r \in PeersOf(stored', g) : r.at <= s.at
    BY DEF NewestDecides
  <2>2. CASE g = h
    <3>1. new \in PeersOf(stored', g) /\ lastAnnounce'[g] = new.at
      BY <1>1, <1>5, <1>6, <2>2 DEF PeersOf
    <3>2. \A r \in PeersOf(stored', g) : r.at <= new.at
      BY <1>6, <1>9 DEF PeersOf, StoreType
    <3>3. QED
      BY <3>1, <3>2
  <2>3. CASE g # h
    <3>1. g \in Held /\ g \notin out
      BY <1>5, <2>3
    <3>2. PeersOf(stored', g) = PeersOf(stored, g)
      BY <1>1, <1>3, <1>6, <2>3, <3>1 DEF PeersOf
    <3>3. lastAnnounce'[g] = lastAnnounce[g]
      BY <1>5, <2>1, <2>3
    <3>4. QED
      BY <3>1, <3>2, <3>3 DEF NewestDecides
  <2>4. QED
    BY <2>2, <2>3
<1>12. QED
  BY <1>7, <1>9, <1>10, <1>11 DEF new

\* Taking a part out of a finite set takes its size off the count.
LEMMA RemovePart ==
    ASSUME NEW S, NEW T, IsFiniteSet(S), T \subseteq S
    PROVE  /\ IsFiniteSet(S \ T) /\ Cardinality(S) \in Nat /\ Cardinality(T) \in Nat
           /\ Cardinality(S \ T) = Cardinality(S) - Cardinality(T)
<1>1. IsFiniteSet(T)
  BY FS_Subset
<1>2. T = S \cap T
  OBVIOUS
<1>3. IsFiniteSet(S \ T) /\ Cardinality(S \ T) = Cardinality(S) - Cardinality(S \cap T)
  BY FS_Difference
<1>4. QED
  BY <1>1, <1>2, <1>3, FS_CardinalityType

\* The count follows an announcement: what is evicted and the entry that is replaced
\* are disjoint, and at most one entry is replaced.
LEMMA AnnounceCount ==
    ASSUME IsFiniteSet(stored), PeerCountExact, NEW h, NEW peer,
           announce(h, peer)
    PROVE  IsFiniteSet(stored') /\ PeerCountExact'
<1> DEFINE new == [infohash |-> h, peer |-> peer, at |-> now]
           list == PeersOf(stored, h)
           known == {s \in list : s.peer = peer}
<1>1. PICK out \in InfohashesDroppedFor(h) :
        LET gone == {s \in stored : s.infohash \in out}
        IN  \E dropped \in PeersDroppedFor(known, list) :
              /\ stored' = (stored \ (gone \cup known \cup dropped)) \cup {new}
              /\ peerCount' = CountAfter(gone, dropped, known)
  BY DEF announce
<1> DEFINE gone == {s \in stored : s.infohash \in out}
<1>2. PICK dropped \in PeersDroppedFor(known, list) :
        /\ stored' = (stored \ (gone \cup known \cup dropped)) \cup {new}
        /\ peerCount' = CountAfter(gone, dropped, known)
  BY <1>1
<1> DEFINE A == stored \ gone
           B == A \ known
           C == B \ dropped
<1>3. h \notin out
  BY DEF InfohashesDroppedFor
<1>4. gone \subseteq stored /\ known \subseteq A
  BY <1>3 DEF PeersOf
<1>5. dropped \subseteq list /\ (dropped # {} => known = {})
  BY DEF PeersDroppedFor
<1>6. dropped \subseteq B
  BY <1>3, <1>5 DEF PeersOf
<1>7. stored' = C \cup {new}
  BY <1>2
<1>8. \A s \in C : ~(s.infohash = h /\ s.peer = peer)
  BY DEF PeersOf
<1>9. new \notin C
  BY <1>8
<1> HIDE DEF new, A, B, C, gone, known, list
<1>10. /\ IsFiniteSet(A) /\ Cardinality(stored) \in Nat /\ Cardinality(gone) \in Nat
       /\ Cardinality(A) = Cardinality(stored) - Cardinality(gone)
  BY <1>4, RemovePart DEF A
<1>11. /\ IsFiniteSet(B) /\ Cardinality(known) \in Nat
       /\ Cardinality(B) = Cardinality(A) - Cardinality(known)
  BY <1>4, <1>10, RemovePart DEF B
<1>12. /\ IsFiniteSet(C) /\ Cardinality(dropped) \in Nat
       /\ Cardinality(C) = Cardinality(B) - Cardinality(dropped)
  BY <1>6, <1>11, RemovePart DEF C
<1>13. IsFiniteSet(stored') /\ Cardinality(stored') = Cardinality(C) + 1
  BY <1>7, <1>9, <1>12, FS_AddElement
<1>14. Cardinality(known) = IF known = {} THEN 0 ELSE 1
  <2>1. CASE known = {}
    BY <2>1, FS_EmptySet
  <2>2. ASSUME NEW k \in known PROVE known = {k}
    BY <2>2 DEF known, list, PeersOf, PeerCountExact
  <2>3. QED
    BY <2>1, <2>2, FS_Singleton
<1>15. peerCount' = peerCount - Cardinality(gone) - Cardinality(dropped)
                      + (IF known = {} THEN 1 ELSE 0)
  BY <1>2 DEF CountAfter
<1>16. peerCount' = Cardinality(stored')
  <2>1. peerCount = Cardinality(stored)
    BY DEF PeerCountExact
  <2>2. \A s, g, k, d \in Nat : ((s - g) - k) - d + 1 = s - g - d + (1 - k)
    OBVIOUS
  <2>3. (IF known = {} THEN 1 ELSE 0) = 1 - Cardinality(known)
    BY <1>14
  <2>4. QED
    BY <1>10, <1>11, <1>12, <1>13, <1>15, <2>1, <2>2, <2>3
<1>17. \A s, r \in stored' : s.infohash = r.infohash /\ s.peer = r.peer => s = r
  <2>1. new.infohash = h /\ new.peer = peer
    BY DEF new
  <2>2. C \subseteq stored
    BY DEF A, B, C
  <2>3. QED
    BY <1>7, <1>8, <2>1, <2>2 DEF PeerCountExact
<1>18. QED
  BY <1>13, <1>16, <1>17 DEF PeerCountExact

\* expire() drops peers, never the newest of an infohash that keeps any.
LEMMA ExpireStep ==
    ASSUME StoreType, HeldHavePeers, NewestDecides, IsFiniteSet(stored), PeerCountExact,
           now \in Nat, now' = now, expire
    PROVE  /\ StoreType' /\ HeldHavePeers' /\ NewestDecides' /\ stored' \subseteq stored
           /\ IsFiniteSet(stored') /\ PeerCountExact'
<1>1. /\ stored' = stored \ Expired
      /\ Held' = {g \in Held : PeersOf(stored', g) # {}}
      /\ lastAnnounce' = [h \in Held' |-> lastAnnounce[h]]
  BY DEF expire, Held
<1>2. stored' \subseteq stored
  BY <1>1
<1>3. StoreType'
  BY <1>1, <1>2 DEF StoreType
<1>4. HeldHavePeers'
  BY <1>1, <1>2 DEF HeldHavePeers, PeersOf
<1>5. NewestDecides'
  <2>1. SUFFICES ASSUME NEW g \in Held'
                 PROVE  \E s \in PeersOf(stored', g) :
                          /\ lastAnnounce'[g] = s.at
                          /\ \A r \in PeersOf(stored', g) : r.at <= s.at
    BY DEF NewestDecides
  <2>2. g \in Held /\ lastAnnounce'[g] = lastAnnounce[g]
    BY <1>1
  <2>3. PICK s \in PeersOf(stored, g) :
          lastAnnounce[g] = s.at /\ \A r \in PeersOf(stored, g) : r.at <= s.at
    BY <2>2 DEF NewestDecides
  <2>4. PICK r \in PeersOf(stored', g) : TRUE
    BY <1>1
  <2>5. r \in PeersOf(stored, g) /\ r \notin Expired /\ s \in stored /\ r \in stored
    BY <1>1, <2>3, <2>4 DEF PeersOf
  <2>6. r.at <= s.at /\ s.at \in Nat /\ r.at \in Nat
    BY <2>3, <2>5 DEF StoreType
  <2>7. now - r.at < PeerTtlMs
    BY <2>5, <2>6, ServerAssumption DEF Expired
  <2>8. s \notin Expired
    BY <2>6, <2>7, ServerAssumption DEF Expired
  <2>9. s \in PeersOf(stored', g)
    BY <1>1, <2>3, <2>8 DEF PeersOf
  <2>10. QED
    BY <1>2, <2>2, <2>3, <2>9 DEF PeersOf
<1>6. IsFiniteSet(stored') /\ PeerCountExact'
  <2>1. Expired \subseteq stored /\ peerCount' = peerCount - Cardinality(Expired)
    BY DEF Expired, expire
  <2>2. IsFiniteSet(stored') /\ Cardinality(stored') = Cardinality(stored) - Cardinality(Expired)
    BY <1>1, <2>1, RemovePart
  <2>3. QED
    BY <1>2, <2>1, <2>2 DEF PeerCountExact
<1>7. QED
  BY <1>2, <1>3, <1>4, <1>5, <1>6

\* Every reachable state satisfies the inductive invariant.
THEOREM ServerSafety == ServerSpec => []ServerInv
<1>1. ServerInit => ServerInv
  <2> SUFFICES ASSUME ServerInit PROVE ServerInv
    OBVIOUS
  <2>1. TokenInv
    BY DEF ServerInit, Init, TokenInv, TypeOK, SecretInv, IssuanceInv, FreshTokenAccepted,
      StaleTokenRefused
  <2>2. stored = {} /\ Held = {} /\ lastAnnounce \in [Held -> Nat]
    BY DEF ServerInit, Held
  <2>3. peerCount = 0
    BY DEF ServerInit
  <2>4. QED
    BY <2>1, <2>2, <2>3, FS_EmptySet DEF ServerInv, StoreType, HeldHavePeers, PeerCountExact,
      NewestDecides, AnnouncedByHolder
<1>2. ServerInv /\ [ServerNext]_serverVars => ServerInv'
  <2> SUFFICES ASSUME ServerInv, [ServerNext]_serverVars PROVE ServerInv'
    OBVIOUS
  <2>1. TokenInv' /\ now \in Nat
    BY TokenPart DEF ServerInv, TokenInv, TypeOK
  <2>2. CASE \E a \in Addresses : getPeers(a)
    <3>1. UNCHANGED store /\ now' = now /\ issued \subseteq issued'
      BY <2>2 DEF getPeers, generate
    <3>2. QED
      BY <2>1, <3>1 DEF store, ServerInv, StoreType, HeldHavePeers, PeerCountExact, NewestDecides,
        Held, PeersOf, AnnouncedByHolder
  <2>3. ASSUME NEW h \in Infohashes, NEW t \in issued, NEW a \in Addresses, NEW port \in Ports,
               announcePeer(h, t, a, port)
        PROVE  ServerInv'
    <3>1. validate(t, a) /\ now' = now /\ issued' = issued
      BY <2>3 DEF announcePeer, validate
    <3>2. CASE UNCHANGED store
      BY <2>1, <3>1, <3>2 DEF store, ServerInv, StoreType, HeldHavePeers, PeerCountExact,
        NewestDecides, Held, PeersOf, AnnouncedByHolder
    <3>3. CASE Matches(t.token, a) /\ announce(h, <<a, port>>)
      <4>1. /\ StoreType' /\ HeldHavePeers' /\ NewestDecides'
            /\ stored' \subseteq stored \cup {[infohash |-> h, peer |-> <<a, port>>, at |-> now]}
        BY <2>1, <3>1, <3>3, AnnounceStep DEF ServerInv
      <4>2. t.token.address = a /\ now - t.at < 3 * RotationMs
        BY <2>1, <3>1, <3>3 DEF validate, TokenInv, StaleTokenRefused
      <4>3. t.at \in Nat /\ t.at <= now
        BY DEF ServerInv, TokenInv, TypeOK, Issuance, IssuanceInv
      <4>4. now < t.at + 3 * RotationMs
        BY <2>1, <4>2, <4>3, RotationAssumption
      <4>5. AnnouncedByHolder'
        <5>1. SUFFICES ASSUME NEW s \in stored'
                       PROVE  \E i \in issued' : /\ i.token.address = s.peer[1] /\ i.at <= s.at
                                                 /\ s.at < i.at + 3 * RotationMs
          BY DEF AnnouncedByHolder
        <5>2. CASE s \in stored
          BY <3>1, <5>2 DEF ServerInv, AnnouncedByHolder
        <5>3. CASE s = [infohash |-> h, peer |-> <<a, port>>, at |-> now]
          BY <3>1, <4>2, <4>3, <4>4, <5>3
        <5>4. QED
          BY <4>1, <5>2, <5>3
      <4>6. IsFiniteSet(stored') /\ PeerCountExact'
        BY <3>3, AnnounceCount DEF ServerInv
      <4>7. QED
        BY <2>1, <4>1, <4>5, <4>6 DEF ServerInv
    <3>4. QED
      BY <2>3, <3>2, <3>3 DEF announcePeer
  <2>4. CASE expire
    <3>1. now' = now /\ issued' = issued
      BY <2>4 DEF expire, vars
    <3>2. /\ StoreType' /\ HeldHavePeers' /\ NewestDecides' /\ stored' \subseteq stored
          /\ IsFiniteSet(stored') /\ PeerCountExact'
      BY <2>1, <2>4, <3>1, ExpireStep DEF ServerInv
    <3>3. AnnouncedByHolder'
      BY <3>1, <3>2 DEF ServerInv, AnnouncedByHolder
    <3>4. QED
      BY <2>1, <3>2, <3>3 DEF ServerInv
  <2>5. CASE Tick /\ UNCHANGED store
    <3>1. now' \in Nat /\ now <= now' /\ issued' = issued
      BY <2>1, <2>5 DEF Tick
    <3>2. UNCHANGED <<stored, lastAnnounce, peerCount>>
      BY <2>5 DEF store
    <3>3. StoreType'
      BY <2>1, <3>1, <3>2 DEF ServerInv, StoreType, Held
    <3>4. QED
      BY <2>1, <3>1, <3>2, <3>3 DEF ServerInv, HeldHavePeers, PeerCountExact, NewestDecides, Held,
        PeersOf, AnnouncedByHolder
  <2>6. CASE UNCHANGED serverVars
    BY <2>1, <2>6 DEF serverVars, store, ServerInv, StoreType, HeldHavePeers, PeerCountExact,
      NewestDecides, Held, PeersOf, AnnouncedByHolder
  <2>7. QED
    BY <2>2, <2>3, <2>4, <2>5, <2>6 DEF ServerNext
<1>3. QED
  BY <1>1, <1>2, PTL DEF ServerSpec

\* No peer is stored under an address that was not issued a token within three rotation
\* periods before the announcement.
THEOREM HoldersOnly == ServerSpec => []AnnouncedByHolder
<1>1. ServerInv => AnnouncedByHolder
  BY DEF ServerInv
<1>2. QED
  BY <1>1, ServerSafety, PTL

\* The time by which announce() picks the infohash to evict is that of its newest peer.
THEOREM EvictionTime == ServerSpec => []NewestDecides
<1>1. ServerInv => NewestDecides
  BY DEF ServerInv
<1>2. QED
  BY <1>1, ServerSafety, PTL
\* The counter shown in the interface is the number of peers stored, after any sequence of
\* announcements, evictions and expiries.
THEOREM CountIsExact == ServerSpec => []PeerCountExact
<1>1. ServerInv => PeerCountExact
  BY DEF ServerInv
<1>2. QED
  BY <1>1, ServerSafety, PTL

-----------------------------------------------------------------------------
(* RateLimiter                                                             *)

USE LimiterAssumption

\* The credit allow() sees is a natural number no larger than a burst.
LEMMA RefilledType ==
    ASSUME LimiterTypeOK, BucketInv, NEW a \in Addresses
    PROVE  Refilled(a) \in Nat /\ Refilled(a) <= BurstMs
<1>1. CASE a \in DOMAIN buckets
  <2>1. buckets[a].tokens \in Nat /\ buckets[a].last \in Nat /\ now \in Nat
        /\ buckets[a].last <= now
    BY <1>1 DEF LimiterTypeOK, BucketInv, Bucket, Times
  <2>2. QED
    BY <1>1, <2>1 DEF Refilled, LesserOf
<1>2. CASE a \notin DOMAIN buckets
  BY <1>2 DEF Refilled
<1>3. QED
  BY <1>1, <1>2

\* After StoreBucket(a, c) the credit of a is c, and nobody else's changes.
LEMMA StoreEffect ==
    ASSUME LimiterTypeOK, BucketInv, NEW a \in Addresses, NEW c \in Nat, c <= BurstMs,
           StoreBucket(a, c), now' = now
    PROVE  /\ DOMAIN buckets' = DOMAIN buckets \cup {a}
           /\ \A x \in DOMAIN buckets' : buckets'[x] \in Bucket
           /\ BucketInv'
           /\ Refilled(a)' = c
           /\ \A x \in Addresses \ {a} : Refilled(x)' = Refilled(x)
<1>1. /\ DOMAIN buckets' = DOMAIN buckets \cup {a}
      /\ buckets'[a] = [tokens |-> c, last |-> now]
      /\ \A x \in DOMAIN buckets \ {a} : buckets'[x] = buckets[x]
  BY DEF StoreBucket
<1>2. now \in Nat /\ now \in Times
  BY DEF LimiterTypeOK, Times
<1>3. \A x \in DOMAIN buckets' : buckets'[x] \in Bucket
  BY <1>1, <1>2 DEF LimiterTypeOK, Bucket
<1>4. buckets'[a].tokens = c /\ buckets'[a].last = now
  BY <1>1
<1>5. BucketInv'
  BY <1>1, <1>2, <1>4 DEF BucketInv
<1>6. Refilled(a)' = c
  <2>1. a \in DOMAIN buckets'
    BY <1>1
  <2>2. c + (now - now) = c
    BY <1>2
  <2>3. QED
    BY <1>4, <2>1, <2>2 DEF Refilled, LesserOf
<1>7. \A x \in Addresses \ {a} : Refilled(x)' = Refilled(x)
  BY <1>1 DEF Refilled
<1>8. QED
  BY <1>1, <1>3, <1>5, <1>6, <1>7

\* A pruned bucket had already refilled, so prune() changes nobody's credit.
LEMMA PruneEffect ==
    ASSUME LimiterTypeOK, BucketInv, prune, NEW a \in Addresses
    PROVE  Refilled(a)' = Refilled(a)
<1>1. now' = now /\ now \in Nat /\ DOMAIN buckets' = Kept
      /\ \A x \in Kept : buckets'[x] = buckets[x]
  BY DEF prune, LimiterTypeOK, Times
<1>2. CASE a \in Kept
  BY <1>1, <1>2 DEF Refilled, Kept
<1>3. CASE a \in DOMAIN buckets /\ a \notin Kept
  <2>1. buckets[a].tokens \in Nat /\ buckets[a].last \in Nat
    BY <1>3 DEF LimiterTypeOK, Bucket, Times
  <2>2. now - buckets[a].last > BurstMs
    BY <1>1, <1>3, <2>1 DEF Kept
  <2>3. Refilled(a) = BurstMs
    BY <1>1, <1>3, <2>1, <2>2 DEF Refilled, LesserOf
  <2>4. Refilled(a)' = BurstMs
    BY <1>1, <1>3 DEF Refilled
  <2>5. QED
    BY <2>3, <2>4
<1>4. CASE a \notin DOMAIN buckets
  BY <1>1, <1>4 DEF Refilled, Kept
<1>5. QED
  BY <1>2, <1>3, <1>4

\* Capping twice is capping once.
LEMMA CapTwice ==
    \A b, x, d, e \in Nat :
        LesserOf(b, x + (d + e)) = LesserOf(b, LesserOf(b, x + d) + e)
  BY DEF LesserOf

\* Elapsed times add up.
LEMMA ElapsedAdds ==
    \A p, q, r \in Nat :
        p <= q /\ q <= r =>
            /\ q - p \in Nat /\ r - q \in Nat
            /\ r - p = (q - p) + (r - q)
  OBVIOUS

\* When the clock moves, every credit grows by what elapsed, up to the burst:
\* the lazy refill composes.
LEMMA TickEffect ==
    ASSUME LimiterTypeOK, BucketInv, now' \in Nat, now <= now', buckets' = buckets,
           NEW a \in Addresses
    PROVE  Refilled(a)' = LesserOf(BurstMs, Refilled(a) + (now' - now))
<1>1. now \in Nat
  BY DEF LimiterTypeOK, Times
<1>2. CASE a \in DOMAIN buckets
  <2> DEFINE x == buckets[a].tokens
             d == now - buckets[a].last
             e == now' - now
  <2>1. x \in Nat /\ buckets[a].last \in Nat /\ buckets[a].last <= now
    BY <1>2 DEF LimiterTypeOK, BucketInv, Bucket, Times
  <2>2. d \in Nat /\ e \in Nat /\ now' - buckets[a].last = d + e
    BY <1>1, <2>1, ElapsedAdds
  <2>3. Refilled(a)' = LesserOf(BurstMs, x + (d + e))
    BY <1>2, <2>2 DEF Refilled
  <2>4. Refilled(a) = LesserOf(BurstMs, x + d)
    BY <1>2 DEF Refilled
  <2>5. BurstMs \in Nat
    OBVIOUS
  <2>6. LesserOf(BurstMs, x + (d + e)) = LesserOf(BurstMs, LesserOf(BurstMs, x + d) + e)
    BY <2>1, <2>2, <2>5, CapTwice
  <2>7. QED
    BY <2>3, <2>4, <2>6
<1>3. CASE a \notin DOMAIN buckets
  BY <1>1, <1>3 DEF Refilled, LesserOf
<1>4. QED
  BY <1>2, <1>3

\* allow() granting a datagram keeps the invariant: what it takes from the
\* bucket is exactly what it adds to every open window.
LEMMA AllowedStep ==
    ASSUME LimiterInv, NEW a \in Addresses, Allowed(a)
    PROVE  LimiterInv'
<1>0. LimiterTypeOK /\ BucketInv /\ WindowCredit
  BY DEF LimiterInv
<1> DEFINE c == Refilled(a) - CostMs
<1>1. /\ Refilled(a) \in Nat /\ Refilled(a) <= BurstMs
      /\ \A x \in Addresses : Refilled(x) \in Nat
  BY <1>0, RefilledType
<1>2. Refilled(a) >= CostMs /\ StoreBucket(a, c) /\ Charge(a) /\ now' = now
  BY DEF Allowed
<1>3. c \in Nat /\ c <= BurstMs
  BY <1>1, <1>2
<1> HIDE DEF c
<1>4. /\ DOMAIN buckets' = DOMAIN buckets \cup {a}
      /\ \A x \in DOMAIN buckets' : buckets'[x] \in Bucket
      /\ BucketInv'
      /\ Refilled(a)' = c
      /\ \A x \in Addresses \ {a} : Refilled(x)' = Refilled(x)
  BY <1>0, <1>2, <1>3, StoreEffect
<1>5. /\ spent \in [Addresses -> [Times -> Nat]]
      /\ spent' \in [Addresses -> [Times -> Nat]]
      /\ \A s \in Times : spent'[a][s] =
           IF s <= now THEN spent[a][s] + CostMs ELSE spent[a][s]
      /\ \A x \in Addresses \ {a} : spent'[x] = spent[x]
  BY <1>0, <1>2 DEF Charge, LimiterTypeOK
<1>6. LimiterTypeOK'
  BY <1>0, <1>2, <1>4, <1>5 DEF LimiterTypeOK
<1>7. WindowCredit'
  <2> SUFFICES ASSUME NEW x \in Addresses, NEW s \in Times
               PROVE  IF s <= now
                      THEN spent'[x][s] + Refilled(x)' <= BurstMs + (now - s)
                      ELSE spent'[x][s] = 0
    BY <1>2 DEF WindowCredit
  <2>1. CASE x = a
    <3>1. c + CostMs = Refilled(a)
      BY <1>1, <1>2 DEF c
    <3>2. spent[a][s] \in Nat
      BY <1>5
    <3>3. s <= now => spent[a][s] + CostMs + c <= BurstMs + (now - s)
      BY <1>0, <1>3, <3>1, <3>2 DEF WindowCredit
    <3>4. ~(s <= now) => spent[a][s] = 0
      BY <1>0 DEF WindowCredit
    <3>5. QED
      BY <2>1, <1>4, <1>5, <3>3, <3>4
  <2>2. CASE x # a
    BY <2>2, <1>0, <1>4, <1>5 DEF WindowCredit
  <2>3. QED
    BY <2>1, <2>2
<1>8. QED
  BY <1>4, <1>6, <1>7 DEF LimiterInv

\* allow() refusing a datagram keeps the invariant.
LEMMA DeniedStep ==
    ASSUME LimiterInv, NEW a \in Addresses, Denied(a)
    PROVE  LimiterInv'
<1>0. LimiterTypeOK /\ BucketInv /\ WindowCredit
  BY DEF LimiterInv
<1> DEFINE c == Refilled(a)
<1>1. c \in Nat /\ c <= BurstMs
  BY <1>0, RefilledType
<1>2. StoreBucket(a, c) /\ now' = now /\ spent' = spent
  BY DEF Denied
<1>3. /\ DOMAIN buckets' = DOMAIN buckets \cup {a}
      /\ \A x \in DOMAIN buckets' : buckets'[x] \in Bucket
      /\ BucketInv'
      /\ \A x \in Addresses : Refilled(x)' = Refilled(x)
  BY <1>0, <1>1, <1>2, StoreEffect
<1>4. QED
  BY <1>0, <1>2, <1>3 DEF LimiterInv, LimiterTypeOK, WindowCredit

\* Time passing earns no more than it widens each window by.
LEMMA TickStep ==
    ASSUME LimiterInv, LimiterTick
    PROVE  LimiterInv'
<1>0. LimiterTypeOK /\ BucketInv /\ WindowCredit
  BY DEF LimiterInv
<1>1. /\ now' \in Times /\ now' \in Nat /\ now \in Nat /\ now < now'
      /\ buckets' = buckets /\ spent' = spent
  BY <1>0 DEF LimiterTick, Times, LimiterTypeOK
<1>2. LimiterTypeOK'
  BY <1>0, <1>1 DEF LimiterTypeOK
<1>3. BucketInv'
  BY <1>0, <1>1 DEF BucketInv, LimiterTypeOK, Bucket, Times
<1>4. WindowCredit'
  <2> SUFFICES ASSUME NEW x \in Addresses, NEW s \in Times
               PROVE  IF s <= now'
                      THEN spent[x][s] + Refilled(x)' <= BurstMs + (now' - s)
                      ELSE spent[x][s] = 0
    BY <1>1 DEF WindowCredit
  <2>1. Refilled(x)' = LesserOf(BurstMs, Refilled(x) + (now' - now))
    BY <1>0, <1>1, TickEffect
  <2>2. Refilled(x) \in Nat /\ Refilled(x) <= BurstMs
    BY <1>0, RefilledType
  <2>3. spent[x][s] \in Nat /\ s \in Nat
    BY <1>0 DEF LimiterTypeOK, Times
  <2>4. \A sp, rf, b, n, m, z \in Nat :
          n < m =>
            /\ z <= n /\ sp + rf <= b + (n - z) =>
                 sp + LesserOf(b, rf + (m - n)) <= b + (m - z)
            /\ n < z /\ z <= m => LesserOf(b, rf + (m - n)) <= b + (m - z)
    BY DEF LesserOf
  <2>5. CASE s <= now
    <3>1. spent[x][s] + Refilled(x) <= BurstMs + (now - s)
      BY <1>0, <2>5 DEF WindowCredit
    <3>2. spent[x][s] + LesserOf(BurstMs, Refilled(x) + (now' - now)) <= BurstMs + (now' - s)
      BY <1>1, <2>2, <2>3, <2>4, <2>5, <3>1
    <3>3. QED
      BY <1>1, <2>1, <2>3, <2>5, <3>2
  <2>6. CASE ~(s <= now)
    <3>1. spent[x][s] = 0
      BY <1>0, <2>6 DEF WindowCredit
    <3>2. now < s
      BY <1>1, <2>3, <2>6
    <3>3. s <= now' => LesserOf(BurstMs, Refilled(x) + (now' - now)) <= BurstMs + (now' - s)
      BY <1>1, <2>2, <2>3, <2>4, <3>2
    <3>4. \A b, rf, n, m \in Nat : n < m => LesserOf(b, rf + (m - n)) \in Nat
      BY DEF LesserOf
    <3>5. LesserOf(BurstMs, Refilled(x) + (now' - now)) \in Nat
      BY <1>1, <2>2, <3>4
    <3>6. QED
      BY <2>1, <3>1, <3>3, <3>5
  <2>7. QED
    BY <2>5, <2>6
<1>5. QED
  BY <1>2, <1>3, <1>4 DEF LimiterInv

\* Forgetting buckets keeps the invariant.
LEMMA PruneStep ==
    ASSUME LimiterInv, prune
    PROVE  LimiterInv'
<1>0. LimiterTypeOK /\ BucketInv /\ WindowCredit
  BY DEF LimiterInv
<1>1. \A a \in Addresses : Refilled(a)' = Refilled(a)
  BY <1>0, PruneEffect
<1>2. /\ now' = now /\ spent' = spent /\ DOMAIN buckets' = Kept
      /\ Kept \subseteq DOMAIN buckets
      /\ \A x \in Kept : buckets'[x] = buckets[x]
  BY DEF prune, Kept
<1>3. QED
  BY <1>0, <1>1, <1>2 DEF LimiterInv, LimiterTypeOK, BucketInv, WindowCredit

-----------------------------------------------------------------------------
\* The limiter starts with no bucket, that is with every bucket full.
LEMMA InitStep ==
    ASSUME LimiterInit
    PROVE  LimiterInv
<1>1. LimiterTypeOK /\ BucketInv
  BY DEF LimiterInit, LimiterTypeOK, BucketInv, Times
<1>2. \A a \in Addresses : Refilled(a) = BurstMs
  BY DEF LimiterInit, Refilled
<1>3. now = 0 /\ \A a \in Addresses, s \in Times : spent[a][s] = 0
  BY DEF LimiterInit
<1>4. \A s \in Times : s <= 0 => s = 0
  BY DEF Times
<1>5. WindowCredit
  BY <1>2, <1>3, <1>4 DEF WindowCredit
<1>6. QED
  BY <1>1, <1>5 DEF LimiterInv

\* The bound on a window follows from the invariant: the credit left in the
\* bucket is never negative.
LEMMA CreditBoundsWindow == LimiterInv => WindowBound
<1> SUFFICES ASSUME LimiterInv, NEW a \in Addresses, NEW s \in Times, s <= now
             PROVE  spent[a][s] <= BurstMs + (now - s)
  BY DEF WindowBound
<1>1. Refilled(a) \in Nat
  BY RefilledType DEF LimiterInv
<1>2. spent[a][s] \in Nat /\ now \in Nat /\ s \in Nat
  BY DEF LimiterInv, LimiterTypeOK, Times
<1>3. spent[a][s] + Refilled(a) <= BurstMs + (now - s)
  BY DEF LimiterInv, WindowCredit
<1>4. \A sp, rf, b, n, z \in Nat : sp + rf <= b + (n - z) => sp <= b + (n - z)
  OBVIOUS
<1>5. QED
  BY <1>1, <1>2, <1>3, <1>4

\* The bucket code keeps its inductive invariant.
THEOREM LimiterSafety == LimiterSpec => []LimiterInv
<1>1. LimiterInit => LimiterInv
  BY InitStep
<1>2. LimiterInv /\ [LimiterNext]_limiterVars => LimiterInv'
  <2> SUFFICES ASSUME LimiterInv, [LimiterNext]_limiterVars
               PROVE  LimiterInv'
    OBVIOUS
  <2>1. ASSUME NEW a \in Addresses, allow(a) PROVE LimiterInv'
    BY <2>1, AllowedStep, DeniedStep DEF allow
  <2>2. CASE prune
    BY <2>2, PruneStep
  <2>3. CASE LimiterTick
    BY <2>3, TickStep
  <2>4. CASE UNCHANGED limiterVars
    BY <2>4 DEF limiterVars, LimiterInv, LimiterTypeOK, BucketInv, WindowCredit, Refilled
  <2>5. QED
    BY <2>1, <2>2, <2>3, <2>4 DEF LimiterNext
<1>3. QED
  BY <1>1, <1>2, PTL DEF LimiterSpec

\* However calls, refusals and prunes fall, no window of any length grants an
\* address more than one burst plus the credit the window itself earned.
THEOREM LimiterWindow == LimiterSpec => []WindowBound
  BY LimiterSafety, CreditBoundsWindow, PTL

\* Lazy buckets with forgetting implement the eager credit of HostAllowance.
THEOREM LimiterRefines == LimiterSpec => ImplementsAllowance
<1> DEFINE credit == [a \in Addresses |-> Refilled(a)]
<1>1. LimiterInit => Abstract!AInit
  BY DEF LimiterInit, Abstract!AInit, Refilled
<1>2. LimiterInv /\ [LimiterNext]_limiterVars => [Abstract!ANext]_(Abstract!avars)
  <2> SUFFICES ASSUME LimiterInv, [LimiterNext]_limiterVars
               PROVE  Abstract!ANext \/ (now' = now /\ credit' = credit)
    BY DEF Abstract!avars
  <2>0. LimiterTypeOK /\ BucketInv /\ \A a \in Addresses : Refilled(a) \in Nat /\ Refilled(a) <= BurstMs
    BY RefilledType DEF LimiterInv
  <2>1. ASSUME NEW a \in Addresses, Allowed(a) PROVE Abstract!Grant(a)
    <3> DEFINE c == Refilled(a) - CostMs
    <3>1. c \in Nat /\ c <= BurstMs /\ StoreBucket(a, c) /\ now' = now
          /\ Refilled(a) >= CostMs
      BY <2>0, <2>1 DEF Allowed
    <3> HIDE DEF c
    <3>2. Refilled(a)' = c /\ \A x \in Addresses \ {a} : Refilled(x)' = Refilled(x)
      BY <2>0, <3>1, StoreEffect
    <3>3. c = Refilled(a) - CostMs
      BY DEF c
    <3>4. credit' = [x \in Addresses |-> Refilled(x)']
      OBVIOUS
    <3>5. credit' = [credit EXCEPT ![a] = @ - CostMs]
      BY <3>2, <3>3
    <3>6. QED
      BY <3>1, <3>5 DEF Abstract!Grant
  <2>2. ASSUME NEW a \in Addresses, Denied(a) PROVE now' = now /\ credit' = credit
    BY <2>0, <2>2, StoreEffect DEF Denied
  <2>3. CASE prune
    BY <2>0, <2>3, PruneEffect DEF prune
  <2>4. CASE LimiterTick
    <3>1. now' \in Nat /\ now' > now /\ now <= now' /\ buckets' = buckets
      BY <2>0, <2>4 DEF LimiterTick, LimiterTypeOK, Times
    <3>2. \A a \in Addresses : Refilled(a)' = LesserOf(BurstMs, Refilled(a) + (now' - now))
      BY <2>0, <3>1, TickEffect
    <3>3. QED
      BY <3>1, <3>2 DEF Abstract!ANext, Abstract!Elapse, Abstract!Least, LesserOf
  <2>5. CASE UNCHANGED limiterVars
    BY <2>5 DEF limiterVars, Refilled
  <2>6. QED
    BY <2>1, <2>2, <2>3, <2>4, <2>5 DEF LimiterNext, allow, Abstract!ANext
<1>3. QED
  BY <1>1, <1>2, LimiterSafety, PTL DEF LimiterSpec, ImplementsAllowance, Abstract!ASpec

-----------------------------------------------------------------------------
(* ItemServer                                                              *)

USE ItemAssumption

-----------------------------------------------------------------------------
(* The invariant                                                           *)

\* What is remembered of the last read of a client.
ReadRecord == [target : {{}} \cup {{t} : t \in MutableTargets}, seq : Nat,
               since : {"nothing", "written", "dropped"}]

\* What a client read is still there unless it was noticed to be dropped, under
\* no lower sequence number, and under a higher one once somebody else wrote.
ReadInv ==
    \A a \in Addresses : \A t \in read[a].target :
        read[a].since # "dropped" =>
            /\ t \in DOMAIN mutable /\ mutable[t].seq >= read[a].seq
            /\ read[a].since = "written" => mutable[t].seq > read[a].seq

\* An item names the client that wrote it.
Records == \A t \in DOMAIN mutable : mutable[t] \in [seq : Nat, value : Addresses, storedAt : Nat]

\* The inductive invariant of the items.
ItemInv ==
    /\ ItemTypeOK /\ Records /\ IsFiniteSet(ItemsHeld)
    /\ read \in [Addresses -> ReadRecord] /\ ReadInv

\* What a step may do to the items that stay and to those that go.
SeqsGrow ==
    \A t \in DOMAIN mutable \cap DOMAIN mutable' :
        /\ mutable'[t].seq >= mutable[t].seq
        /\ mutable'[t].value # mutable[t].value => mutable'[t].seq > mutable[t].seq

\* An item goes when it has expired, or as the oldest of a full store to make room.
DropsOldest ==
    \A t \in ItemsHeld \ (DOMAIN immutable' \cup DOMAIN mutable') :
        \/ now - StoredAt(t) >= ItemTtlMs
        \/ /\ Cardinality(ItemsHeld) = MaxItems /\ \A u \in ItemsHeld : StoredAt(t) <= StoredAt(u)
           /\ \E u \in DOMAIN immutable' \cup DOMAIN mutable' : u \notin ItemsHeld

-----------------------------------------------------------------------------
(* The handlers on the limiter                                             *)

\* Every step of the handlers is a step of the limiter or leaves it alone.
LEMMA LimiterSteps ==
    [ItemNext]_itemVars => [LimiterNext]_limiterVars
<1> SUFFICES ASSUME ItemNext PROVE [LimiterNext]_limiterVars
  BY DEF itemVars, limiterVars
<1>1. ASSUME NEW a \in Addresses, Allowed(a) \/ Denied(a) PROVE LimiterNext
  BY <1>1 DEF LimiterNext, allow
<1>2. CASE \E a \in Addresses :
             \/ otherQuery(a)
             \/ \E t \in ImmutableTargets : handlePutImmutable(a, t)
             \/ \E t \in MutableTargets :
                  \/ handleGet(a, t)
                  \/ \E seq \in Sequences : handlePut(a, t, seq) \/ handlePutCas(a, t, seq)
  BY <1>1, <1>2 DEF otherQuery, handlePutImmutable, handleGet, handlePut, handlePutCas, allow
<1>3. CASE expireItems
  BY <1>3 DEF expireItems, limiterVars
<1>4. CASE (prune \/ LimiterTick) /\ UNCHANGED items
  BY <1>4 DEF LimiterNext
<1>5. QED
  BY <1>2, <1>3, <1>4 DEF ItemNext

\* The query handlers use the limiter as RateLimiter.tla says, so what is proved
\* of it (the bound on every window, the refinement of HostAllowance) holds of
\* what the handlers answer.
THEOREM ItemsBehindLimiter == ItemSpec => LimiterSpec
<1>1. ItemInit => LimiterInit
  BY DEF ItemInit
<1>2. QED
  BY <1>1, LimiterSteps, PTL DEF ItemSpec, LimiterSpec

\* The clock never goes back.
LEMMA ClockGrows ==
    ASSUME LimiterTypeOK, [LimiterNext]_limiterVars
    PROVE  now \in Nat /\ now' \in Nat /\ now <= now'
<1>1. now \in Nat
  BY DEF LimiterTypeOK, Times
<1>2. CASE LimiterTick
  BY <1>1, <1>2 DEF LimiterTick, Times
<1>3. CASE now' = now
  BY <1>1, <1>3
<1>4. QED
  BY <1>2, <1>3 DEF LimiterNext, limiterVars, allow, Allowed, Denied, prune

-----------------------------------------------------------------------------
(* Reads                                                                   *)

\* However items are dropped and written, the reads are kept up with it, given
\* that what stays keeps its sequence number or gets a higher one.
LEMMA ReadsKept ==
    ASSUME ItemInv, NEW gone, NEW written, NEW by,
           read' = ReadsAfter(gone, written, by),
           \A t \in DOMAIN mutable \ gone :
              /\ t \in DOMAIN mutable' /\ mutable'[t].seq \in Nat
              /\ mutable'[t].seq >= mutable[t].seq,
           \A t \in written : t \in DOMAIN mutable \ gone => mutable'[t].seq > mutable[t].seq
    PROVE  read' \in [Addresses -> ReadRecord] /\ ReadInv'
<1>0. /\ read \in [Addresses -> ReadRecord] /\ ReadInv
      /\ \A t \in DOMAIN mutable : mutable[t].seq \in Nat
  BY DEF ItemInv, ItemTypeOK
<1> DEFINE After(a) ==
        IF read[a].target \cap gone # {} THEN [read[a] EXCEPT !.since = "dropped"]
        ELSE IF read[a].target \cap written # {} /\ a # by /\ read[a].since = "nothing"
        THEN [read[a] EXCEPT !.since = "written"]
        ELSE read[a]
<1>1. \A a \in Addresses : read'[a] = After(a)
  BY DEF ReadsAfter
<1>2. read' = [a \in Addresses |-> After(a)]
  BY DEF ReadsAfter
<1>3. ASSUME NEW a \in Addresses
      PROVE  /\ After(a) \in ReadRecord
             /\ \A t \in read'[a].target : read'[a].since # "dropped" =>
                  /\ t \in DOMAIN mutable' /\ mutable'[t].seq >= read'[a].seq
                  /\ read'[a].since = "written" => mutable'[t].seq > read'[a].seq
  <2>1. read[a] \in ReadRecord
    BY <1>0
  <2>2. read[a].seq \in Nat /\ \A t, u \in read[a].target : t = u
    BY <2>1 DEF ReadRecord
  <2>3. /\ read[a].target \in {{}} \cup {{t} : t \in MutableTargets}
        /\ read[a].since \in {"nothing", "written", "dropped"}
    BY <2>1 DEF ReadRecord
  <2>4. CASE read[a].target \cap gone # {}
    <3>1. /\ After(a).target = read[a].target /\ After(a).seq = read[a].seq
          /\ After(a).since = "dropped" /\ After(a) \in ReadRecord
      BY <2>1, <2>4 DEF ReadRecord
    <3>2. QED
      BY <1>1, <3>1
  <2>5. CASE read[a].target \cap gone = {} /\ read[a].target \cap written # {} /\ a # by
             /\ read[a].since = "nothing"
    <3>1. /\ After(a).target = read[a].target /\ After(a).seq = read[a].seq
          /\ After(a).since = "written" /\ After(a) \in ReadRecord
      BY <2>1, <2>5 DEF ReadRecord
    <3> HIDE DEF After
    <3>2. \A t \in read[a].target : t \in written /\ t \in DOMAIN mutable \ gone
                                    /\ mutable[t].seq >= read[a].seq
      BY <1>0, <2>2, <2>5 DEF ReadInv
    <3>3. ASSUME NEW t \in read[a].target
          PROVE  /\ t \in DOMAIN mutable' /\ mutable'[t].seq > read[a].seq
                 /\ mutable'[t].seq >= read[a].seq
      <4>1. /\ t \in DOMAIN mutable' /\ mutable'[t].seq > mutable[t].seq
            /\ mutable'[t].seq \in Nat /\ mutable[t].seq \in Nat /\ mutable[t].seq >= read[a].seq
        BY <1>0, <3>2
      <4>2. QED
        BY <2>2, <4>1
    <3>4. QED
      BY <1>1, <3>1, <3>3
  <2>6. CASE read[a].target \cap gone = {} /\ ~(read[a].target \cap written # {} /\ a # by
             /\ read[a].since = "nothing")
    <3>1. After(a) = read[a]
      BY <2>6
    <3> HIDE DEF After
    <3>2. ASSUME NEW t \in read[a].target, read[a].since # "dropped"
          PROVE  /\ t \in DOMAIN mutable' /\ mutable'[t].seq >= read[a].seq
                 /\ read[a].since = "written" => mutable'[t].seq > read[a].seq
      <4>1. /\ t \in DOMAIN mutable \ gone /\ mutable[t].seq >= read[a].seq
            /\ read[a].since = "written" => mutable[t].seq > read[a].seq
        BY <1>0, <2>6, <3>2 DEF ReadInv
      <4>2. /\ t \in DOMAIN mutable' /\ mutable'[t].seq >= mutable[t].seq
            /\ mutable'[t].seq \in Nat /\ mutable[t].seq \in Nat
        BY <1>0, <4>1
      <4>3. \A x, y, z \in Nat : x >= y /\ y >= z => x >= z /\ (y > z => x > z)
        OBVIOUS
      <4>4. QED
        BY <2>2, <4>1, <4>2, <4>3
    <3>3. QED
      BY <1>1, <2>1, <3>1, <3>2
  <2>7. QED
    BY <2>4, <2>5, <2>6
<1> HIDE DEF After
<1>4. read' \in [Addresses -> ReadRecord]
  BY <1>2, <1>3
<1>5. QED
  BY <1>3, <1>4 DEF ReadInv

-----------------------------------------------------------------------------
(* Making room                                                             *)

\* makeRoom() drops nothing, or one of the oldest of a storage that is full.
LEMMA GoneIsOldest ==
    ASSUME ItemInv, NEW gone \in makeRoom
    PROVE  /\ gone \subseteq ItemsHeld
           /\ \A t \in gone : /\ Cardinality(ItemsHeld) = MaxItems
                              /\ \A u \in ItemsHeld : StoredAt(t) <= StoredAt(u)
<1>1. Cardinality(ItemsHeld) \in Nat /\ Cardinality(ItemsHeld) <= MaxItems /\ MaxItems \in Nat
  BY FS_CardinalityType DEF ItemInv, ItemTypeOK
<1>2. CASE IsFull
  <2>1. PICK o \in Oldest : gone = {o}
    BY <1>2 DEF makeRoom
  <2>2. Cardinality(ItemsHeld) = MaxItems
    BY <1>1, <1>2 DEF IsFull
  <2>3. QED
    BY <2>1, <2>2 DEF Oldest
<1>3. CASE ~IsFull
  BY <1>3 DEF makeRoom
<1>4. QED
  BY <1>2, <1>3

\* After it there is room for one more.
LEMMA RoomForOne ==
    ASSUME ItemInv, NEW gone \in makeRoom, NEW t, t \notin ItemsHeld
    PROVE  /\ IsFiniteSet((ItemsHeld \ gone) \cup {t})
           /\ Cardinality((ItemsHeld \ gone) \cup {t}) <= MaxItems
<1> DEFINE H == ItemsHeld
<1>1. IsFiniteSet(H) /\ Cardinality(H) \in Nat /\ Cardinality(H) <= MaxItems /\ MaxItems \in Nat
  BY FS_CardinalityType DEF ItemInv, ItemTypeOK
<1>2. CASE IsFull
  <2>1. PICK o \in H : gone = {o}
    BY <1>2 DEF makeRoom, Oldest
  <2> HIDE DEF H
  <2>2. IsFiniteSet(H \ {o}) /\ Cardinality(H \ {o}) = Cardinality(H) - 1
    BY <1>1, <2>1, FS_RemoveElement
  <2>3. t \notin H \ {o}
    BY DEF H
  <2>4. /\ IsFiniteSet((H \ {o}) \cup {t})
        /\ Cardinality((H \ {o}) \cup {t}) = Cardinality(H \ {o}) + 1
    BY <2>2, <2>3, FS_AddElement
  <2>5. Cardinality((H \ {o}) \cup {t}) <= MaxItems
    BY <1>1, <2>2, <2>4
  <2>6. QED
    BY <2>1, <2>4, <2>5 DEF H
<1>3. CASE ~IsFull
  <2>1. gone = {} /\ Cardinality(H) < MaxItems
    BY <1>1, <1>3 DEF makeRoom, IsFull
  <2>2. H \ gone = H /\ t \notin H
    BY <2>1
  <2> HIDE DEF H
  <2>3. IsFiniteSet(H \cup {t}) /\ Cardinality(H \cup {t}) = Cardinality(H) + 1
    BY <1>1, <2>2, FS_AddElement
  <2>4. Cardinality(H \cup {t}) <= MaxItems
    BY <1>1, <2>1, <2>3
  <2>5. QED
    BY <2>2, <2>3, <2>4 DEF H
<1>4. QED
  BY <1>2, <1>3

\* Fewer items are still within the limit.
LEMMA FewerItems ==
    ASSUME ItemInv, NEW H, H \subseteq ItemsHeld
    PROVE  IsFiniteSet(H) /\ Cardinality(H) <= MaxItems
<1>1. /\ IsFiniteSet(ItemsHeld) /\ Cardinality(ItemsHeld) \in Nat /\ Cardinality(ItemsHeld) <= MaxItems
      /\ MaxItems \in Nat
  BY FS_CardinalityType DEF ItemInv, ItemTypeOK
<1>2. IsFiniteSet(H) /\ Cardinality(H) <= Cardinality(ItemsHeld)
  BY <1>1, FS_Subset
<1>3. Cardinality(H) \in Nat
  BY <1>2, FS_CardinalityType
<1>4. QED
  BY <1>1, <1>2, <1>3

-----------------------------------------------------------------------------
(* The steps                                                               *)

\* What every step of the storage has to show.
Good == ItemInv' /\ SeqsGrow /\ DropsOldest

\* A step that leaves the items alone, as a refused put or another query does.
LEMMA NothingStored ==
    ASSUME ItemInv, now \in Nat, now' \in Nat, now <= now', UNCHANGED items
    PROVE  Good
<1>1. immutable' = immutable /\ mutable' = mutable /\ read' = read
  BY DEF items
<1>2. /\ ItemsHeld' = ItemsHeld /\ \A x \in 0..now : x \in 0..now'
      /\ \A t \in DOMAIN mutable : mutable[t].seq \in Nat
  BY <1>1 DEF ItemsHeld, ItemInv, ItemTypeOK
<1>3. ItemTypeOK'
  BY <1>1, <1>2 DEF ItemInv, ItemTypeOK
<1>4. ItemInv'
  BY <1>1, <1>2, <1>3 DEF ItemInv, ReadInv, Records
<1>5. SeqsGrow
  BY <1>1, <1>2 DEF SeqsGrow
<1>6. DropsOldest
  BY <1>1 DEF DropsOldest, ItemsHeld
<1>7. QED
  BY <1>4, <1>5, <1>6 DEF Good

\* A client reads an item: what it knows of is the present one.
LEMMA GetStep ==
    ASSUME ItemInv, now \in Nat, now' = now, NEW a \in Addresses, NEW t \in DOMAIN mutable,
           read' = [read EXCEPT ![a] = [target |-> {t}, seq |-> mutable[t].seq, since |-> "nothing"]],
           UNCHANGED <<immutable, mutable>>
    PROVE  Good
<1> DEFINE r == [target |-> {t}, seq |-> mutable[t].seq, since |-> "nothing"]
<1>1. /\ ItemsHeld' = ItemsHeld /\ t \in MutableTargets
      /\ \A u \in DOMAIN mutable : mutable[u].seq \in Nat
  BY DEF ItemsHeld, ItemInv, ItemTypeOK
<1>2. r \in ReadRecord
  BY <1>1 DEF ReadRecord
<1>3. r.target = {t} /\ r.seq = mutable[t].seq /\ r.since = "nothing" /\ r.seq \in Nat
  BY <1>1
<1>4. read \in [Addresses -> ReadRecord]
  BY DEF ItemInv
<1> HIDE DEF r
<1>5. /\ read' \in [Addresses -> ReadRecord] /\ read'[a] = r
      /\ \A b \in Addresses \ {a} : read'[b] = read[b]
  BY <1>2, <1>4 DEF r
<1>6. ASSUME NEW b \in Addresses, NEW u \in read'[b].target, read'[b].since # "dropped"
      PROVE  /\ u \in DOMAIN mutable /\ mutable[u].seq >= read'[b].seq
             /\ read'[b].since = "written" => mutable[u].seq > read'[b].seq
  <2>1. CASE b = a
    BY <1>3, <1>5, <1>6, <2>1
  <2>2. CASE b # a
    BY <1>5, <1>6, <2>2 DEF ItemInv, ReadInv
  <2>3. QED
    BY <2>1, <2>2
<1>7. ReadInv'
  BY <1>6 DEF ReadInv
<1>8. ItemTypeOK'
  BY <1>1 DEF ItemInv, ItemTypeOK
<1>9. ItemInv'
  BY <1>1, <1>5, <1>7, <1>8 DEF ItemInv, Records
<1>10. SeqsGrow
  BY <1>1 DEF SeqsGrow
<1>11. DropsOldest
  BY DEF DropsOldest, ItemsHeld
<1>12. QED
  BY <1>9, <1>10, <1>11 DEF Good

\* An immutable item is refreshed, or stored with room made for it.
LEMMA PutImmutableStep ==
    ASSUME ItemInv, now \in Nat, now' = now, NEW t \in ImmutableTargets, putImmutable(t)
    PROVE  Good
<1>0. /\ DOMAIN immutable \subseteq ImmutableTargets /\ DOMAIN mutable \subseteq MutableTargets
      /\ \A u \in DOMAIN immutable : immutable[u] \in 0..now
      /\ \A u \in DOMAIN mutable :
           mutable[u].seq \in Nat /\ mutable[u].value \in Addresses /\ mutable[u].storedAt \in 0..now
      /\ now \in 0..now
  BY DEF ItemInv, ItemTypeOK
<1>1. CASE t \in DOMAIN immutable /\ immutable' = [immutable EXCEPT ![t] = now]
           /\ UNCHANGED <<mutable, read>>
  <2>1. DOMAIN immutable' = DOMAIN immutable
        /\ \A u \in DOMAIN immutable : immutable'[u] = IF u = t THEN now ELSE immutable[u]
    BY <1>1
  <2>2. ItemsHeld' = ItemsHeld
    BY <1>1, <2>1 DEF ItemsHeld
  <2>3. \A u \in DOMAIN immutable' : immutable'[u] \in 0..now
    BY <1>0, <2>1
  <2>4. ItemTypeOK'
    BY <1>0, <1>1, <2>1, <2>2, <2>3 DEF ItemInv, ItemTypeOK
  <2>5. ItemInv'
    BY <1>1, <2>2, <2>4 DEF ItemInv, ReadInv, Records
  <2>6. SeqsGrow
    BY <1>0, <1>1 DEF SeqsGrow
  <2>7. DropsOldest
    BY <1>1, <2>1 DEF DropsOldest, ItemsHeld
  <2>8. QED
    BY <2>5, <2>6, <2>7 DEF Good
<1>2. ASSUME t \notin DOMAIN immutable, NEW gone \in makeRoom,
             immutable' = [u \in (DOMAIN immutable \ gone) \cup {t} |->
                             IF u = t THEN now ELSE immutable[u]],
             mutable' = [u \in DOMAIN mutable \ gone |-> mutable[u]],
             read' = ReadsAfter(gone, {}, {})
      PROVE  Good
  <2>1. /\ DOMAIN immutable' = (DOMAIN immutable \ gone) \cup {t}
        /\ \A u \in DOMAIN immutable' : immutable'[u] \in 0..now
        /\ DOMAIN mutable' = DOMAIN mutable \ gone
        /\ \A u \in DOMAIN mutable' : mutable'[u] = mutable[u]
    BY <1>0, <1>2
  <2>2. t \notin ItemsHeld
    BY <1>0, <1>2 DEF ItemsHeld
  <2>3. ItemsHeld' = (ItemsHeld \ gone) \cup {t}
    BY <2>1 DEF ItemsHeld
  <2>4. IsFiniteSet(ItemsHeld') /\ Cardinality(ItemsHeld') <= MaxItems
    BY <1>2, <2>2, <2>3, RoomForOne
  <2>5. ItemTypeOK'
    BY <1>0, <2>1, <2>4 DEF ItemTypeOK
  <2>6. read' \in [Addresses -> ReadRecord] /\ ReadInv'
    <3>1. \A u \in DOMAIN mutable \ gone :
              /\ u \in DOMAIN mutable' /\ mutable'[u].seq \in Nat
              /\ mutable'[u].seq >= mutable[u].seq
      BY <1>0, <2>1
    <3>2. QED
      BY <1>2, <3>1, ReadsKept
  <2>7. ItemInv'
    BY <2>1, <2>4, <2>5, <2>6 DEF ItemInv, Records
  <2>8. SeqsGrow
    BY <1>0, <2>1 DEF SeqsGrow
  <2>9. DropsOldest
    <3>1. \A u \in ItemsHeld \ (DOMAIN immutable' \cup DOMAIN mutable') : u \in gone
      BY <2>1 DEF ItemsHeld
    <3>2. t \in DOMAIN immutable'
      BY <2>1
    <3>3. \A u \in gone : /\ Cardinality(ItemsHeld) = MaxItems
                          /\ \A w \in ItemsHeld : StoredAt(u) <= StoredAt(w)
      BY <1>2, GoneIsOldest
    <3>4. QED
      BY <2>2, <3>1, <3>2, <3>3 DEF DropsOldest
  <2>10. QED
    BY <2>7, <2>8, <2>9 DEF Good
<1>3. QED
  BY <1>1, <1>2 DEF putImmutable

\* An item stored under a target that held none with a lower sequence number, in
\* a storage in which room was made if it is a new one.
LEMMA StoreMutableStep ==
    ASSUME ItemInv, now \in Nat, now' = now, NEW t \in MutableTargets,
           NEW seq \in Nat, NEW a \in Addresses, NEW gone,
           StoreMutable(t, [seq |-> seq, value |-> a], gone, a),
           \/ t \in DOMAIN mutable /\ gone = {} /\ seq > mutable[t].seq
           \/ t \notin DOMAIN mutable /\ gone \in makeRoom
    PROVE  Good
<1>0. /\ DOMAIN immutable \subseteq ImmutableTargets /\ DOMAIN mutable \subseteq MutableTargets
      /\ \A u \in DOMAIN immutable : immutable[u] \in 0..now
      /\ \A u \in DOMAIN mutable :
           mutable[u].seq \in Nat /\ mutable[u].value \in Addresses /\ mutable[u].storedAt \in 0..now
      /\ now \in 0..now
  BY DEF ItemInv, ItemTypeOK
<1>1. /\ mutable' = [u \in (DOMAIN mutable \ gone) \cup {t} |->
                       IF u = t THEN [seq |-> seq, value |-> a, storedAt |-> now] ELSE mutable[u]]
      /\ immutable' = [u \in DOMAIN immutable \ gone |-> immutable[u]]
      /\ read' = ReadsAfter(gone, {t}, a)
  BY DEF StoreMutable
<1>2. /\ DOMAIN mutable' = (DOMAIN mutable \ gone) \cup {t}
      /\ mutable'[t] = [seq |-> seq, value |-> a, storedAt |-> now]
      /\ \A u \in DOMAIN mutable \ gone : u # t => mutable'[u] = mutable[u]
      /\ DOMAIN immutable' = DOMAIN immutable \ gone
      /\ \A u \in DOMAIN immutable' : immutable'[u] = immutable[u]
  BY <1>1
<1>3. mutable'[t].seq = seq /\ mutable'[t].value = a /\ mutable'[t].storedAt = now
  BY <1>2
<1>4. ItemsHeld' = (ItemsHeld \ gone) \cup {t}
  BY <1>2 DEF ItemsHeld
<1>5. IsFiniteSet(ItemsHeld') /\ Cardinality(ItemsHeld') <= MaxItems
  <2>1. CASE t \in DOMAIN mutable /\ gone = {}
    <3>1. ItemsHeld' \subseteq ItemsHeld
      BY <1>4, <2>1 DEF ItemsHeld
    <3>2. QED
      BY <3>1, FewerItems
  <2>2. CASE t \notin DOMAIN mutable /\ gone \in makeRoom
    <3>1. t \notin ItemsHeld
      BY <1>0, <2>2 DEF ItemsHeld
    <3>2. QED
      BY <1>4, <2>2, <3>1, RoomForOne
  <2>3. QED
    BY <2>1, <2>2
<1>6. ItemTypeOK'
  BY <1>0, <1>2, <1>3, <1>5 DEF ItemTypeOK
<1>7. ASSUME NEW u \in DOMAIN mutable \ gone
      PROVE  /\ u \in DOMAIN mutable' /\ mutable'[u].seq \in Nat
             /\ mutable'[u].seq >= mutable[u].seq
             /\ u = t => mutable'[u].seq > mutable[u].seq
             /\ u # t => mutable'[u] = mutable[u]
  <2>1. CASE u = t
    BY <1>0, <1>2, <1>3, <2>1
  <2>2. CASE u # t
    BY <1>0, <1>2, <2>2
  <2>3. QED
    BY <2>1, <2>2
<1>8. read' \in [Addresses -> ReadRecord] /\ ReadInv'
  <2> DEFINE w == {t}
  <2>1. \A u \in w : u \in DOMAIN mutable \ gone => mutable'[u].seq > mutable[u].seq
    BY <1>7
  <2>2. \A u \in DOMAIN mutable \ gone :
            /\ u \in DOMAIN mutable' /\ mutable'[u].seq \in Nat
            /\ mutable'[u].seq >= mutable[u].seq
    BY <1>7
  <2>3. read' = ReadsAfter(gone, w, a)
    BY <1>1
  <2> HIDE DEF w
  <2>4. QED
    BY <2>1, <2>2, <2>3, ReadsKept
<1>9. ItemInv'
  <2>1. Records'
    BY <1>2 DEF ItemInv, Records
  <2>2. QED
    BY <1>5, <1>6, <1>8, <2>1 DEF ItemInv
<1>10. SeqsGrow
  <2> SUFFICES ASSUME NEW u \in DOMAIN mutable, u \in DOMAIN mutable'
               PROVE  /\ mutable'[u].seq >= mutable[u].seq
                      /\ mutable'[u].value # mutable[u].value => mutable'[u].seq > mutable[u].seq
    BY DEF SeqsGrow
  <2>1. CASE u \in gone
    <3>1. u = t
      BY <1>2, <2>1
    <3>2. QED
      BY <1>0, <2>1, <3>1
  <2>2. CASE u \notin gone
    BY <1>7, <2>2
  <2>3. QED
    BY <2>1, <2>2
<1>11. DropsOldest
  <2>1. \A u \in ItemsHeld \ (DOMAIN immutable' \cup DOMAIN mutable') : u \in gone
    BY <1>2 DEF ItemsHeld
  <2>2. CASE gone = {}
    BY <2>1, <2>2 DEF DropsOldest
  <2>3. CASE t \notin DOMAIN mutable /\ gone \in makeRoom
    <3>1. t \notin ItemsHeld /\ t \in DOMAIN mutable'
      BY <1>0, <1>2, <2>3 DEF ItemsHeld
    <3>2. \A u \in gone : /\ Cardinality(ItemsHeld) = MaxItems
                          /\ \A w \in ItemsHeld : StoredAt(u) <= StoredAt(w)
      BY <2>3, GoneIsOldest
    <3>3. QED
      BY <2>1, <3>1, <3>2 DEF DropsOldest
  <2>4. QED
    BY <2>2, <2>3
<1>12. QED
  BY <1>9, <1>10, <1>11 DEF Good

\* A put of a mutable item, with or without an expected sequence number.
LEMMA PutMutableStep ==
    ASSUME ItemInv, now \in Nat, now' = now, NEW t \in MutableTargets, NEW seq \in Sequences,
           NEW a \in Addresses, NEW cas, putMutable(t, [seq |-> seq, value |-> a], cas, a)
    PROVE  Good
<1> DEFINE item == [seq |-> seq, value |-> a]
<1>0. /\ DOMAIN immutable \subseteq ImmutableTargets /\ DOMAIN mutable \subseteq MutableTargets
      /\ \A u \in DOMAIN immutable : immutable[u] \in 0..now
      /\ \A u \in DOMAIN mutable :
           mutable[u].seq \in Nat /\ mutable[u].value \in Addresses /\ mutable[u].storedAt \in 0..now
      /\ now \in 0..now /\ seq \in Nat /\ item.seq = seq
  <2>1. now \in 0..now /\ seq \in Nat /\ item.seq = seq
    OBVIOUS
  <2>2. QED
    BY <2>1 DEF ItemInv, ItemTypeOK
<1>1. CASE UNCHANGED items
  BY <1>1, NothingStored
<1>2. CASE t \in DOMAIN mutable /\ mutable' = [mutable EXCEPT ![t].storedAt = now]
           /\ UNCHANGED <<immutable, read>>
  <2>1. /\ DOMAIN mutable' = DOMAIN mutable
        /\ \A u \in DOMAIN mutable :
             /\ mutable'[u].seq = mutable[u].seq /\ mutable'[u].value = mutable[u].value
             /\ mutable'[u].storedAt = IF u = t THEN now ELSE mutable[u].storedAt
        /\ Records'
    <3>1. /\ DOMAIN mutable' = DOMAIN mutable
          /\ mutable'[t] = [mutable[t] EXCEPT !.storedAt = now]
          /\ \A u \in DOMAIN mutable : u # t => mutable'[u] = mutable[u]
      BY <1>2
    <3>2. /\ mutable'[t].seq = mutable[t].seq /\ mutable'[t].value = mutable[t].value
          /\ mutable'[t].storedAt = now
          /\ mutable'[t] \in [seq : Nat, value : Addresses, storedAt : Nat]
      <4>1. mutable[t] \in [seq : Nat, value : Addresses, storedAt : Nat]
        BY <1>2 DEF ItemInv, Records
      <4>2. QED
        BY <3>1, <4>1
    <3>3. Records'
      BY <3>1, <3>2 DEF ItemInv, Records
    <3>4. QED
      BY <3>1, <3>2, <3>3
  <2>2. ItemsHeld' = ItemsHeld
    BY <1>2, <2>1 DEF ItemsHeld
  <2>3. ItemTypeOK'
    BY <1>0, <1>2, <2>1, <2>2 DEF ItemInv, ItemTypeOK
  <2>4. ItemInv'
    BY <1>2, <2>1, <2>2, <2>3 DEF ItemInv, ReadInv
  <2>5. SeqsGrow
    BY <1>0, <2>1 DEF SeqsGrow
  <2>6. DropsOldest
    BY <1>2, <2>1 DEF DropsOldest, ItemsHeld
  <2>7. QED
    BY <2>4, <2>5, <2>6 DEF Good
<1>3. CASE t \in DOMAIN mutable /\ ~SequenceTooLow(t, item) /\ item.seq # mutable[t].seq
           /\ StoreMutable(t, item, {}, a)
  <2>1. seq > mutable[t].seq
    BY <1>0, <1>3 DEF SequenceTooLow
  <2>2. QED
    BY <1>0, <1>3, <2>1, StoreMutableStep
<1>4. CASE t \notin DOMAIN mutable /\ \E gone \in makeRoom : StoreMutable(t, item, gone, a)
  BY <1>0, <1>4, StoreMutableStep
<1>5. QED
  BY <1>1, <1>2, <1>3, <1>4 DEF putMutable

\* The timer drops what is past its time.
LEMMA ItemsExpireStep ==
    ASSUME ItemInv, now \in Nat, expireItems
    PROVE  Good
<1>0. /\ DOMAIN immutable \subseteq ImmutableTargets /\ DOMAIN mutable \subseteq MutableTargets
      /\ \A u \in DOMAIN immutable : immutable[u] \in 0..now
      /\ \A u \in DOMAIN mutable :
           mutable[u].seq \in Nat /\ mutable[u].value \in Addresses /\ mutable[u].storedAt \in 0..now
  BY DEF ItemInv, ItemTypeOK
<1>1. /\ DOMAIN immutable' = DOMAIN immutable \ ItemsExpired
      /\ \A u \in DOMAIN immutable' : immutable'[u] = immutable[u]
      /\ DOMAIN mutable' = DOMAIN mutable \ ItemsExpired
      /\ \A u \in DOMAIN mutable' : mutable'[u] = mutable[u]
      /\ read' = ReadsAfter(ItemsExpired, {}, {}) /\ now' = now
  BY DEF expireItems
<1>2. ItemsHeld' \subseteq ItemsHeld
  BY <1>1 DEF ItemsHeld
<1>3. IsFiniteSet(ItemsHeld') /\ Cardinality(ItemsHeld') <= MaxItems
  BY <1>2, FewerItems
<1>4. ItemTypeOK'
  BY <1>0, <1>1, <1>3 DEF ItemTypeOK
<1>5. read' \in [Addresses -> ReadRecord] /\ ReadInv'
  <2>1. \A u \in DOMAIN mutable \ ItemsExpired :
            /\ u \in DOMAIN mutable' /\ mutable'[u].seq \in Nat
            /\ mutable'[u].seq >= mutable[u].seq
    BY <1>0, <1>1
  <2>2. QED
    BY <1>1, <2>1, ReadsKept
<1>6. ItemInv'
  BY <1>1, <1>3, <1>4, <1>5 DEF ItemInv, Records
<1>7. SeqsGrow
  BY <1>0, <1>1 DEF SeqsGrow
<1>8. DropsOldest
  <2>1. \A u \in ItemsHeld \ (DOMAIN immutable' \cup DOMAIN mutable') : u \in ItemsExpired
    BY <1>1 DEF ItemsHeld
  <2>2. QED
    BY <2>1 DEF DropsOldest, ItemsExpired
<1>9. QED
  BY <1>6, <1>7, <1>8 DEF Good

\* Every step keeps the invariant and treats the items as it should.
LEMMA ItemStep ==
    ASSUME LimiterTypeOK, ItemInv, [ItemNext]_itemVars
    PROVE  Good
<1>0. now \in Nat /\ now' \in Nat /\ now <= now'
  BY LimiterSteps, ClockGrows
<1>1. CASE UNCHANGED itemVars
  BY <1>0, <1>1, NothingStored DEF itemVars, items
<1>2. ASSUME NEW a \in Addresses, otherQuery(a) PROVE Good
  BY <1>0, <1>2, NothingStored DEF otherQuery
<1>3. ASSUME NEW a \in Addresses, NEW t \in ImmutableTargets, handlePutImmutable(a, t) PROVE Good
  BY <1>0, <1>3, PutImmutableStep DEF handlePutImmutable, Allowed
<1>4. ASSUME NEW a \in Addresses, NEW t \in MutableTargets, handleGet(a, t) PROVE Good
  BY <1>0, <1>4, GetStep DEF handleGet, Allowed
<1>5. ASSUME NEW a \in Addresses, NEW t \in MutableTargets, NEW seq \in Sequences,
             handlePut(a, t, seq) \/ handlePutCas(a, t, seq)
      PROVE  Good
  BY <1>0, <1>5, PutMutableStep DEF handlePut, handlePutCas, Allowed
<1>6. CASE expireItems
  BY <1>0, <1>6, ItemsExpireStep
<1>7. CASE (prune \/ LimiterTick) /\ UNCHANGED items
  BY <1>0, <1>7, NothingStored
<1>8. QED
  BY <1>1, <1>2, <1>3, <1>4, <1>5, <1>6, <1>7 DEF ItemNext

\* Nothing is stored at first and nobody has read anything.
LEMMA ItemInitHolds ==
    ASSUME ItemInit
    PROVE  ItemInv
<1>1. DOMAIN immutable = {} /\ DOMAIN mutable = {} /\ ItemsHeld = {}
  BY DEF ItemInit, ItemsHeld
<1>2. IsFiniteSet(ItemsHeld) /\ Cardinality(ItemsHeld) = 0
  BY <1>1, FS_EmptySet
<1>3. ItemTypeOK
  BY <1>1, <1>2 DEF ItemTypeOK
<1>4. NotRead \in ReadRecord /\ NotRead.target = {}
  BY DEF NotRead, ReadRecord
<1>5. read \in [Addresses -> ReadRecord] /\ \A a \in Addresses : read[a].target = {}
  BY <1>4 DEF ItemInit
<1>6. QED
  BY <1>1, <1>2, <1>3, <1>5 DEF ItemInv, ReadInv, Records

\* The inductive invariant of the storage and of what clients know of it.
THEOREM ItemSafety == ItemSpec => []ItemInv
<1>1. ItemInit => ItemInv
  BY ItemInitHolds
<1>2. LimiterTypeOK /\ ItemInv /\ [ItemNext]_itemVars => ItemInv'
  BY ItemStep DEF Good
<1>3. LimiterInv => LimiterTypeOK
  BY DEF LimiterInv
<1>4. QED
  BY <1>1, <1>2, <1>3, ItemsBehindLimiter, LimiterSafety, PTL DEF ItemSpec

\* Of clients that read the same item at most one gets its successor stored, and
\* no other value ever comes under a sequence number that is not higher.
THEOREM NoUpdateLost == ItemSpec => NoLostUpdate
<1> DEFINE Swap ==
        /\ \A a \in Addresses, t \in MutableTargets, seq \in Sequences :
             handlePutCas(a, t, seq) /\ mutable' # mutable => read[a].since # "written"
        /\ \A t \in DOMAIN mutable \cap DOMAIN mutable' :
             /\ mutable'[t].seq >= mutable[t].seq
             /\ mutable'[t].value # mutable[t].value => mutable'[t].seq > mutable[t].seq
<1>1. LimiterTypeOK /\ ItemInv /\ [ItemNext]_itemVars => Swap
  <2> SUFFICES ASSUME LimiterTypeOK, ItemInv, [ItemNext]_itemVars PROVE Swap
    OBVIOUS
  <2>1. SeqsGrow
    BY ItemStep DEF Good
  <2>2. ASSUME NEW a \in Addresses, NEW t \in MutableTargets, NEW seq \in Sequences,
               handlePutCas(a, t, seq), read[a].since = "written"
        PROVE  mutable' = mutable
    <3> DEFINE item == [seq |-> seq, value |-> a]
    <3>1. read[a].target = {t} /\ putMutable(t, item, {read[a].seq}, a)
      BY <2>2 DEF handlePutCas
    <3>2. t \in DOMAIN mutable /\ mutable[t].seq > read[a].seq
      BY <2>2, <3>1 DEF ItemInv, ReadInv
    <3>3. read[a].seq \in Nat /\ mutable[t].seq \in Nat
      BY <3>2 DEF ItemInv, ItemTypeOK, ReadRecord
    <3>4. CasMismatch(t, item, {read[a].seq})
      BY <3>2, <3>3 DEF CasMismatch
    <3> HIDE DEF item
    <3>5. UNCHANGED items
      BY <3>1, <3>2, <3>4 DEF putMutable
    <3>6. QED
      BY <3>5 DEF items
  <2>3. QED
    BY <2>1, <2>2 DEF SeqsGrow
<1>2. LimiterInv => LimiterTypeOK
  BY DEF LimiterInv
<1>3. QED
  BY <1>1, <1>2, ItemSafety, ItemsBehindLimiter, LimiterSafety, PTL DEF ItemSpec, NoLostUpdate

\* Only what is past its time to live goes, or the oldest of both kinds, one, to
\* make room for a new item in a storage that is full and never overfull.
THEOREM OldestGoes == ItemSpec => OnlyOldestDropped
<1>1. LimiterTypeOK /\ ItemInv /\ [ItemNext]_itemVars => DropsOldest
  BY ItemStep DEF Good
<1>2. LimiterInv => LimiterTypeOK
  BY DEF LimiterInv
<1>3. ItemInv => ItemTypeOK
  BY DEF ItemInv
<1>4. QED
  BY <1>1, <1>2, <1>3, ItemSafety, ItemsBehindLimiter, LimiterSafety, PTL
     DEF ItemSpec, OnlyOldestDropped, DropsOldest
=============================================================================
