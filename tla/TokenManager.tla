---------------------------- MODULE TokenManager ----------------------------
(***************************************************************************)
(* BEP 5 announce tokens (dhtcore/src/Support.cpp, class TokenManager).    *)
(*                                                                         *)
(* A token is a hash of a secret and the requester's address.  Two secrets *)
(* are live, and they are rotated lazily: only a call of generate() or     *)
(* validate() looks at the clock.  The model keeps the whole of that       *)
(* control; a secret is a serial number (8 fresh random bytes never repeat)*)
(* and the hash is an injective pairing.                                   *)
(***************************************************************************)
EXTENDS Clock, Integers, FiniteSets

CONSTANTS
    RotationMs,  \* TokenManager::RotationMs, in clock ticks
    MaxIssued    \* bound: issuances remembered at once

ASSUME RotationAssumption == RotationMs \in Nat \ {0}
ASSUME BoundsAssumption == MaxTime \in Nat /\ MaxIssued \in Nat

VARIABLES
    current,    \* m_current
    previous,   \* m_previous
    rotatedAt,  \* m_rotatedAt, -1 until the first call
    minted,     \* serial number of the newest secret
    issued,     \* history: every issuance still of interest
    verdict     \* the answer of the last validate(), {} before any

vars == <<now, current, previous, rotatedAt, minted, issued, verdict>>

\* External: SHA-1 over secret and address, taken to be collision free.
tokenFor(secret, address) == [secret |-> secret, address |-> address]

Token    == [secret : Nat, address : Addresses]
Issuance == [token : Token, at : Nat]
Verdict  == [holder : Addresses, from : Addresses, age : Int, ok : BOOLEAN]

Init ==
    /\ now = 0
    /\ current = 0 /\ previous = 0 /\ minted = 0
    /\ rotatedAt = -1
    /\ issued = {} /\ verdict = {}

-----------------------------------------------------------------------------
Age == now - rotatedAt

BothStale   == rotatedAt < 0 \/ Age >= 2 * RotationMs
CurrentAged == ~BothStale /\ Age >= RotationMs

\* Mutant: the outgoing secret is dropped instead of kept as the previous one.
rotateIfNeededForgets ==
    \/ /\ BothStale \/ CurrentAged
       /\ current' = minted + 1 /\ previous' = minted + 2
       /\ minted' = minted + 2 /\ rotatedAt' = now
    \/ /\ ~BothStale /\ ~CurrentAged
       /\ UNCHANGED <<current, previous, minted, rotatedAt>>

rotateIfNeeded ==
    \/ /\ BothStale
       /\ current' = minted + 1 /\ previous' = minted + 2
       /\ minted' = minted + 2 /\ rotatedAt' = now
    \/ /\ CurrentAged
       /\ previous' = current /\ current' = minted + 1
       /\ minted' = minted + 1 /\ rotatedAt' = now
    \/ /\ ~BothStale /\ ~CurrentAged
       /\ UNCHANGED <<current, previous, minted, rotatedAt>>

generate(a) ==
    /\ Cardinality(issued) < MaxIssued
    /\ rotateIfNeeded
    /\ issued' = issued \cup {[token |-> tokenFor(current', a), at |-> now]}
    /\ UNCHANGED <<now, verdict>>

\* Whether a token presented from address a matches either live secret, after
\* the rotation that precedes the comparison.
Matches(token, a) == token = tokenFor(current', a) \/ token = tokenFor(previous', a)

validate(t, a) ==
    /\ rotateIfNeeded
    /\ verdict' = {[holder |-> t.token.address, from |-> a, age |-> now - t.at,
                    ok |-> Matches(t.token, a)]}
    /\ UNCHANGED <<now, issued>>

\* The clock moves on by any amount; nothing of the object changes.
Tick ==
    /\ \E t \in (now + 1)..MaxTime : now' = t
    /\ UNCHANGED <<current, previous, rotatedAt, minted, issued, verdict>>

Next ==
    \/ \E a \in Addresses : generate(a)
    \/ \E t \in issued, a \in Addresses : validate(t, a)
    \/ Tick

Spec == Init /\ [][Next]_vars

-----------------------------------------------------------------------------
\* Clock readings, serial numbers, issuances and verdicts have their types.
TypeOK ==
    /\ now \in Nat /\ minted \in Nat /\ rotatedAt \in Nat \cup {-1}
    /\ current \in Nat /\ previous \in Nat
    /\ issued \subseteq Issuance
    /\ verdict \subseteq Verdict

\* A token handed out by get_peers is still good when its holder presents it
\* within one rotation period, whenever the intervening calls happened.
FreshTokenAccepted ==
    \A v \in verdict : v.from = v.holder /\ v.age <= RotationMs => v.ok

\* A token is only ever accepted from the address it was issued to, and never
\* three rotation periods or more after it was issued.
StaleTokenRefused ==
    \A v \in verdict : v.ok => v.from = v.holder /\ v.age < 3 * RotationMs

\* What lazy rotation does guarantee, for the readers of generate() and validate(): a
\* period at least, in its holder's hands only, and less than three periods, however long
\* rotateIfNeeded() was not called.  In between it depends on who asked when.
TokensLast == FreshTokenAccepted /\ StaleTokenRefused

\* "Tokens from the current and previous secret are accepted, which gives the ten-minute
\* validity window the spec calls for" (Support.h:19-21, tokensValidateForTenMinutes in
\* TestSupport.cpp): two periods, in which the holder is believed and after which not.
TenMinuteWindow ==
    \A v \in verdict : v.from = v.holder =>
        /\ v.age < 2 * RotationMs => v.ok
        /\ v.age > 2 * RotationMs => ~v.ok

-----------------------------------------------------------------------------
\* The strengthening the two lifetime properties need: how the age of an
\* issuance is tied to the secret that signed it and to the last rotation.
IssuanceInv ==
    \A t \in issued :
        /\ t.at <= now /\ 0 < t.token.secret /\ t.token.secret <= minted
        /\ t.token.secret = current =>
             rotatedAt <= t.at /\ t.at < rotatedAt + RotationMs
        /\ t.token.secret = previous =>
             t.at < rotatedAt /\ rotatedAt < t.at + 2 * RotationMs
        /\ t.token.secret \notin {current, previous} => t.at + RotationMs < now

SecretInv ==
    /\ rotatedAt <= now /\ current <= minted /\ previous <= minted
    /\ rotatedAt >= 0 => current # previous /\ 0 < current
    /\ rotatedAt < 0 => issued = {} /\ minted = 0

TokenInv == TypeOK /\ SecretInv /\ IssuanceInv
             /\ FreshTokenAccepted /\ StaleTokenRefused
=============================================================================
