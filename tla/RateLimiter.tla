----------------------------- MODULE RateLimiter -----------------------------
(***************************************************************************)
(* Token bucket per remote address (dhtcore/src/Support.cpp, class         *)
(* RateLimiter).  It holds every query RpcManager sends to two a second    *)
(* per host with a burst of two, and every query a node answers to twenty  *)
(* a second with a burst of forty.                                         *)
(*                                                                         *)
(* Tokens are counted in milliseconds of credit (tokens * 1000 / rate), so *)
(* the arithmetic the code does in doubles is exact here.  Buckets are     *)
(* refilled lazily, when asked, and forgotten by prune().                  *)
(***************************************************************************)
EXTENDS Clock, Integers

CONSTANTS
    CostMs,     \* 1000 / m_rate: the credit one token costs
    BurstMs     \* m_burst * CostMs: a full bucket

ASSUME LimiterAssumption ==
    CostMs \in Nat \ {0} /\ BurstMs \in Nat /\ MaxTime \in Nat

VARIABLES
    buckets,  \* m_buckets: a function on the addresses that have a bucket
    spent     \* history: credit spent on an address at or after an instant

limiterVars == <<now, buckets, spent>>

Times == 0..MaxTime
Bucket == [tokens : Nat, last : Times]

LimiterInit ==
    /\ now = 0
    /\ buckets = [a \in {} |-> [tokens |-> BurstMs, last |-> 0]]
    /\ spent = [a \in Addresses |-> [s \in Times |-> 0]]

-----------------------------------------------------------------------------
LesserOf(x, y) == IF x <= y THEN x ELSE y

\* The credit allow() sees: a fresh bucket is full, an old one has earned what
\* elapsed since it was last touched, up to the burst.
Refilled(a) ==
    IF a \in DOMAIN buckets
    THEN LesserOf(BurstMs, buckets[a].tokens + (now - buckets[a].last))
    ELSE BurstMs

\* The bucket of a is left holding c, stamped with the present.
StoreBucket(a, c) ==
    buckets' = [x \in DOMAIN buckets \cup {a} |->
                  IF x = a THEN [tokens |-> c, last |-> now] ELSE buckets[x]]

\* History: the cost counts in every window that is already open.
Charge(a) ==
    spent' = [spent EXCEPT ![a] =
                [s \in Times |-> IF s <= now THEN @[s] + CostMs ELSE @[s]]]

\* Mutant: the token is looked at and not taken.
AllowedFree(a) ==
    /\ Refilled(a) >= CostMs
    /\ StoreBucket(a, Refilled(a))
    /\ Charge(a)
    /\ now' = now

\* allow() returning true.
Allowed(a) ==
    /\ Refilled(a) >= CostMs
    /\ StoreBucket(a, Refilled(a) - CostMs)
    /\ Charge(a)
    /\ now' = now

\* allow() returning false: the refill is kept and the stamp moves.
Denied(a) ==
    /\ Refilled(a) < CostMs
    /\ StoreBucket(a, Refilled(a))
    /\ UNCHANGED <<now, spent>>

allow(a) == Allowed(a) \/ Denied(a)

\* Mutant: buckets are forgotten after one token's worth of time, not a burst's.
KeptTooShort == {a \in DOMAIN buckets : now - buckets[a].last <= CostMs - 1}

Kept == {a \in DOMAIN buckets : now - buckets[a].last <= BurstMs}

prune ==
    /\ buckets' = [a \in Kept |-> buckets[a]]
    /\ UNCHANGED <<now, spent>>

LimiterTick ==
    /\ \E t \in (now + 1)..MaxTime : now' = t
    /\ UNCHANGED <<buckets, spent>>

LimiterNext == (\E a \in Addresses : allow(a)) \/ prune \/ LimiterTick

LimiterSpec == LimiterInit /\ [][LimiterNext]_limiterVars

-----------------------------------------------------------------------------
\* Types of the clock, of m_buckets and of the history.
LimiterTypeOK ==
    /\ now \in Times
    /\ DOMAIN buckets \subseteq Addresses
    /\ \A a \in DOMAIN buckets : buckets[a] \in Bucket
    /\ spent \in [Addresses -> [Times -> Nat]]

\* No bucket holds more than a burst or was stamped in the future.
BucketInv ==
    \A a \in DOMAIN buckets :
        buckets[a].tokens <= BurstMs /\ buckets[a].last <= now

\* In any window that ends now, however calls and prunes fell in it, an address
\* is granted at most one burst plus what the window itself earned.  For the
\* limit of RpcManager.h this is "at most 4 in any second and 22 in any ten".
WindowBound ==
    \A a \in Addresses, s \in Times :
        s <= now => spent[a][s] <= BurstMs + (now - s)

\* The strengthening: what is left in the bucket is part of the same budget,
\* so a pruned bucket really had become full.
WindowCredit ==
    \A a \in Addresses, s \in Times :
        IF s <= now THEN spent[a][s] + Refilled(a) <= BurstMs + (now - s)
                    ELSE spent[a][s] = 0

LimiterInv == LimiterTypeOK /\ BucketInv /\ WindowCredit

-----------------------------------------------------------------------------
\* The lazy buckets implement the credit that grows with the clock: a refused
\* call and a prune change nothing an observer could tell.
Abstract == INSTANCE HostAllowance
                WITH credit <- [a \in Addresses |-> Refilled(a)]

\* Refinement: every behaviour of the bucket code is one of HostAllowance.
ImplementsAllowance == Abstract!ASpec
=============================================================================
