---------------------------- MODULE HostAllowance ----------------------------
(***************************************************************************)
(* What the per-address rate limit promises, without its bookkeeping: each *)
(* address has a credit, in milliseconds, that grows with the clock up to  *)
(* BurstMs, and a datagram may go when it can be paid for.                 *)
(***************************************************************************)
EXTENDS Integers

CONSTANTS
    Addresses,  \* remote IP addresses
    CostMs,     \* time that earns one token, 1000 / ratePerSecond
    BurstMs     \* time that earns a full bucket, burst * CostMs

VARIABLES now, credit

avars == <<now, credit>>

Least(x, y) == IF x <= y THEN x ELSE y

AInit ==
    /\ now = 0
    /\ credit = [a \in Addresses |-> BurstMs]

\* Time passes: every address earns what has elapsed, up to the burst.
Elapse ==
    /\ now' \in Nat /\ now' > now
    /\ credit' = [a \in Addresses |-> Least(BurstMs, credit[a] + (now' - now))]

\* One datagram to a is paid for.
Grant(a) ==
    /\ credit[a] >= CostMs
    /\ credit' = [credit EXCEPT ![a] = @ - CostMs]
    /\ now' = now

ANext == Elapse \/ \E a \in Addresses : Grant(a)

ASpec == AInit /\ [][ANext]_avars
=============================================================================
