---------------------------- MODULE MCRpcManager ----------------------------
(* RpcManager for TLC: three queries to three endpoints on two hosts.      *)
EXTENDS RpcManager

CONSTANTS h1, h2, e1, e2, e3, q1, q2, q3

HostsMC     == {h1, h2}
EndpointsMC == {e1, e2, e3}
HostOfMC    == [e \in EndpointsMC |-> IF e = e3 THEN h2 ELSE h1]

\* e1 and e2 are two ports of h1; one query each, and one to h2.
QueriesMC == {q1, q2, q3}
ToMC == [q \in QueriesMC |-> CASE q = q1 -> e1 [] q = q2 -> e2 [] q = q3 -> e3]
=============================================================================
