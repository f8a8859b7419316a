------------------------------ MODULE MCDhtNode ------------------------------
(* DhtNode for TLC: IDs of three bits, three endpoints, two external addresses. *)
EXTENDS DhtNode

\* Seen from our first ID the others share a full bucket and its cache; seen from the
\* second, each has a bucket of its own, which a split moves it into.
RemoteMC == {<<1, 0, 0>>, <<1, 1, 0>>}
IdsMC    == RemoteMC \cup {<<0, 0, 0>>, <<1, 0, 1>>}
FirstMC  == <<0, 0, 0>>
IdForMC  == [x \in {"first", "second"} |-> IF x = "first" THEN <<0, 0, 0>> ELSE <<1, 0, 1>>]

EndpointsMC == [ip : {"local", "public", "other"}, port : {1}]
SeedsMC     == [ip : {"public"}, port : {1}]
NamelessMC  == [ip : {"other"}, port : {1}]
=============================================================================
