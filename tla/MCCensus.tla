------------------------------ MODULE MCCensus ------------------------------
(* Two IPv4 nodes behind one address and an IPv6 node.                     *)
EXTENDS Census

CONSTANTS e1, e2, e3, a1, a2

MCAddressOf == [e \in Endpoints |-> IF e = e3 THEN a2 ELSE a1]
MCFamilyOf == [e \in Endpoints |-> IF e = e3 THEN "IPv6" ELSE "IPv4"]
MCCatalogIds == [a \in Addresses |-> 1]
MCPresent == <<"IPv4", "IPv6">>
=============================================================================
