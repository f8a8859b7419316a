----------------------------- MODULE MCCrawler -----------------------------
(* The scan on three endpoints of which two collide in the index.          *)
EXTENDS Crawler

CONSTANTS e1, e2, e3

\* e1 and e2 want the same position of the index.
MCHash == [e \in Endpoints |-> IF e = e3 THEN 0 ELSE 3]
=============================================================================
