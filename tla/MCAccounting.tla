----------------------------- MODULE MCAccounting -----------------------------
(* Accounting with up to two scrapers, which run on the same node one      *)
(* after the other.                                                        *)
EXTENDS Accounting

CONSTANTS j1, s1, s2, n

MCNode == [s \in Scrapers |-> n]
=============================================================================
