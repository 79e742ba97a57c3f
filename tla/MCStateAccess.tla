--------------------------- MODULE MCStateAccess ----------------------------
(***************************************************************************)
(* StateAccess with two projects, so that a call can be of another one.    *)
(***************************************************************************)
EXTENDS StateAccess

CONSTANTS p1, p2, a1, a2, c1, c2

TwoProjects == {p1, p2}
OneAggregate == {a1}
TwoAggregates == {a1, a2}
TwoCalls == {c1, c2}
=============================================================================
