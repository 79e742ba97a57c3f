---------------------------- MODULE MCReplayJobs ----------------------------
(***************************************************************************)
(* ReplayJobs with one job, one or two slots and two aggregates of two     *)
(* types.                                                                  *)
(***************************************************************************)
EXTENDS ReplayJobs, TLC

CONSTANTS j1, w1, w2, a1, a2, order, cart

OneJob == {j1}
OneSlot == {w1}
TwoSlots == {w1, w2}
TwoAggregates == {a1, a2}
TwoTypes == {order, cart}
TypeOfTwo == a1 :> order @@ a2 :> cart

AllFaults == {"snapshot", "db", "lost", "redis", "crash", "stall"}
DbFaults == {"db"}
=============================================================================
