------------------------ MODULE MCStateReconstruction ------------------------
(***************************************************************************)
(* StateReconstruction on small instances.  The threshold of 20 becomes 2, *)
(* or 1, so that two or three events cross it.                             *)
(***************************************************************************)
EXTENDS StateReconstruction, TLC

CONSTANTS rd1, sw1, rp1, ap1, latest, miss

NoProcess == {}
OneReader == {rd1}
OneSnapshotWorker == {sw1}
OneReplayWorker == {rp1}
OneAppender == {ap1}

OnlyLatest == {latest}
LatestAnd2 == {latest, 2}

NoFaults == {}
AllFaults == {"redis", "db", "crash"}
=============================================================================
