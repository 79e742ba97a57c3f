----------------------------- MODULE MCServer -------------------------------
(***************************************************************************)
(* Server with two jobs in one queue, two polls that overlap and a probe.  *)
(***************************************************************************)
EXTENDS Server, TLC

CONSTANTS replayJobs, j1, j2, p1

OneQueue == {replayJobs}
TwoJobs == {j1, j2}
SameQueue == j1 :> replayJobs @@ j2 :> replayJobs
OneProbe == {p1}
=============================================================================
