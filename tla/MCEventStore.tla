---------------------------- MODULE MCEventStore ----------------------------
(***************************************************************************)
(* EventStore with three requests over two keys: two requests contend for  *)
(* a key while the third joins them or works on the other one, and an      *)
(* aggregate is created, extended and left alone.                          *)
(***************************************************************************)
EXTENDS EventStore, TLC

CONSTANTS r1, r2, r3, k1, k2, none

ThreeRequests == {r1, r2, r3}
TwoKeys == {k1, k2}
=============================================================================
