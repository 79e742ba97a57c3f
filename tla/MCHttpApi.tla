----------------------------- MODULE MCHttpApi ------------------------------
(***************************************************************************)
(* HttpApi with three requests, whose ids also name the rows they insert:  *)
(* a tenant and one more, and a request across or within them.             *)
(***************************************************************************)
EXTENDS HttpApi, TLC

CONSTANTS r1, r2, r3

OneRequest == {r1}
ThreeRequests == {r1, r2, r3}

Symmetry == Permutations(ThreeRequests)
=============================================================================
