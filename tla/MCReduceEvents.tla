--------------------------- MODULE MCReduceEvents ---------------------------
(***************************************************************************)
(* ReduceEvents with as many event types as there are operations, so that  *)
(* one field can be set, merged into and appended to.                      *)
(***************************************************************************)
EXTENDS ReduceEvents

CONSTANTS t1, t2, t3

ThreeTypes == {t1, t2, t3}
TwoFields == {"f", "g"}

Scalar == [kind |-> "scalar"]

\* A scalar, a list and an object under the rules' field, and another key.
FieldPayloads ==
  { [f |-> Scalar],
    [f |-> List(<<Scalar>>)],
    [f |-> Object([g |-> Scalar]), g |-> Scalar],
    [g |-> List(<<>>)] }

TypeSymmetry == Permutations(ThreeTypes)
=============================================================================
