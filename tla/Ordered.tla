------------------------------ MODULE Ordered ------------------------------
(***************************************************************************)
(* Walking a finite set of positions in the order the code's loops visit   *)
(* them.  A position is a pair <<session, index>>: std::map iterates the   *)
(* sessions in key order and each session's vector from its first element. *)
(*                                                                         *)
(* InOrder is defined by CHOOSE and not with SelectSeq or SetToSortSeq,    *)
(* whose recursive definitions leave a theorem nothing to rest on.         *)
(***************************************************************************)
EXTENDS Integers, FiniteSets

Before(a, b) == \/ a[1] < b[1]
                \/ a[1] = b[1] /\ a[2] < b[2]

Orderings(S) ==
  {f \in [1 .. Cardinality(S) -> S] :
     \A i, j \in 1 .. Cardinality(S) : i < j => Before(f[i], f[j])}

\* The elements of S as a sequence, each once, in order.
InOrder(S) ==
  IF IsFiniteSet(S) /\ Orderings(S) # {}
  THEN CHOOSE f \in Orderings(S) : TRUE
  ELSE << >>
=============================================================================
