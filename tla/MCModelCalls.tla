---------------------------- MODULE MCModelCalls ----------------------------
(* ModelCalls.tla on small instances: two callers billed to one project each. *)
EXTENDS ModelCalls, TLC

CONSTANTS c1, c2, p1, p2

\* SumOver is the sum the community modules define by recursion.
ASSUME SumOverAssumption ==
  \A S \in SUBSET (1..3) : \A f \in [1..3 -> 0..3] :
    SumOver(f, S) = MapThenSumSet(LAMBDA x : f[x], S)

MCBilledTo == c1 :> p1 @@ c2 :> p2
=============================================================================
