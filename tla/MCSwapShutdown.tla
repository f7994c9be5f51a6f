---------------------------- MODULE MCSwapShutdown ----------------------------
(***************************************************************************)
(* Swap mode from its start to its end, for TLC: two models that share a   *)
(* GPU, and requests that are alike.                                       *)
(***************************************************************************)
EXTENDS CoordinatorShutdown, TLC

CONSTANTS modelA, modelB, g1, g2, g3

TwoModels == {modelA, modelB}
ThreeGPUs == {g1, g2, g3}
SharedGPU == modelA :> {g1, g2} @@ modelB :> {g2, g3}
OneLimitEach == modelA :> {g1} @@ modelB :> {g2}

Interchangeable == Permutations(Requests \ {Main})
=============================================================================
