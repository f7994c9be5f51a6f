---------------------------- MODULE MCCoordinator ----------------------------
(***************************************************************************)
(* Small instances of swap mode for TLC: two models that share a GPU.      *)
(***************************************************************************)
EXTENDS CoordinatorProperties, TLC

CONSTANTS modelA, modelB, g1, g2, g3

TwoModels == {modelA, modelB}
ThreeGPUs == {g1, g2, g3}
SharedGPU == modelA :> {g1, g2} @@ modelB :> {g2, g3}
OneLimitEach == modelA :> {g1} @@ modelB :> {g2}

Interchangeable == Permutations(Requests)
=============================================================================
