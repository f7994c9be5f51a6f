------------------------------ MODULE MCShutdown ------------------------------
(***************************************************************************)
(* Three models with a GPU each, and room for two of them, for TLC.        *)
(***************************************************************************)
EXTENDS SchedulerShutdown, TLC

CONSTANTS model1, model2, model3, g1, g2, g3

ThreeModels == {model1, model2, model3}
gpu == model1 :> g1 @@ model2 :> g2 @@ model3 :> g3
Layout == [m \in ThreeModels |-> {gpu[m]}]

(* The requests are alike, and so are the models with their GPUs. *)
Shuffle(p) == [g \in {g1, g2, g3} |-> gpu[p[CHOOSE m \in ThreeModels : gpu[m] = g]]]
Interchangeable == {q @@ p @@ Shuffle(p) : q \in Permutations(Requests), p \in Permutations(ThreeModels)}
=============================================================================
