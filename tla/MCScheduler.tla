----------------------------- MODULE MCScheduler -----------------------------
(***************************************************************************)
(* Small instances of the scheduler for TLC: two GPUs, two models on one   *)
(* GPU each and a large one on both, so that one placement evicts two.     *)
(* Liveness, which takes far longer, is checked with one small model less. *)
(***************************************************************************)
EXTENDS SchedulerProperties, TLC

CONSTANTS small1, small2, large, g1, g2

TwoGPUs == {g1, g2}
TwoModels == {small1, large}
ThreeModels == {small1, small2, large}
Layout == small1 :> {g1} @@ small2 :> {g2} @@ large :> {g1, g2}
LayoutOfTwo == small1 :> {g1} @@ large :> {g1, g2}

NoLimits == [m \in Models |-> {}]
AllLimited == gpusOf
TwoPorts == 8000 .. 8001

(* Requests are alike, and the two small models are when their GPUs change    *)
(* places with them.                                                          *)
Exchange == small1 :> small2 @@ small2 :> small1 @@ g1 :> g2 @@ g2 :> g1
Interchangeable ==
    Permutations(Requests) \cup {p @@ Exchange : p \in Permutations(Requests)}
=============================================================================
