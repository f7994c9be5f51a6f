------------------------------ MODULE Placement ------------------------------
(***************************************************************************)
(* What the scheduler promises, with none of its machinery: models are     *)
(* placed on their whole set of GPUs or not at all, a GPU serves one model *)
(* at a time, a serving model leaves only by an eviction that no pinned    *)
(* model undergoes, and at most Capacity models are placed.                *)
(***************************************************************************)
EXTENDS Naturals, FiniteSets

CONSTANTS
    Models,
    GPUs,
    gpusOf,         \* [Models -> SUBSET GPUs]
    PinnedModels,
    Capacity,       \* the number of models that may be placed at once
    Free            \* what an idle GPU holds

VARIABLES
    phase,          \* [Models -> {"off", "loading", "serving", "draining"}]
    holder          \* [GPUs -> Models \cup {Free}]

vars == <<phase, holder>>

Placed == {m \in Models : phase[m] # "off"}

Init ==
    /\ phase = [m \in Models |-> "off"]
    /\ holder = [g \in GPUs |-> Free]

(* All of the model's GPUs are taken at once, and none from another model. *)
Claim(m) ==
    /\ phase[m] = "off"
    /\ \A g \in gpusOf[m] : holder[g] = Free
    /\ Cardinality(Placed) < Capacity
    /\ phase' = [phase EXCEPT ![m] = "loading"]
    /\ holder' = [g \in GPUs |-> IF g \in gpusOf[m] THEN m ELSE holder[g]]

Serve(m) ==
    /\ phase[m] = "loading"
    /\ phase' = [phase EXCEPT ![m] = "serving"]
    /\ UNCHANGED holder

(* Only a model that is serving is evicted, and never a pinned one. *)
Evict(m) ==
    /\ phase[m] = "serving"
    /\ m \notin PinnedModels
    /\ phase' = [phase EXCEPT ![m] = "draining"]
    /\ UNCHANGED holder

(* A start that failed, or an eviction that is over. *)
Vacate(m) ==
    /\ phase[m] \in {"loading", "draining"}
    /\ phase' = [phase EXCEPT ![m] = "off"]
    /\ holder' = [g \in GPUs |-> IF holder[g] = m THEN Free ELSE holder[g]]

Next == \E m \in Models : Claim(m) \/ Serve(m) \/ Evict(m) \/ Vacate(m)

Spec == Init /\ [][Next]_vars
=============================================================================
