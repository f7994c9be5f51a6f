------------------------------- MODULE InFlight -------------------------------
(***************************************************************************)
(* What an in-flight tracker promises, with no counter and no channel:     *)
(* it knows the requests that hold a slot, and who waits for them to       *)
(* drain is told so only if there was a moment, after the question, at     *)
(* which none did.                                                         *)
(***************************************************************************)

CONSTANTS Requests, Drainers

VARIABLES
    held,       \* the requests that hold a slot
    drain       \* [Drainers -> {"idle", "waiting", "empty", "drained", "timed_out"}]

vars == <<held, drain>>

Init ==
    /\ held = {}
    /\ drain = [d \in Drainers |-> "idle"]

Enter(r) ==
    /\ r \notin held
    /\ held' = held \cup {r}
    /\ UNCHANGED drain

(* The last one out tells everyone who waits. *)
Leave(r) ==
    /\ r \in held
    /\ held' = held \ {r}
    /\ drain' = [d \in Drainers |->
                    IF held' = {} /\ drain[d] = "waiting" THEN "empty" ELSE drain[d]]

Ask(d) ==
    /\ drain[d] = "idle"
    /\ drain' = [drain EXCEPT ![d] = IF held = {} THEN "drained" ELSE "waiting"]
    /\ UNCHANGED held

Learn(d) ==
    /\ drain[d] = "empty"
    /\ drain' = [drain EXCEPT ![d] = "drained"]
    /\ UNCHANGED held

GiveUp(d) ==
    /\ drain[d] \in {"waiting", "empty"}
    /\ drain' = [drain EXCEPT ![d] = "timed_out"]
    /\ UNCHANGED held

Next ==
    \/ \E r \in Requests : Enter(r) \/ Leave(r)
    \/ \E d \in Drainers : Ask(d) \/ Learn(d) \/ GiveUp(d)

Spec == Init /\ [][Next]_vars
=============================================================================
