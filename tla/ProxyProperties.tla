--------------------------- MODULE ProxyProperties ---------------------------
(***************************************************************************)
(* What makes the in-flight accounting correct, over every path of a       *)
(* response and every interleaving with drains.                            *)
(***************************************************************************)
EXTENDS ProxyRequests

(* Every variable has its type.                                               *)
ProxyTypeOK ==
    /\ pc \in [Requests -> Stages]
    /\ target \in [Requests -> Instances]
    /\ once \in [Requests -> [Trackers -> {"none", "armed", "fired"}]]
    /\ count \in [Trackers -> Nat]
    /\ waiters \in [Trackers -> SUBSET Drainers]
    /\ closed \subseteq Drainers
    /\ drain \in [Drainers -> {"idle", "waiting", "drained", "timed_out"}]
    /\ drains \in [Drainers -> Trackers \cup {None}]

-----------------------------------------------------------------------------
(* Safety *)

Holders(t) == {r \in Requests : once[r][t] = "armed"}

(* A tracker's counter is the number of requests that have yet to give their  *)
(* slot back; the clamp at zero never has anything to do.                     *)
CountIsHolders == \A t \in Trackers : count[t] = Cardinality(Holders(t))

(* A request that is over holds no slot, whichever of the six ways it ended   *)
(* and whoever called Done; one that is being proxied holds both of its own.  *)
SlotsReturned ==
    \A r \in Requests :
        /\ pc[r] \in Ended => \A t \in Trackers : once[r][t] # "armed"
        /\ pc[r] \in {"routed", "reading", "streaming"} =>
              {t \in Trackers : once[r][t] = "armed"} = {target[r], Total}

(* No wake-up is lost: a drain that waits on a channel nobody has closed has  *)
(* it in the list, and a request left that will close it.                     *)
NoLostWakeup ==
    \A d \in Drainers : drain[d] = "waiting" /\ d \notin closed =>
        d \in waiters[drains[d]] /\ count[drains[d]] > 0

(* A rejection that knows when to come back says so in whole seconds, at most *)
(* half a second early and never "at once".                                   *)
RetryHintSane ==
    \A r \in Requests : pc[r] = "rejected" =>
        /\ reply[r].retry = 0 <=> reply[r].wait = 0
        /\ 1000 * reply[r].retry >= reply[r].wait - 500
        /\ reply[r].retry # 1 => 1000 * reply[r].retry <= reply[r].wait + 500

-----------------------------------------------------------------------------
(* The inductive invariant behind the safety invariants, part by part *)

(* The slots a request holds, stage by stage. *)
SlotsOf(r) == {t \in Trackers : once[r][t] = "armed"}

SlotInv ==
    \A r \in Requests :
        /\ pc[r] \in {"received", "routing", "sending"} \cup Ended => SlotsOf(r) = {}
        /\ pc[r] = "half_routed" => SlotsOf(r) = {target[r]}
        /\ pc[r] \in {"routed", "reading", "streaming"} => SlotsOf(r) = {target[r], Total}
        /\ pc[r] \in Over => SlotsOf(r) \subseteq {target[r], Total}
        /\ pc[r] \in Halves => SlotsOf(r) \subseteq {Total}

(* A drain is in the list of the tracker it asked, and of no other. *)
DrainInv ==
    \A d \in Drainers :
        /\ drain[d] # "idle" => drains[d] \in Trackers
        /\ drain[d] = "idle" => d \notin closed
        /\ \A t \in Trackers : d \in waiters[t] => drain[d] # "idle" /\ drains[d] = t

ProxyInd == ProxyTypeOK /\ CountIsHolders /\ SlotInv /\ DrainInv /\ NoLostWakeup

-----------------------------------------------------------------------------
(* Liveness *)

(* Once the upstream's answer is over, in whatever way, its slots come back.  *)
SlotsComeBack ==
    \A r \in Requests : pc[r] \in Over ~> \A t \in Trackers : once[r][t] # "armed"

-----------------------------------------------------------------------------
(* Each tracker implements the abstract one *)

drainOf(t) == [d \in Drainers |->
    IF drains[d] # t THEN "idle"
    ELSE IF drain[d] = "waiting" /\ d \in closed THEN "empty" ELSE drain[d]]

Abstract(t) == INSTANCE InFlight WITH held <- Holders(t), drain <- drainOf(t)

(* Every step is, for each tracker, a step of the abstract one or a stutter:  *)
(* "drained" is never said of a tracker that was not empty since the call.    *)
ImplementsInFlight ==
    /\ \A t \in Trackers : Abstract(t)!Init
    /\ [][\A t \in Trackers : [Abstract(t)!Next]_(Abstract(t)!vars)]_vars
=============================================================================
