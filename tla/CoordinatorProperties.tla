------------------------ MODULE CoordinatorProperties ------------------------
(***************************************************************************)
(* What makes swap mode correct.                                           *)
(***************************************************************************)
EXTENDS Coordinator

CoordStates == {"idle", "starting", "ready", "stopping", "error"}

(* Every variable has its type, and a Stop that waits waits for a process.    *)
CoordTypeOK ==
    /\ cmd \in Procs \cup {None}
    /\ proc \in [Procs -> ProcStates]
    /\ waitCh \subseteq Procs
    /\ call \in [Procs -> [stage : CallStages, of : Procs \cup {None}]]
    /\ \A c \in Procs : call[c].stage \in {"term", "kill"} => call[c].of # None
    /\ model \in [Requests -> Models]
    /\ req \in [Requests -> RequestStages]
    /\ swap \in [Requests -> SwapStages \cup {"none", "ok", "error"}]
    /\ state \in CoordStates
    /\ current \in Models \cup {None}
    /\ swapping \in BOOLEAN /\ cooling \in BOOLEAN /\ backingOff \in BOOLEAN
    /\ failures \in Nat
    /\ tracked \subseteq Requests
    /\ snap \in [state : CoordStates, current : Models \cup {None},
                 swapping : BOOLEAN, failures : Nat]
    /\ limited \subseteq GPUs

-----------------------------------------------------------------------------
(* Safety *)

(* There is never a second process, nor one that nobody has in hand: a        *)
(* process that runs is the one m.cmd records, or the one a Start has yet to  *)
(* record, whatever lingers, crashes or fails.                                *)
OneProcess ==
    \A p \in Running :
        /\ cmd = IF swap[p] = "record" THEN None ELSE p
        /\ Running = {p}

(* Ready means ready: the process behind m.cmd serves currentModel, so a      *)
(* request that handleEnsure waves through asks the right process.            *)
ReadyIsTruthful == state = "ready" /\ cmd # None => model[cmd] = current

(* One swap at a time, and swapInProgress and the two transient states say so *)
(* exactly: no failure leaves the coordinator starting or stopping for ever.  *)
SwapsSerialized ==
    /\ swapping <=> \E r \in Requests : Swapping(r)
    /\ swapping <=> state \in {"starting", "stopping"}
    /\ \A r, s \in Requests : Swapping(r) /\ Swapping(s) => r = s

(* The stages in which the new model's limits may be in force. *)
NewLimitStages == {"start", "record", "verify", "unwind", "undo", "done"}

(* Whose limits may be in force: the current model's until it has been        *)
(* stopped, and the new one's from the moment they are applied.               *)
SwapOwns(m) ==
    \/ state \in {"ready", "stopping"} /\ current = m
    \/ \E p \in Running : model[p] = m
    \/ \E r \in Requests : model[r] = m /\ swap[r] \in NewLimitStages

(* No model's power limit outlives the coordinator's ownership of its GPUs.   *)
SwapLimitsOwned ==
    \A g \in limited : \E m \in Models : SwapOwns(m) /\ g \in limitedGPUs[m]

-----------------------------------------------------------------------------
(* The inductive invariant behind the safety properties, part by part *)

StoppingStages == {"drain", "stop", "kill", "stopping"}

(* A process that has started and has not been recorded is alone; once it is  *)
(* recorded m.cmd is the one process whose waiter has not cleared it.         *)
CmdInv ==
    /\ \A p \in Procs : proc[p] = "started" <=> swap[p] = "record"
    /\ \A p \in Procs : proc[p] = "started" => cmd = None
    /\ \A p \in Procs : proc[p] \in {"running", "exited", "reported"} => cmd = p
    /\ cmd # None => proc[cmd] \in {"running", "exited", "reported"}

(* The stages of a swap against its request, its process and its call of Stop. *)
StageInv ==
    \A r \in Requests :
        /\ req[r] \in {"new", "received"} => swap[r] = "none"
        /\ swap[r] \in StoppingStages \cup {"none", "revert", "starting", "power", "start"} =>
              proc[r] = "unborn"
        /\ swap[r] \in {"verify", "done"} => cmd \in {r, None}
        /\ call[r].stage = "idle" <=> swap[r] \notin {"stopping", "unwind"}

(* Requests are handled one at a time, and what handleEnsure has read is      *)
(* still so when it decides, unless a swap was in progress.                   *)
SnapInv ==
    \A r \in Requests : req[r] = "received" =>
        /\ Busy \/ snap = Fields
        /\ \A q \in Requests : req[q] = "received" => q = r

(* Whose limits are in force at each stage, when every stop and every limit   *)
(* succeeds.                                                                  *)
LimitInv ==
    ~MayLinger /\ ~MayGarble /\ ~MayRefuse =>
        /\ \A c \in Procs : call[c].stage # "failed"
        /\ state \in {"idle", "error"} => limited = {}
        /\ state \in {"ready", "stopping"} =>
              current \in Models /\ limited \subseteq limitedGPUs[current]
        /\ \A r \in Requests :
              /\ swap[r] \in StoppingStages \cup {"revert"} => state = "stopping"
              /\ swap[r] \in {"power", "failed"} \cup NewLimitStages => state = "starting"
              /\ swap[r] \in {"starting", "power", "failed"} => limited = {}
              /\ swap[r] \in NewLimitStages => limited \subseteq limitedGPUs[model[r]]

CoordInd ==
    /\ CoordTypeOK
    /\ SwapsSerialized
    /\ ReadyIsTruthful
    /\ CmdInv
    /\ StageInv
    /\ SnapInv
    /\ LimitInv

-----------------------------------------------------------------------------
(* What a step may never do *)

(* A swap begins only when none is in progress, after the backoff of repeated *)
(* failures, and outside the cooldown unless it restarts the current model.   *)
SwapsPaced ==
    [][\A r \in Requests : swap[r] = "none" /\ swap'[r] # "none" =>
          /\ ~swapping
          /\ ~(state = "error" /\ failures > 1 /\ backingOff)
          /\ cooling => state = "ready" /\ current = model[r] /\ cmd = None]_vars

-----------------------------------------------------------------------------
(* Liveness *)

(* A swap ends, whatever clients and processes do, unless an nvidia-smi that  *)
(* it called hangs.                                                           *)
SwapEnds == \A r \in Requests : Swapping(r) ~> (~Swapping(r) \/ []InNvidiaSmi(r))

-----------------------------------------------------------------------------
(* What the documents say and the code does not do *)

(* A drain that ended without a timeout leaves nothing in flight to stop on.  *)
DrainedBeforeStop == \A r \in Requests : swap[r] = "stop" => tracked = {}

(* After a stop that succeeded the new process can be started.                *)
StartFollowsStop == \A r \in Requests : swap[r] = "start" => MayStart
=============================================================================
