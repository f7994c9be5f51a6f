------------------------------ MODULE Scheduler ------------------------------
(***************************************************************************)
(* The multi-instance GPU scheduler of internal/jukebox/scheduler.go, with *)
(* the port pool it draws from (internal/ports) and what it uses of the    *)
(* in-flight trackers (internal/inflight) and of the power manager         *)
(* (internal/gpu).                                                         *)
(*                                                                         *)
(* Every HTTP request that names a model runs AcquireRoute in a goroutine  *)
(* of its own.  A request is one-shot here, and builds at most one         *)
(* instance, so the instance it builds (a *schedInstance and its process)  *)
(* carries the request's name.  An action is one atomic step of the code:  *)
(* a critical section of s.mu, an operation on the channel s.sched, or a   *)
(* call to the port pool, nvidia-smi or the instance manager.              *)
(*                                                                         *)
(* The clock of lastUsedAt is read before s.mu is taken.  Time is counted  *)
(* here in recorded uses: a reading is the number of uses that had been    *)
(* recorded when the clock was read.                                       *)
(***************************************************************************)
EXTENDS Naturals, FiniteSets

CONSTANTS
    Models,         \* the configured models, by resolved name
    Requests,       \* HTTP requests, and the instances they build
    GPUs,
    Ports,          \* scheduler.port_range_start .. port_range_end
    gpusOf,         \* [Models -> SUBSET GPUs]: models.<name>.gpus
    limitedGPUs,    \* those with a model power limit, and a default to revert to
    PinnedModels,   \* models with pinned: true
    MaxInstances,   \* scheduler.max_instances; Unlimited when it is absent
    Unlimited,
    PowerRequired,  \* gpu_power.required: a failed limit fails the start
    Faults,         \* the failures of the environment that may happen
    None

ASSUME ModelAssumption ==
    /\ gpusOf \in [Models -> (SUBSET GPUs) \ {{}}]
    /\ \A m \in Models : limitedGPUs[m] \subseteq gpusOf[m]
    /\ PinnedModels \subseteq Models
    /\ None \notin Requests

ASSUME PortAssumption == IsFiniteSet(Ports) /\ Ports \subseteq Nat

ASSUME CapacityAssumption == MaxInstances \in Nat \cup {Unlimited}

ASSUME FaultAssumption ==
    /\ PowerRequired \in BOOLEAN
    /\ Faults \subseteq {"linger", "apply", "revert"}

VARIABLES
    pc,         \* where each request is in AcquireRoute, or how it ended
    model,      \* the resolved model each request asks for
    permit,     \* the request whose token is in the channel s.sched
    waiters,    \* s.waiters: the models with a request waiting for the permit
    instances,  \* s.instances: the instance registered for each model
    life,       \* state and draining of each instance, always set together
    alive,      \* the instances whose process runs (CurrentPID() # 0)
    aged,       \* the instances up for at least min_instance_uptime
    lastUsed,   \* lastUsedAt of each instance: the clock as it was read
    routed,     \* history: which of all recorded uses was its last
    clock,      \* the number of uses recorded so far
    inflight,   \* the requests each instance's in-flight tracker counts
    port,       \* the port each instance was built with
    used,       \* ports.Pool.used
    limited,    \* the GPUs under a model power limit
    plan,       \* evictConflicts' locals: conflicts left, their order, the ripe
    victim,     \* the instance the permit's holder drains and stops
    now         \* the clock as the permit's holder has read it

reqVars  == <<pc, model, permit, waiters>>
useVars  == <<lastUsed, routed, clock>>
instVars == <<instances, life, alive, aged, useVars, inflight>>
resVars  == <<port, used, limited>>
planVars == <<plan, victim, now>>
vars     == <<reqVars, instVars, resVars, planVars>>

Rejections == {"swap_in_progress", "wait_timeout", "no_capacity",
               "pinned_conflict", "min_uptime", "insufficient", "error"}

(* The stages of AcquireRoute during which the request's token is in s.sched. *)
PermitStages == {"granted", "recheck", "lookup", "admit", "gpus", "scan", "sort",
                 "evict", "drain", "stop", "kill", "revert", "deregister", "release",
                 "rescan", "vram", "acquire", "power", "refused", "start", "verify",
                 "unverified", "unstarted", "undo", "verified", "install", "handout"}

Stages == PermitStages \cup Rejections \cup
          {"new", "miss", "busy", "waiting", "expired", "serving", "finished"}

Answered == Rejections \cup {"serving", "finished"}

NoPlan == [left |-> {}, ripe |-> {}, order |-> [i \in Requests |-> 0]]

-----------------------------------------------------------------------------
(* Helpers.  The operators whose comment starts with "Fault:" are plausible   *)
(* bugs of the definition that follows them; only the mutation runs use them. *)

Overlap(m, n) == gpusOf[m] \cap gpusOf[n] # {}

\* Fault: only identical GPU sets are taken to conflict.
ConflictsExact(m) ==
    {instances[n] : n \in {k \in Models : instances[k] # None /\ gpusOf[k] = gpusOf[m]}}

\* Fault: the model's own dead instance is not a conflict.
ConflictsOfOthers(m) ==
    {instances[n] : n \in {k \in Models \ {m} : instances[k] # None /\ Overlap(k, m)}}

(* The registered instances that hold a GPU the model needs, its own included. *)
Conflicts(m) == {instances[n] : n \in {k \in Models : instances[k] # None /\ Overlap(k, m)}}

\* Fault: a draining instance still takes requests.
RoutableWhileDraining(m) == instances[m] # None /\ instances[m] \in alive

(* The test tryRouteReady makes under s.mu. *)
Routable(m) ==
    /\ instances[m] # None
    /\ life[instances[m]] = "ready"
    /\ instances[m] \in alive

\* Fault: an instance whose process died does not count.
OtherRunningInstances(m) ==
    Cardinality({n \in Models \ {m} : instances[n] # None /\ instances[n] \in alive})

(* The number of registered instances, the model's own not counted. *)
OtherInstances(m) == Cardinality({n \in Models \ {m} : instances[n] # None})

Goto(r, stage) == pc' = [pc EXCEPT ![r] = stage]

(* lastUsedAt = t *)
Touch(i, t) ==
    /\ lastUsed' = [lastUsed EXCEPT ![i] = t]
    /\ clock' = clock + 1
    /\ routed' = [routed EXCEPT ![i] = clock + 1]

\* Fault: the range is off by one.
FreePortsShifted == {p + 1 : p \in Ports} \ used

FreePorts == Ports \ used

\* Fault: nothing goes back to the pool.
ReleasePortForgotten(i) == UNCHANGED used

(* Pool.Release: an unconditional delete. *)
ReleasePort(i) == used' = used \ {port[i]}

\* Fault: a pinned instance without requests is fair game.
AnyPinnedBusy(S) == \E i \in S : model[i] \in PinnedModels /\ inflight[i] # {}

AnyPinned(S) == \E i \in S : model[i] \in PinnedModels

\* Fault: min_instance_uptime is not looked at.
RipeAll == Requests

(* The instances whose uptime has reached min_instance_uptime. *)
Ripe == aged

\* Fault: the most recently used conflict goes first.
NewestLeft(v) == v \in plan.left /\ \A w \in plan.left : plan.order[v] >= plan.order[w]

(* The conflict evictConflicts turns to next, of those left. *)
OldestLeft(v) == v \in plan.left /\ \A w \in plan.left : plan.order[v] <= plan.order[w]

(* RevertModelLimits logs a failed nvidia-smi call and goes on. *)
RevertLimits(m) ==
    \E stuck \in SUBSET (IF "revert" \in Faults THEN gpusOf[m] \cap limited ELSE {}) :
        limited' = (limited \ gpusOf[m]) \cup stuck

\* Fault: a process with requests on it is left to itself.
StopProcessUnlessBusy(i) ==
    alive' = IF inflight[i] = {} THEN alive \ {i} ELSE alive

(* Manager.Stop returns when the process has exited, or with an error its    *)
(* callers drop when it survives SIGKILL for two seconds.                     *)
StopProcess(i) ==
    \/ alive' = alive \ {i}
    \/ "linger" \in Faults /\ i \in alive /\ UNCHANGED alive

Init ==
    /\ pc = [r \in Requests |-> "new"]
    /\ model \in [Requests -> Models]
    /\ permit = None
    /\ waiters = {}
    /\ instances = [m \in Models |-> None]
    /\ life = [i \in Requests |-> "none"]
    /\ alive = {}
    /\ aged = {}
    /\ lastUsed = [i \in Requests |-> 0]
    /\ routed = [i \in Requests |-> 0]
    /\ clock = 0
    /\ inflight = [i \in Requests |-> {}]
    /\ port = [i \in Requests |-> 0]
    /\ used = {}
    /\ limited = {}
    /\ plan = NoPlan
    /\ victim = None
    /\ now = 0

-----------------------------------------------------------------------------
(* Routing to a ready instance, and the scheduling permit *)

(* now := s.now(), before s.mu is taken: under the permit for the second      *)
(* tryRouteReady, and for the instance that has been verified.                *)
ReadClock(r) ==
    /\ pc[r] \in {"recheck", "verified"}
    /\ now' = clock
    /\ Goto(r, IF pc[r] = "recheck" THEN "lookup" ELSE "install")
    /\ UNCHANGED <<model, permit, waiters, instVars, resVars, plan, victim>>

(* tryRouteReady succeeds: on arrival, or again under the permit.  The test,  *)
(* the touch and the Track are one critical section of s.mu.  A request that  *)
(* arrives has read the clock at any moment before.                           *)
RouteReady(r) ==
    LET i == instances[model[r]] IN
    /\ Routable(model[r])
    /\ \/ pc[r] = "new" /\ (\E t \in 0 .. clock : Touch(i, t)) /\ UNCHANGED now
       \/ pc[r] = "lookup" /\ Touch(i, now) /\ now' = 0
    /\ inflight' = [inflight EXCEPT ![i] = @ \cup {r}]
    /\ Goto(r, "serving")
    /\ UNCHANGED <<model, permit, waiters, instances, life, alive, aged, resVars,
                   plan, victim>>

RouteMiss(r) ==
    /\ ~Routable(model[r])
    /\ \/ pc[r] = "new" /\ Goto(r, "miss") /\ UNCHANGED now
       \/ pc[r] = "lookup" /\ Goto(r, "admit") /\ now' = 0
    /\ UNCHANGED <<model, permit, waiters, instVars, resVars, plan, victim>>

(* The non-blocking send on s.sched. *)
TryPermit(r) ==
    /\ pc[r] = "miss"
    /\ IF permit = None
         THEN Goto(r, "recheck") /\ permit' = r
         ELSE Goto(r, "busy") /\ UNCHANGED permit
    /\ UNCHANGED <<model, waiters, instVars, resVars, planVars>>

(* At most one request per model waits for the permit. *)
JoinWaiters(r) ==
    /\ pc[r] = "busy"
    /\ IF model[r] \in waiters
         THEN Goto(r, "swap_in_progress") /\ UNCHANGED waiters
         ELSE Goto(r, "waiting") /\ waiters' = waiters \cup {model[r]}
    /\ UNCHANGED <<model, permit, instVars, resVars, planVars>>

WaiterGetsPermit(r) ==
    /\ pc[r] = "waiting"
    /\ permit = None
    /\ permit' = r
    /\ Goto(r, "granted")
    /\ UNCHANGED <<model, waiters, instVars, resVars, planVars>>

(* The swap_wait_timeout timer, or a cancelled context. *)
WaitTimesOut(r) ==
    /\ pc[r] = "waiting"
    /\ Goto(r, "expired")
    /\ UNCHANGED <<model, permit, waiters, instVars, resVars, planVars>>

\* Fault: a waiter that got the permit stays listed.
LeaveWaitersOnTimeoutOnly(r) ==
    /\ pc[r] \in {"granted", "expired"}
    /\ waiters' = IF pc[r] = "granted" THEN waiters ELSE waiters \ {model[r]}
    /\ Goto(r, IF pc[r] = "granted" THEN "recheck" ELSE "wait_timeout")
    /\ UNCHANGED <<model, permit, instVars, resVars, planVars>>

(* The deferred delete(s.waiters, model). *)
LeaveWaiters(r) ==
    /\ pc[r] \in {"granted", "expired"}
    /\ waiters' = waiters \ {model[r]}
    /\ Goto(r, IF pc[r] = "granted" THEN "recheck" ELSE "wait_timeout")
    /\ UNCHANGED <<model, permit, instVars, resVars, planVars>>

\* Fault: the early returns forget the token in s.sched.
GiveBackRoutedOnly(r) ==
    /\ permit = r
    /\ pc[r] = "serving"
    /\ permit' = None
    /\ UNCHANGED <<pc, model, waiters, instVars, resVars, planVars>>

(* The deferred receive from s.sched, on every way out of AcquireRoute. *)
GiveBack(r) ==
    /\ permit = r
    /\ pc[r] \in Answered
    /\ permit' = None
    /\ UNCHANGED <<pc, model, waiters, instVars, resVars, planVars>>

-----------------------------------------------------------------------------
(* Admission and eviction *)

(* The max_instances test, under s.mu. *)
Admit(r) ==
    /\ pc[r] = "admit"
    /\ Goto(r, IF MaxInstances # Unlimited /\ OtherInstances(model[r]) >= MaxInstances
                 THEN "no_capacity" ELSE "gpus")
    /\ UNCHANGED <<model, permit, waiters, instVars, resVars, planVars>>

(* ensureGPUsExist: nvidia-smi fails or does not list a GPU, or evictConflicts *)
(* begins, which first reads the clock that the uptimes are judged by.         *)
CheckGPUs(r) ==
    /\ pc[r] = "gpus"
    /\ \/ Goto(r, "scan") /\ plan' = [NoPlan EXCEPT !.ripe = Ripe]
       \/ Goto(r, "error") /\ UNCHANGED plan
    /\ UNCHANGED <<model, permit, waiters, instVars, resVars, victim, now>>

(* The conflicts are collected under s.mu; a pinned one rejects the request. *)
ScanConflicts(r) ==
    LET found == Conflicts(model[r]) IN
    /\ pc[r] = "scan"
    /\ IF AnyPinned(found)
         THEN Goto(r, "pinned_conflict") /\ plan' = NoPlan
         ELSE /\ Goto(r, "sort")
              /\ plan' = [left |-> found, ripe |-> plan.ripe \cap found,
                          order |-> [i \in Requests |-> IF i \in found THEN lastUsed[i] ELSE 0]]
    /\ UNCHANGED <<model, permit, waiters, instVars, resVars, victim, now>>

(* sort.Slice compares lastUsedAt without s.mu.  When a request touches one   *)
(* of the conflicts meanwhile, its comparisons contradict each other and it   *)
(* may leave them all in any order.                                           *)
SortConflicts(r) ==
    /\ pc[r] = "sort"
    /\ plan' = IF \A i \in plan.left : lastUsed[i] = plan.order[i]
                 THEN plan
                 ELSE [plan EXCEPT !.order = NoPlan.order]
    /\ Goto(r, "evict")
    /\ UNCHANGED <<model, permit, waiters, instVars, resVars, victim, now>>

(* The loop takes the least recently used conflict left.  One that was too    *)
(* young at the scan ends the request; another is marked under s.mu, so that  *)
(* no new request is routed to it.                                            *)
EvictNext(r) ==
    /\ pc[r] = "evict"
    /\ \E v \in Requests :
        /\ OldestLeft(v)
        /\ IF v \in plan.ripe
             THEN /\ life' = [life EXCEPT ![v] = "stopping"]
                  /\ plan' = [plan EXCEPT !.left = @ \ {v}]
                  /\ victim' = v
                  /\ Goto(r, "drain")
             ELSE /\ Goto(r, "min_uptime")
                  /\ plan' = NoPlan
                  /\ UNCHANGED <<life, victim>>
    /\ UNCHANGED <<model, permit, waiters, instances, alive, aged, useVars, inflight,
                   resVars, now>>

(* The loop is over: the last look at the map before the GPUs are taken. *)
EvictDone(r) ==
    /\ pc[r] = "evict"
    /\ plan.left = {}
    /\ plan' = NoPlan
    /\ Goto(r, IF Conflicts(model[r]) = {} THEN "vram" ELSE "insufficient")
    /\ UNCHANGED <<model, permit, waiters, instVars, resVars, victim, now>>

\* Fault: the drain has no deadline.
EndDrainUnbounded(r) ==
    /\ pc[r] = "drain"
    /\ inflight[victim] = {}
    /\ Goto(r, "stop")
    /\ UNCHANGED <<model, permit, waiters, instVars, resVars, planVars>>

(* WaitForDrain returns: every tracked request is done, or drain_timeout. *)
EndDrain(r) ==
    /\ pc[r] = "drain"
    /\ Goto(r, IF inflight[victim] = {} THEN "stop" ELSE "kill")
    /\ UNCHANGED <<model, permit, waiters, instVars, resVars, planVars>>

(* mgr.Stop, whose error is dropped. *)
StopVictim(r) ==
    /\ pc[r] \in {"stop", "kill"}
    /\ StopProcess(victim)
    /\ Goto(r, "revert")
    /\ UNCHANGED <<model, permit, waiters, instances, life, aged, useVars, inflight,
                   resVars, planVars>>

(* RevertModelLimits.  The instance that a new one has just replaced is out   *)
(* of the map already.                                                        *)
RevertVictim(r) ==
    /\ pc[r] = "revert"
    /\ RevertLimits(model[victim])
    /\ Goto(r, IF life[r] = "ready" THEN "release" ELSE "deregister")
    /\ UNCHANGED <<model, permit, waiters, instVars, port, used, planVars>>

(* delete(s.instances, inst.model), whatever is registered under that name. *)
Deregister(r) ==
    /\ pc[r] = "deregister"
    /\ instances' = [instances EXCEPT ![model[victim]] = None]
    /\ Goto(r, "release")
    /\ UNCHANGED <<model, permit, waiters, life, alive, aged, useVars, inflight,
                   resVars, planVars>>

(* ports.Release *)
ReleaseVictim(r) ==
    /\ pc[r] = "release"
    /\ ReleasePort(victim)
    /\ victim' = None
    /\ Goto(r, IF life[r] = "ready" THEN "handout" ELSE "rescan")
    /\ UNCHANGED <<model, permit, waiters, instVars, port, limited, plan, now>>

(* The conflicts are recomputed after each eviction. *)
Rescan(r) ==
    /\ pc[r] = "rescan"
    /\ IF Conflicts(model[r]) = {}
         THEN Goto(r, "vram") /\ plan' = NoPlan
         ELSE Goto(r, "evict") /\ UNCHANGED plan
    /\ UNCHANGED <<model, permit, waiters, instVars, resVars, victim, now>>

-----------------------------------------------------------------------------
(* Building the instance *)

(* ensureFreeVRAM: nvidia-smi is external, and may fail or report any amount. *)
CheckVRAM(r) ==
    /\ pc[r] = "vram"
    /\ \E stage \in {"acquire", "insufficient", "error"} : Goto(r, stage)
    /\ UNCHANGED <<model, permit, waiters, instVars, resVars, planVars>>

(* Pool.Acquire takes the lowest free port; the instance is built around it. *)
AcquirePort(r) ==
    /\ pc[r] = "acquire"
    /\ IF FreePorts = {}
         THEN Goto(r, "no_capacity") /\ UNCHANGED <<port, used, life>>
         ELSE \E p \in FreePorts :
                /\ \A q \in FreePorts : p <= q
                /\ port' = [port EXCEPT ![r] = p]
                /\ used' = used \cup {p}
                /\ life' = [life EXCEPT ![r] = "starting"]
                /\ Goto(r, "power")
    /\ UNCHANGED <<model, permit, waiters, instances, alive, aged, useVars, inflight,
                   limited, planVars>>

(* ApplyModelLimits sets each GPU in turn and goes on after a failure, which  *)
(* it returns only when limits are required.                                  *)
ApplyLimits(r) ==
    /\ pc[r] = "power"
    /\ \E failed \in SUBSET (IF "apply" \in Faults THEN limitedGPUs[model[r]] ELSE {}) :
        /\ limited' = limited \cup (limitedGPUs[model[r]] \ failed)
        /\ Goto(r, IF failed # {} /\ PowerRequired THEN "refused" ELSE "start")
    /\ UNCHANGED <<model, permit, waiters, instVars, port, used, planVars>>

(* mgr.Start *)
StartProcess(r) ==
    /\ pc[r] = "start"
    /\ alive' = alive \cup {r}
    /\ Goto(r, "verify")
    /\ UNCHANGED <<model, permit, waiters, instances, life, aged, useVars, inflight,
                   resVars, planVars>>

StartFails(r) ==
    /\ pc[r] = "start"
    /\ Goto(r, "unstarted")
    /\ UNCHANGED <<model, permit, waiters, instVars, resVars, planVars>>

VerifySucceeds(r) ==
    /\ pc[r] = "verify"
    /\ r \in alive
    /\ Goto(r, "verified")
    /\ UNCHANGED <<model, permit, waiters, instVars, resVars, planVars>>

(* A start-up timeout, an early exit or a wrong model. *)
VerifyFails(r) ==
    /\ pc[r] = "verify"
    /\ Goto(r, "unverified")
    /\ UNCHANGED <<model, permit, waiters, instVars, resVars, planVars>>

(* mgr.Stop of the instance that could not be verified; its error is dropped. *)
StopUnverified(r) ==
    /\ pc[r] = "unverified"
    /\ StopProcess(r)
    /\ Goto(r, "unstarted")
    /\ UNCHANGED <<model, permit, waiters, instances, life, aged, useVars, inflight,
                   resVars, planVars>>

(* ports.Release on the ways out of a start; a refused limit ends there. *)
ReleaseOwnPort(r) ==
    /\ pc[r] \in {"refused", "unstarted"}
    /\ ReleasePort(r)
    /\ Goto(r, IF pc[r] = "refused" THEN "error" ELSE "undo")
    /\ UNCHANGED <<model, permit, waiters, instVars, port, limited, planVars>>

\* Fault: a failed start leaves the model's power limits in force.
RevertOwnLimitsForgotten(r) ==
    /\ pc[r] = "undo"
    /\ Goto(r, "error")
    /\ UNCHANGED <<model, permit, waiters, instVars, resVars, planVars>>

(* RevertModelLimits after a failed start. *)
RevertOwnLimits(r) ==
    /\ pc[r] = "undo"
    /\ RevertLimits(model[r])
    /\ Goto(r, "error")
    /\ UNCHANGED <<model, permit, waiters, instVars, port, used, planVars>>

(* The instance takes its model's key, with the clock as it was read before   *)
(* s.mu was taken.  One it replaces is marked, drained, stopped and its port  *)
(* released, as evicted ones are, before the hand-out.                        *)
Install(r) ==
    LET old == instances[model[r]] IN
    /\ pc[r] = "install"
    /\ instances' = [instances EXCEPT ![model[r]] = r]
    /\ life' = [i \in Requests |-> IF i = r THEN "ready"
                                   ELSE IF i = old THEN "stopping" ELSE life[i]]
    /\ Touch(r, now)
    /\ now' = 0
    /\ victim' = old
    /\ Goto(r, IF old = None THEN "handout" ELSE "drain")
    /\ UNCHANGED <<model, permit, waiters, alive, aged, inflight, resVars, plan>>

(* routeForInstance, outside s.mu. *)
Handout(r) ==
    /\ pc[r] = "handout"
    /\ inflight' = [inflight EXCEPT ![r] = @ \cup {r}]
    /\ Goto(r, "serving")
    /\ UNCHANGED <<model, permit, waiters, instances, life, alive, aged, useVars,
                   resVars, planVars>>

-----------------------------------------------------------------------------
(* What happens outside AcquireRoute *)

\* Fault: the slot is given back to the instance now registered for the model.
FinishOnCurrent(r) ==
    /\ pc[r] = "serving"
    /\ permit # r
    /\ inflight' = [i \in Requests |->
                       IF i = instances[model[r]] THEN inflight[i] \ {r} ELSE inflight[i]]
    /\ Goto(r, "finished")
    /\ UNCHANGED <<model, permit, waiters, instances, life, alive, aged, useVars,
                   resVars, planVars>>

(* Route.Done, once AcquireRoute has returned and the response has been       *)
(* proxied or has failed.                                                     *)
Finish(r) ==
    /\ pc[r] = "serving"
    /\ permit # r
    /\ inflight' = [i \in Requests |-> inflight[i] \ {r}]
    /\ Goto(r, "finished")
    /\ UNCHANGED <<model, permit, waiters, instances, life, alive, aged, useVars,
                   resVars, planVars>>

(* A process exits on its own; Manager's waiter clears its pid. *)
Crash(i) ==
    /\ i \in alive
    /\ alive' = alive \ {i}
    /\ UNCHANGED <<reqVars, instances, life, aged, useVars, inflight, resVars,
                   planVars>>

(* min_instance_uptime passes for a ready instance. *)
GrowOld(i) ==
    /\ life[i] = "ready"
    /\ i \notin aged
    /\ aged' = aged \cup {i}
    /\ UNCHANGED <<reqVars, instances, life, alive, useVars, inflight, resVars,
                   planVars>>

(* Every request has been answered: the server idles. *)
Idle ==
    /\ \A r \in Requests : pc[r] \in Answered \ {"serving"} /\ permit # r
    /\ UNCHANGED vars

(* The steps AcquireRoute takes by itself once it has missed. *)
Schedule(r) ==
    \/ TryPermit(r) \/ JoinWaiters(r) \/ WaiterGetsPermit(r) \/ WaitTimesOut(r)
    \/ LeaveWaiters(r) \/ ReadClock(r) \/ Admit(r) \/ CheckGPUs(r)
    \/ ScanConflicts(r) \/ SortConflicts(r) \/ EvictNext(r) \/ EvictDone(r)
    \/ EndDrain(r) \/ StopVictim(r) \/ RevertVictim(r) \/ Deregister(r)
    \/ ReleaseVictim(r) \/ Rescan(r) \/ CheckVRAM(r) \/ AcquirePort(r)
    \/ ApplyLimits(r) \/ StartProcess(r) \/ StartFails(r) \/ VerifySucceeds(r)
    \/ VerifyFails(r) \/ StopUnverified(r) \/ ReleaseOwnPort(r) \/ RevertOwnLimits(r)
    \/ Install(r) \/ Handout(r) \/ GiveBack(r)

Next ==
    \/ \E r \in Requests : RouteReady(r) \/ RouteMiss(r) \/ Schedule(r) \/ Finish(r)
    \/ \E i \in Requests : Crash(i) \/ GrowOld(i)
    \/ Idle

Spec == Init /\ [][Next]_vars

(* AcquireRoute waits for nvidia-smi, which the code starts with the request's *)
(* context or with none: nothing ever ends a call that hangs.                  *)
InNvidiaSmi(r) ==
    \/ pc[r] \in {"gpus", "vram"}
    \/ pc[r] = "power" /\ limitedGPUs[model[r]] # {}
    \/ pc[r] = "revert" /\ gpusOf[model[victim]] \cap limited # {}
    \/ pc[r] = "undo" /\ gpusOf[model[r]] \cap limited # {}

(* Every other call AcquireRoute blocks on has a deadline of its own: the      *)
(* waiter's timer, drain_timeout, shutdown_timeout, startup_timeout.  Its      *)
(* goroutine therefore keeps moving.  Nothing bounds how long nvidia-smi, a    *)
(* proxied request or a process lives, and no request has to arrive.           *)
Fairness ==
    \A r \in Requests :
        WF_vars(/\ pc[r] # "new" /\ ~InNvidiaSmi(r)
                /\ RouteReady(r) \/ RouteMiss(r) \/ Schedule(r))

FairSpec == Spec /\ Fairness
=============================================================================
