------------------------- MODULE SchedulerProperties -------------------------
(***************************************************************************)
(* What makes the scheduler correct: the type invariant, the safety        *)
(* invariants, the action properties, the liveness properties and the      *)
(* abstract specification it implements.                                   *)
(***************************************************************************)
EXTENDS Scheduler

(* The requests, the instances and the resources have their types, whoever    *)
(* holds the permit.                                                          *)
ServerTypeOK ==
    /\ pc \in [Requests -> Stages]
    /\ model \in [Requests -> Models]
    /\ waiters \subseteq Models
    /\ instances \in [Models -> Requests \cup {None}]
    /\ life \in [Requests -> {"none", "starting", "ready", "stopping"}]
    /\ alive \subseteq Requests
    /\ aged \subseteq Requests
    /\ clock \in Nat
    /\ lastUsed \in [Requests -> Nat]
    /\ routed \in [Requests -> Nat]
    /\ inflight \in [Requests -> SUBSET Requests]
    /\ port \in [Requests -> Ports \cup {0}]
    /\ used \subseteq Ports
    /\ limited \subseteq GPUs
    /\ plan \in [left : SUBSET Requests, ripe : SUBSET Requests,
                 order : [Requests -> Nat]]
    /\ victim \in Requests \cup {None}
    /\ now \in Nat

(* Every variable has its type: the token is a request's or nobody's.         *)
TypeOK == ServerTypeOK /\ permit \in Requests \cup {None}

Registered == {i \in Requests : \E m \in Models : instances[m] = i}

(* The stages of a start from the port to the install or to the port's return. *)
BuildStages == {"power", "refused", "start", "verify", "unverified", "unstarted",
                "verified", "install"}

(* The instance under construction, while it has its port. *)
Building == {r \in Requests : pc[r] \in BuildStages}

(* The instances that own a port and their GPUs: registered, under            *)
(* construction, or on their way out.                                         *)
Owners == Registered \cup Building \cup ({victim} \ {None})

(* The owners, and the failed start that has still to revert its limits.      *)
LimitOwners == Owners \cup {r \in Requests : pc[r] = "undo"}

-----------------------------------------------------------------------------
(* Safety *)

(* Two processes never run on one GPU: the permit, evictConflicts and the     *)
(* stop that precedes every start keep them apart (scheduler.go, 184-270).    *)
GPUExclusive ==
    \A i, j \in alive : i # j => ~Overlap(model[i], model[j])

(* The pool's used ports are those of the owners, each its own: no path out   *)
(* of AcquireRoute or of an eviction leaks a port, frees one twice, or frees  *)
(* one that still has an instance behind it.                                  *)
PortsAccounted ==
    /\ used = {port[i] : i \in Owners}
    /\ \A i, j \in Owners : i # j => port[i] # port[j]

(* max_instances bounds the instances that own ports, the one under           *)
(* construction included, although it is tested long before the install.      *)
CapacityRespected ==
    MaxInstances # Unlimited => Cardinality(Owners) <= MaxInstances

(* At the moment a port is asked for at most max_instances - 1 are taken.     *)
(* When max_instances fits in the port range, as Validate demands, "no free   *)
(* ports available" is therefore never the answer.                            *)
PortNeverExhausted ==
    MaxInstances # Unlimited =>
        \A r \in Requests : pc[r] = "acquire" =>
            Cardinality(FreePorts) + MaxInstances > Cardinality(Ports)

(* The key is free at the install: the eviction that cleared the GPUs cleared *)
(* the model's own dead instance too, so nothing is ever clobbered and the    *)
(* crash-replace branch of AcquireRoute has nothing to do.                    *)
InstallIsFresh ==
    \A r \in Requests : pc[r] = "install" => instances[model[r]] = None

(* A victim whose drain ended without a timeout is stopped with no request on *)
(* it: the mark set before the drain keeps every later route away.            *)
DrainedStaysDrained ==
    \A r \in Requests : pc[r] = "stop" => inflight[victim] = {}

(* A request holds a slot of one in-flight tracker exactly while it is        *)
(* proxied, on an instance of the model it asked for.                         *)
SlotsAccounted ==
    \A r \in Requests :
        LET on == {i \in Requests : r \in inflight[i]} IN
        /\ Cardinality(on) = IF pc[r] = "serving" THEN 1 ELSE 0
        /\ \A i \in on : model[i] = model[r]

(* No process escapes the scheduler: one that runs is in the map, where an    *)
(* eviction or StopAll finds it, or in the hands of the permit's holder.      *)
NoOrphanProcess == alive \subseteq Owners

(* The hardening design's invariant: a GPU is under a model's power limit     *)
(* only while an instance of that model owns it, or is being cleaned up after. *)
LimitsOwned ==
    \A g \in limited : \E i \in LimitOwners : g \in limitedGPUs[model[i]]

(* s.waiters holds a model exactly while one request for it waits or has      *)
(* not yet withdrawn, and never two.                                          *)
WaitersAccounted ==
    \A m \in Models :
        Cardinality({r \in Requests : model[r] = m
                        /\ pc[r] \in {"waiting", "granted", "expired"}})
            = IF m \in waiters THEN 1 ELSE 0

-----------------------------------------------------------------------------
(* The inductive invariant behind the safety invariants, part by part *)

(* The stages before a request has an instance of its own. *)
EvictStages == {"drain", "stop", "kill", "revert", "deregister", "release"}
PlanStages == EvictStages \cup {"sort", "evict", "rescan"}
EarlyStages == {"new", "miss", "busy", "waiting", "expired", "granted", "recheck",
                "lookup", "admit", "gpus", "scan", "vram", "acquire"} \cup PlanStages
PlacedStages == {"vram", "acquire"} \cup BuildStages

(* The token in s.sched is its holder's, from the permit to the deferred      *)
(* receive, and only its holder schedules.                                    *)
PermitInv ==
    \A r \in Requests :
        /\ pc[r] \in PermitStages => permit = r
        /\ permit = r => pc[r] \in PermitStages \cup (Answered \ {"finished"})

(* An instance exists from the port on and is ready from the install on. *)
LifeInv ==
    \A r \in Requests :
        /\ pc[r] \in EarlyStages => life[r] = "none"
        /\ r \in Building => life[r] = "starting"
        /\ pc[r] = "handout" => life[r] = "ready"

(* The map's key is the instance's model, and no two entries share a GPU. *)
MapInv ==
    /\ \A m \in Models : instances[m] # None =>
          model[instances[m]] = m /\ life[instances[m]] \in {"ready", "stopping"}
    /\ \A m, n \in Models :
          m # n /\ instances[m] # None /\ instances[n] # None => ~Overlap(m, n)
    /\ \A m \in PinnedModels : instances[m] # None => life[instances[m]] = "ready"

(* The instance on its way out is registered until it has been deregistered,  *)
(* and nothing else is on its way out.                                        *)
VictimInv ==
    /\ victim # None => permit # None /\ pc[permit] \in EvictStages
    /\ \A r \in Requests : pc[r] \in EvictStages =>
          /\ victim # None
          /\ life[victim] = "stopping"
          /\ model[victim] \notin PinnedModels
          /\ pc[r] = "stop" => inflight[victim] = {}
          /\ instances[model[victim]] = IF pc[r] = "release" THEN None ELSE victim

(* The conflicts still to be evicted are registered and not pinned; those     *)
(* found ripe at the scan have only aged since.                               *)
PlanInv ==
    /\ plan.left # {} => permit # None /\ pc[permit] \in PlanStages
    /\ plan.ripe \subseteq aged
    /\ \A v \in plan.left :
          v # victim /\ instances[model[v]] = v /\ model[v] \notin PinnedModels

(* Past the eviction no registered instance holds a GPU of the placement.     *)
ClearedInv ==
    \A r \in Requests : pc[r] \in PlacedStages =>
        \A n \in Models : instances[n] # None => ~Overlap(n, model[r])

(* The stages in which an instance under construction has a process. *)
RunningStages == {"verify", "unverified", "verified", "install"}

(* Where the processes are, when every one that is stopped exits. *)
ProcessInv ==
    "linger" \notin Faults =>
        /\ \A i \in alive : instances[model[i]] = i \/ pc[i] \in RunningStages
        /\ \A r \in Requests :
              pc[r] \in {"revert", "deregister", "release"} => victim \notin alive

(* A limit has an owner, an instance that was stopped has none left, and only *)
(* a required limit that is refused ends a start without a revert.            *)
LimitInv ==
    /\ LimitsOwned
    /\ \A r \in Requests : pc[r] \in {"deregister", "release"} =>
          limited \cap gpusOf[model[victim]] = {}
    /\ \A r \in Requests : pc[r] = "refused" => "apply" \in Faults /\ PowerRequired

(* A registered instance is ready unless it is the victim.  A clock reading   *)
(* is older than the record of the use it was read for.                       *)
RankInv ==
    /\ \A m \in Models : instances[m] # None /\ instances[m] # victim =>
          life[instances[m]] = "ready"
    /\ now <= clock
    /\ \A m \in Models : instances[m] # None =>
          lastUsed[instances[m]] < routed[instances[m]] /\ routed[instances[m]] <= clock
    /\ \A w \in plan.left : plan.order[w] < routed[w]

IndInv ==
    /\ TypeOK
    /\ PermitInv
    /\ LifeInv
    /\ MapInv
    /\ VictimInv
    /\ PlanInv
    /\ ClearedInv
    /\ ProcessInv
    /\ PortsAccounted

(* The instances that have been installed, registered or not. *)
Installed == {i \in Requests : life[i] \in {"ready", "stopping"}}

(* What is left of the scheduler's invariant when somebody without the permit *)
(* takes instances from the map: the builder is alone and has no ready        *)
(* instance yet, the map is keyed by model, the GPUs of a placement are free. *)
BesideInv ==
    /\ PermitInv
    /\ \A r \in Requests :
          /\ pc[r] \in EarlyStages => life[r] = "none"
          /\ r \in Building => life[r] = "starting"
    /\ \A m \in Models : instances[m] # None =>
          model[instances[m]] = m /\ instances[m] \in Installed
    /\ victim # None => \E r \in Requests : pc[r] \in EvictStages
    /\ plan.left # {} => \E r \in Requests : pc[r] \in PlanStages
    /\ plan.left \subseteq Installed
    /\ ClearedInv

-----------------------------------------------------------------------------
(* What a step may never do *)

(* The instance of a pinned model that runs keeps its key and stays ready: no *)
(* other model's placement takes its GPUs, busy or idle, used lately or not.  *)
PinnedStep ==
    \A m \in PinnedModels : instances[m] \in alive =>
        instances'[m] = instances[m] /\ life'[instances[m]] = "ready"

PinnedStays == [][PinnedStep]_vars

(* An instance that begins to drain has been up for min_instance_uptime,      *)
(* although the uptime is judged once for all victims, before the drains.     *)
YoungStep ==
    \A i \in Requests : life[i] = "ready" /\ life'[i] = "stopping" => i \in aged

YoungStays == [][YoungStep]_vars

(* Victims go in LRU order, as far as clocks that are read before the lock    *)
(* can tell: of a conflict left behind, the last use was recorded after the   *)
(* clock had been read for the use that ranks the victim.  An instance whose  *)
(* last use was over before the victim's began never outlives it, unless a    *)
(* request touched one of the conflicts while they were sorted: then they     *)
(* have no order (each ranks 0), and nothing is claimed.                      *)
LeastRecentFirst ==
    [][\A v, w \in Requests :
          /\ v \in plan.left /\ life'[v] = "stopping"
          /\ w \in plan.left \ {v}
          => plan.order[v] < routed[w]]_vars

(* While a victim drains it keeps the requests it has, and gains none. *)
NoRouteToStopping ==
    [][\A i \in Requests : life[i] = "stopping" => inflight'[i] \subseteq inflight[i]]_vars

-----------------------------------------------------------------------------
(* Liveness *)

(* A request that needs scheduling is routed or rejected, whatever the        *)
(* clients of the instances it evicts do: drains and waits have deadlines.    *)
(* Only an nvidia-smi that it called itself can hold it up, by hanging.       *)
EveryRequestAnswered ==
    \A r \in Requests : pc[r] = "miss" ~> (pc[r] \in Answered \/ []InNvidiaSmi(r))

(* The permit comes back from every path, so the scheduler is never stuck     *)
(* but behind an nvidia-smi that hangs.                                       *)
PermitReturns ==
    \A r \in Requests : permit = r ~> (permit # r \/ []InNvidiaSmi(r))

-----------------------------------------------------------------------------
(* The abstract specification the scheduler implements *)

phaseOf == [m \in Models |->
    IF \E r \in Building : model[r] = m THEN "loading"
    ELSE IF instances[m] = None THEN "off"
    ELSE IF life[instances[m]] = "ready" THEN "serving" ELSE "draining"]

holderOf == [g \in GPUs |->
    IF \E m \in Models : phaseOf[m] # "off" /\ g \in gpusOf[m]
      THEN CHOOSE m \in Models : phaseOf[m] # "off" /\ g \in gpusOf[m]
      ELSE None]

P == INSTANCE Placement WITH
        phase <- phaseOf, holder <- holderOf, Free <- None,
        Capacity <- IF MaxInstances = Unlimited THEN Cardinality(Models) ELSE MaxInstances

(* Every step of the scheduler is a step of the placement or leaves it alone. *)
ImplementsPlacement == P!Spec
=============================================================================
