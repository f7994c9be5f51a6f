-------------------------- MODULE StartupProperties --------------------------
(***************************************************************************)
(* What the validated configuration is good for, and what becomes of its   *)
(* power limits.                                                           *)
(***************************************************************************)
EXTENDS Startup

-----------------------------------------------------------------------------
(* What the rest of jukebox takes for granted of the configuration *)

(* Manager.Start: a model of its own, with a path, a runtime it knows and the *)
(* binary that this runtime needs.  llama.cpp has no scheduler.               *)
Startable(c, n) ==
    /\ n \in RealModels(c)
    /\ c.models[n].path
    /\ \/ c.models[n].runtime = "vllm"
       \/ c.models[n].runtime = "llama_cpp" /\ c.llamaBinary /\ c.scheduler = None

(* The handlers and the routers follow one hop from a name and start what     *)
(* they come to; what is not configured at all they refuse.                   *)
NamesUsable(c) ==
    /\ Names(c) # {}
    /\ \A n \in Names(c) \cup ({c.defaultModel} \ {None}) : Startable(c, ResolveModel(c, n))

(* The scheduler counts on a port for each of its instances, and on distinct  *)
(* GPUs and a demand for memory of each model.                                *)
InstancesUsable(c) ==
    c.scheduler # None =>
        /\ c.scheduler.lo .. c.scheduler.hi # {}
        /\ c.scheduler.lo .. c.scheduler.hi \subseteq 1 .. LastPort
        /\ c.scheduler.max # None =>
              c.scheduler.max \in 1 .. Cardinality(c.scheduler.lo .. c.scheduler.hi)
        /\ \A n \in RealModels(c) :
              LET m == c.models[n] IN
              /\ m.mem # None /\ m.mem > 0
              /\ Elements(m.gpus) # {} /\ Elements(m.gpus) \subseteq Nat
              /\ Cardinality(Elements(m.gpus)) = Len(m.gpus)

(* The power manager sets what ModelLimits gives it, and its defaults,        *)
(* without a look at them.  No entry of a model's map is passed over when the *)
(* model's GPUs are listed.                                                   *)
LimitsUsable(c) ==
    /\ c.gpuLimits # None => \A g \in DOMAIN c.gpuLimits : c.gpuLimits[g] > 0
    /\ c.defaultLimit # None => c.defaultLimit > 0
    /\ \A n \in RealModels(c) :
          LET m == c.models[n] IN
          /\ \A g \in DOMAIN ModelLimits(m) : ModelLimits(m)[g] > 0
          /\ m.gpus # <<>> /\ Given(m.limits) => DOMAIN ModelLimits(m) = DOMAIN m.limits

(* The log writer rotates at a size and keeps some backups. *)
LogUsable(c) == c.logSize > 0 /\ c.logFiles > 0

Usable(c) == NamesUsable(c) /\ InstancesUsable(c) /\ LimitsUsable(c) /\ LogUsable(c)

(* main goes on only with a configuration that holds what the routers, the    *)
(* scheduler, the power manager and the log writer take for granted: in       *)
(* particular no accepted name is more than one hop from a model that can be  *)
(* started, after any chain or loop of aliases that a user may write.  It     *)
(* does not say that the ports jukebox listens on and those of the processes  *)
(* are apart: Validate does not look at that.                                 *)
LoadedIsUsable == stage \notin {"off", "rejected"} => Usable(config)

-----------------------------------------------------------------------------
(* Power limits *)

(* The limit the configuration wants on a GPU now: the loaded model's own,    *)
(* or the GPU's default, if there is one.                                     *)
Wanted(g) ==
    LET own == {ModelLimits(config.models[n])[g] :
                  n \in {n \in loaded : g \in DOMAIN ModelLimits(config.models[n])}}
    IN own \cup IF own = {} /\ g \in DOMAIN defaults THEN {defaults[g]} ELSE {}

(* The limit that is in force is the one that is wanted, over any number of   *)
(* loads and unloads, and however often jukebox is killed with a model's      *)
(* limits in force and started again; but for the GPUs on which nvidia-smi    *)
(* failed or a start was refused half-way.                                    *)
LimitsAsWanted ==
    stage = "serving" /\ defaults # None =>
        \A g \in GPUs \ undone : Wanted(g) \subseteq {actual[g]}

-----------------------------------------------------------------------------
(* The inductive invariant behind LimitsAsWanted, part by part *)

(* Where main is: nothing is loaded before it serves, nothing is known of the *)
(* limits before they are set, and every GPU with a default waits for its own. *)
MainInv ==
    /\ stage \in Stages
    /\ stage # "serving" => loaded = {}
    /\ stage = "off" => defaults = None
    /\ stage \in {"off", "limits"} => DOMAIN current = {}
    /\ stage = "limits" => pending = DOMAIN defaults

(* The models that are loaded share no GPU, in either mode. *)
ApartInv ==
    /\ loaded \subseteq RealModels(config)
    /\ \A l, m \in loaded : l # m => Gpus(l) \cap Gpus(m) = {}

(* What the power manager knows of a GPU that no failure has touched: the     *)
(* limit in force, on every GPU with a default.                               *)
KnownInv ==
    stage \in {"devices", "serving"} /\ defaults # None =>
        \A g \in GPUs \ undone :
            /\ g \in DOMAIN defaults => g \in DOMAIN current
            /\ g \in DOMAIN current => current[g] = actual[g]
            /\ Wanted(g) \subseteq {actual[g]}

PowerInv == MainInv /\ ApartInv /\ KnownInv
=============================================================================
