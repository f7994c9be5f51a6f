------------------------------- MODULE Startup -------------------------------
(***************************************************************************)
(* From the configuration to a server: what main (cmd/jukebox/main.go)     *)
(* does before it listens, and the power manager (internal/gpu/power.go)   *)
(* from its startup limits to the limits of the models that come and go.   *)
(* jukebox may be killed at any moment; the GPUs keep their limits, its    *)
(* record of them is lost, and it starts again.                            *)
(*                                                                         *)
(* The router is what the power manager sees of it: models are loaded and  *)
(* unloaded, no two on one GPU, one at a time in swap mode.                *)
(***************************************************************************)
EXTENDS ConfigRules

CONSTANTS
    Configs,        \* the configurations a user may write
    GPUs,           \* the indices of the GPUs that exist
    Factory         \* a GPU's limit before anyone has set it

(* What the types of Config leave a user to write. *)
WellFormed(c) ==
    /\ DOMAIN c = DOMAIN PlainConfig
    /\ {c.serverPort, c.vllmPort, c.logSize, c.logFiles} \subseteq Int
    /\ c.scheduler # None =>
          /\ {c.scheduler.lo, c.scheduler.hi} \subseteq Int
          /\ c.scheduler.max # None => c.scheduler.max \in Int
    /\ IsFiniteSet(Names(c)) /\ None \notin Names(c)
    /\ \A n \in Names(c) : c.models[n].gpus \in Seq(Int)

ASSUME StartupAssumption ==
    /\ Factory \in Nat
    /\ IsFiniteSet(GPUs)
    /\ \A c \in Configs : WellFormed(c)

VARIABLES
    config,     \* the configuration, with its defaults once it is loaded
    stage,      \* how far main has come
    defaults,   \* PowerManager.defaults; None without a power manager
    current,    \* PowerManager.current: the limits it knows to be in force
    actual,     \* the limits in force
    pending,    \* the GPUs whose startup limit is yet to be set
    loaded,     \* the models that are loaded
    undone      \* history: the GPUs where a limit is as a failure left it

powerVars == <<current, actual, undone>>
vars      == <<config, stage, defaults, pending, loaded, powerVars>>

Stages == {"off", "rejected", "limits", "devices", "exited", "serving"}

Init ==
    /\ config \in Configs
    /\ stage = "off"
    /\ defaults = None
    /\ current = <<>>
    /\ actual = [g \in GPUs |-> Factory]
    /\ pending = {}
    /\ loaded = {}
    /\ undone = {}

-----------------------------------------------------------------------------
(* PowerManager *)

(* SetLimit for some GPUs: those of ok take the limit and are recorded; for   *)
(* the others nvidia-smi fails, or is killed, some of them with the limit set *)
(* by then.                                                                   *)
SetLimits(limit, ok) ==
    /\ \E took \in SUBSET (DOMAIN limit \cap GPUs) :
          /\ ok \subseteq took
          /\ actual' = [g \in GPUs |-> IF g \in took THEN limit[g] ELSE actual[g]]
    /\ current' = [g \in DOMAIN current \cup ok |-> IF g \in ok THEN limit[g] ELSE current[g]]

(* The limits ApplyModelLimits sets: a map, even an empty one, comes first.   *)
ModelLimits(m) ==
    LET gpus == Elements(m.gpus) IN
    IF m.limits # None
      THEN [g \in gpus \cap DOMAIN m.limits |-> m.limits[g]]
      ELSE IF m.limit # None THEN [g \in gpus |-> m.limit] ELSE <<>>

\* Fault: what was overridden is looked up among the GPUs at their default.
OverriddenMissed(gpus) ==
    {g \in gpus \cap DOMAIN defaults : g \in DOMAIN current /\ current[g] = defaults[g]}

(* The GPUs RevertToDefault sets: they have a default, and a recorded limit   *)
(* that differs from it.                                                      *)
Overridden(gpus) ==
    {g \in gpus \cap DOMAIN defaults : g \in DOMAIN current /\ current[g] # defaults[g]}

-----------------------------------------------------------------------------
(* main *)

(* The defaults of the power manager main creates. *)
GivenDefaults(listed) ==
    IF config'.gpuLimits # None THEN config'.gpuLimits
    ELSE [g \in listed |-> config'.defaultLimit]

PowerManaged(c) == c.gpuLimits # None \/ c.defaultLimit # None

(* config.Load, then the power manager.  nvidia-smi lists the GPUs for        *)
(* default_power_limit; when it fails there is no default for any.            *)
LoadConfig ==
    /\ stage = "off"
    /\ config' = WithDefaults(config)
    /\ IF ~Validate(config')
         THEN stage' = "rejected" /\ UNCHANGED <<defaults, pending>>
         ELSE IF ~PowerManaged(config')
         THEN stage' = "devices" /\ UNCHANGED <<defaults, pending>>
         ELSE /\ stage' = "limits"
              /\ \E listed \in {GPUs, {}} :
                    /\ listed = {} => config'.gpuLimits = None
                    /\ defaults' = GivenDefaults(listed)
                    /\ pending' = DOMAIN defaults'
    /\ UNCHANGED <<loaded, powerVars>>

(* ApplyStartupLimits: one that fails stops jukebox only when required.  A    *)
(* GPU that is not there fails.                                               *)
StartupLimits ==
    /\ stage = "limits"
    /\ \E ok \in SUBSET (pending \cap GPUs) :
        /\ SetLimits(defaults, ok)
        /\ undone' = (undone \ ok) \cup (pending \ ok)
        /\ stage' = IF config.required /\ ok # pending THEN "exited" ELSE "devices"
    /\ pending' = {}
    /\ UNCHANGED <<config, defaults, loaded>>

(* Killed in the middle: some GPUs have their startup limit. *)
KilledInStartupLimits ==
    /\ stage = "limits"
    /\ \E ok \in SUBSET (pending \cap GPUs) :
          actual' = [g \in GPUs |-> IF g \in ok THEN defaults[g] ELSE actual[g]]
    /\ stage' = "off"
    /\ defaults' = None
    /\ pending' = {}
    /\ UNCHANGED <<config, current, loaded, undone>>

(* In scheduler mode every configured GPU must exist, and nvidia-smi say so. *)
CheckDevices ==
    /\ stage = "devices"
    /\ \/ config.scheduler = None /\ stage' = "serving"
       \/ /\ config.scheduler # None
          /\ stage' = IF \A n \in RealModels(config) : Elements(config.models[n].gpus) \subseteq GPUs
                        THEN "serving" ELSE "exited"
       \/ config.scheduler # None /\ stage' = "exited"
    /\ UNCHANGED <<config, defaults, pending, loaded, powerVars>>

-----------------------------------------------------------------------------
(* Serving *)

Gpus(n) == Elements(config.models[n].gpus)

(* The router keeps models that share a GPU apart; in swap mode any two. *)
MayLoad(n) ==
    /\ stage = "serving"
    /\ n \in RealModels(config) \ loaded
    /\ \A l \in loaded : config.scheduler # None /\ Gpus(l) \cap Gpus(n) = {}

(* ApplyModelLimits before the start.  When required, one that fails ends the *)
(* start, and the others are left as they are.                                *)
Load(n) ==
    /\ MayLoad(n)
    /\ LET limit == IF defaults = None THEN <<>> ELSE ModelLimits(config.models[n]) IN
       \E ok \in SUBSET (DOMAIN limit \cap GPUs) :
          /\ SetLimits(limit, ok)
          /\ IF config.required /\ ok # DOMAIN limit
               THEN loaded' = loaded /\ undone' = undone \cup DOMAIN limit
               ELSE /\ loaded' = loaded \cup {n}
                    /\ undone' = (undone \ ok) \cup (DOMAIN limit \ ok)
    /\ UNCHANGED <<config, stage, defaults, pending>>

(* RevertModelLimits after the stop, or after a start that failed. *)
Unload(n) ==
    /\ stage = "serving"
    /\ n \in loaded
    /\ loaded' = loaded \ {n}
    /\ IF defaults = None
         THEN UNCHANGED powerVars
         ELSE \E ok \in SUBSET (Overridden(Gpus(n)) \cap GPUs) :
                /\ SetLimits([g \in Overridden(Gpus(n)) |-> defaults[g]], ok)
                /\ undone' = (undone \ ok) \cup (Overridden(Gpus(n)) \ ok)
    /\ UNCHANGED <<config, stage, defaults, pending>>

(* jukebox is killed, or has exited, and is started again. *)
Restart ==
    /\ stage \in {"exited", "serving", "devices"}
    /\ stage' = "off"
    /\ defaults' = None
    /\ current' = <<>>
    /\ loaded' = {}
    /\ UNCHANGED <<config, actual, pending, undone>>

Refused ==
    /\ stage = "rejected"
    /\ UNCHANGED vars

Next ==
    \/ LoadConfig \/ StartupLimits \/ KilledInStartupLimits \/ CheckDevices
    \/ \E n \in RealModels(config) : Load(n) \/ Unload(n)
    \/ Restart \/ Refused

Spec == Init /\ [][Next]_vars
=============================================================================
