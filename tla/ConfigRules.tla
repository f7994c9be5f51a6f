----------------------------- MODULE ConfigRules -----------------------------
(***************************************************************************)
(* The rules of internal/config/config.go: the defaults that are filled    *)
(* in, the validation, and the resolution of a model's name.  A            *)
(* configuration is a record; a section, a map or a number that is left    *)
(* out is None, a section that is there but empty is not.  What no         *)
(* decision depends on (hosts, timeouts, paths, arguments) is left out.    *)
(***************************************************************************)
EXTENDS Integers, FiniteSets, Sequences

CONSTANTS None      \* what is left out

(* A model, and the configuration around it, with nothing out of order. *)
PlainModel ==
    [alias |-> None, path |-> TRUE, runtime |-> "vllm", gpus |-> <<>>, mem |-> None,
     util |-> None, cuda |-> FALSE, limit |-> None, limits |-> None]

PlainConfig ==
    [serverPort |-> 0, vllmPort |-> 0, apiKey |-> "absent", llamaBinary |-> FALSE,
     cuda |-> FALSE, scheduler |-> None, defaultModel |-> None, logSize |-> 0,
     logFiles |-> 0, gpuLimits |-> None, defaultLimit |-> None, required |-> FALSE,
     models |-> <<>>]

IfZero(n, default) == IF n = 0 THEN default ELSE n

(* applyDefaults *)
WithDefaults(c) ==
    [c EXCEPT !.serverPort = IfZero(@, 8080), !.vllmPort = IfZero(@, 8000),
              !.logSize = IfZero(@, 50), !.logFiles = IfZero(@, 5)]

Names(c)      == DOMAIN c.models
IsAlias(c, n) == c.models[n].alias # None
RealModels(c) == {n \in Names(c) : ~IsAlias(c, n)}

Elements(s) == {s[k] : k \in DOMAIN s}

-----------------------------------------------------------------------------
(* Validate, part by part *)

LastPort == 65535

PortValid(port) == port \in 1 .. LastPort

ServerValid(c) ==
    /\ Names(c) # {}
    /\ PortValid(c.serverPort) /\ PortValid(c.vllmPort)
    /\ c.apiKey # "blank"

RuntimesValid(c) ==
    /\ \A n \in Names(c) : c.models[n].runtime \in {"vllm", "llama_cpp"}
    /\ (\E n \in Names(c) : c.models[n].runtime = "llama_cpp") =>
          c.scheduler = None /\ c.llamaBinary

PortCount(s) == s.hi - s.lo + 1

(* A model's GPUs in scheduler mode: some, none twice, and the memory it needs. *)
PlacementValid(m) ==
    /\ Len(m.gpus) > 0
    /\ \A k \in DOMAIN m.gpus :
          m.gpus[k] >= 0 /\ \A j \in 1 .. k - 1 : m.gpus[j] # m.gpus[k]
    /\ m.mem # None /\ m.mem > 0

SchedulerValid(c) ==
    c.scheduler # None =>
        /\ PortValid(c.scheduler.lo) /\ PortValid(c.scheduler.hi)
        /\ c.scheduler.lo <= c.scheduler.hi
        /\ c.scheduler.max # None => c.scheduler.max \in 1 .. PortCount(c.scheduler)
        /\ ~c.cuda /\ \A n \in Names(c) : ~c.models[n].cuda
        /\ \A n \in RealModels(c) : PlacementValid(c.models[n])

Positive(limits) == \A g \in DOMAIN limits : limits[g] > 0

(* An empty map of limits is there, but counts as none. *)
Given(limits) == limits # None /\ limits # <<>>

PowerLimitsValid(c) ==
    /\ ~(Given(c.gpuLimits) /\ c.defaultLimit # None)
    /\ Given(c.gpuLimits) => Positive(c.gpuLimits)
    /\ c.defaultLimit # None => c.defaultLimit > 0

ModelPowerValid(m) ==
    /\ ~(m.limit # None /\ Given(m.limits))
    /\ m.limit # None => m.limit > 0
    /\ Given(m.limits) => Positive(m.limits)
    /\ Given(m.limits) /\ Len(m.gpus) > 0 => DOMAIN m.limits \subseteq Elements(m.gpus)

LogValid(c) == c.logSize >= 0 /\ c.logFiles >= 0

ModelValid(m) ==
    /\ m.alias = None => m.path
    /\ m.util # None => m.util \in 0 .. 100
    /\ ModelPowerValid(m)

(* The names an alias leads to, hop by hop: None once there is no next.  More *)
(* hops than names make a loop.                                               *)
Hops(c, n) ==
    LET hop[k \in 0 .. Cardinality(Names(c)) + 1] ==
            IF k = 0 THEN n
            ELSE IF hop[k - 1] \in Names(c) THEN c.models[hop[k - 1]].alias ELSE None
    IN hop

\* Fault: only an alias of itself is taken for a loop, and chains are let pass.
AliasValidIfNotItself(c, n) == c.models[n].alias # n

(* The walk of validateAliases: it ends, at a known model, after one step. *)
AliasValid(c, n) ==
    LET hop   == Hops(c, n)
        steps == {k \in DOMAIN hop \ {0} : hop[k] # None}
    IN
    /\ \A j, k \in {0} \cup steps : j # k => hop[j] # hop[k]
    /\ \A k \in steps : hop[k] \in Names(c)
    /\ Cardinality(steps) <= 1

Validate(c) ==
    /\ ServerValid(c)
    /\ RuntimesValid(c)
    /\ SchedulerValid(c)
    /\ c.defaultModel # None => c.defaultModel \in Names(c)
    /\ PowerLimitsValid(c)
    /\ LogValid(c)
    /\ \A n \in Names(c) : ModelValid(c.models[n])
    /\ \A n \in Names(c) : AliasValid(c, n)

-----------------------------------------------------------------------------
(* ResolveModel: the name itself, or what it is an alias for; None is an error. *)
ResolveModel(c, n) ==
    IF n \notin Names(c) THEN None
    ELSE IF ~IsAlias(c, n) THEN n
    ELSE IF c.models[n].alias \in Names(c) THEN c.models[n].alias ELSE None
=============================================================================
