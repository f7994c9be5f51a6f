------------------------------- MODULE MCStartup -------------------------------
(***************************************************************************)
(* Families of configurations for TLC: one explores the names, one the     *)
(* scheduler's placement, one the power limits, one everything else.       *)
(***************************************************************************)
EXTENDS StartupProperties, TLC

OneModel(m) == "a" :> m

Sched(lo, hi, max) == [lo |-> lo, hi |-> hi, max |-> max]

(* Three names: absent, a model, a model without a path, or an alias. *)
Entries ==
    {PlainModel, [PlainModel EXCEPT !.path = FALSE]}
        \cup {[PlainModel EXCEPT !.path = FALSE, !.alias = n] : n \in {"a", "b", "c", "ghost"}}

NameConfigs ==
    {[PlainConfig EXCEPT !.models = ms, !.defaultModel = d] :
        ms \in UNION {[ns -> Entries] : ns \in SUBSET {"a", "b", "c"}},
        d \in {None, "a", "ghost"}}

(* Ranges of none, one and two ports, inside the valid ones and across their end. *)
PortRanges ==
    {<<0, 1>>, <<1, 1>>, <<1, 2>>, <<2, 1>>, <<65534, 65535>>, <<65535, 65535>>, <<65535, 65536>>}

PlacementConfigs ==
    {[PlainConfig EXCEPT !.scheduler = Sched(range[1], range[2], max),
                         !.models = OneModel([PlainModel EXCEPT !.gpus = gpus, !.mem = mem])] :
        range \in PortRanges, max \in {None, 0, 1, 2, 3},
        gpus \in {<<>>, <<0>>, <<0, 1>>, <<0, 0>>, <<-1>>, <<7>>}, mem \in {None, 0, 1}}

(* Two models on GPUs of their own and one that needs both. *)
PowerConfigs ==
    {[PlainConfig EXCEPT
        !.scheduler = s, !.gpuLimits = gl, !.defaultLimit = dl, !.required = req,
        !.models = ("a" :> [PlainModel EXCEPT !.gpus = <<0>>, !.mem = 1, !.limit = l])
                @@ ("b" :> [PlainModel EXCEPT !.gpus = <<0, 1>>, !.mem = 1, !.limits = ls])
                @@ ("c" :> [PlainModel EXCEPT !.gpus = <<1>>, !.mem = 1])] :
        s \in {None, Sched(1, 2, None)},
        gl \in {None, <<>>, 0 :> 100, 0 :> 0, (0 :> 100) @@ (1 :> 110), 7 :> 100},
        dl \in {None, 0, 100},
        req \in BOOLEAN,
        l \in {None, 0, 200},
        ls \in {None, <<>>, 1 :> 300, 1 :> 0, 7 :> 300}}

OtherConfigs ==
    {[PlainConfig EXCEPT
        !.serverPort = sp, !.logSize = size, !.apiKey = key, !.llamaBinary = bin, !.cuda = cuda,
        !.scheduler = s,
        !.models = OneModel([PlainModel EXCEPT !.gpus = <<0>>, !.mem = 1, !.runtime = rt,
                                               !.util = util, !.cuda = mcuda,
                                               !.limit = l, !.limits = <<>>])] :
        sp \in {-1, 0, 65535, 65536}, size \in {-1, 0, 1}, key \in {"absent", "blank", "set"},
        bin \in BOOLEAN, cuda \in BOOLEAN, s \in {None, Sched(1, 2, None)},
        rt \in {"vllm", "llama_cpp", "other"}, util \in {None, -1, 100, 101},
        mcuda \in BOOLEAN, l \in {None, 200}}

AllConfigs == NameConfigs \cup PlacementConfigs \cup PowerConfigs \cup OtherConfigs
=============================================================================
