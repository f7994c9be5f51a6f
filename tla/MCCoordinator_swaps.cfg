\* Three requests for two models, with processes that outlive SIGKILL and limits
\* that are refused.
SPECIFICATION Spec
CONSTANTS
    None = None
    modelA = modelA
    modelB = modelB
    g1 = g1
    g2 = g2
    g3 = g3
    r1 = r1
    r2 = r2
    r3 = r3
    Requests = {r1, r2, r3}
    Procs = {r1, r2, r3}
    Models <- TwoModels
    GPUs <- ThreeGPUs
    gpusOf <- SharedGPU
    limitedGPUs <- OneLimitEach
    MayLinger = TRUE
    MayGarble = TRUE
    PowerRequired = TRUE
    MayRefuse = TRUE
SYMMETRY Interchangeable
INVARIANTS
    CoordTypeOK
    OneProcess
    ReadyIsTruthful
    SwapsSerialized
PROPERTIES
    SwapsPaced
