\* Liveness, so no symmetry, and power limits.
SPECIFICATION FairSpec
CONSTANTS
    None = None
    modelA = modelA
    modelB = modelB
    g1 = g1
    g2 = g2
    g3 = g3
    r1 = r1
    r2 = r2
    Requests = {r1, r2}
    Procs = {r1, r2}
    Models <- TwoModels
    GPUs <- ThreeGPUs
    gpusOf <- SharedGPU
    limitedGPUs <- OneLimitEach
    MayLinger = FALSE
    MayGarble = FALSE
    PowerRequired = TRUE
    MayRefuse = FALSE
INVARIANTS
    SwapLimitsOwned
PROPERTIES
    SwapEnds
