\* Two requests for two models and a signal at any moment, with processes that
\* outlive SIGKILL and limits that are refused.
SPECIFICATION ShutdownSpec
CONSTANTS
    None = None
    modelA = modelA
    modelB = modelB
    g1 = g1
    g2 = g2
    g3 = g3
    r1 = r1
    r2 = r2
    Main = Main
    Requests = {r1, r2, Main}
    Procs = {r1, r2, Main}
    Models <- TwoModels
    GPUs <- ThreeGPUs
    gpusOf <- SharedGPU
    limitedGPUs <- OneLimitEach
    MayLinger = TRUE
    MayGarble = TRUE
    PowerRequired = FALSE
    MayRefuse = TRUE
SYMMETRY Interchangeable
INVARIANTS
    NoProcessLeft
    MainNeverWaits
