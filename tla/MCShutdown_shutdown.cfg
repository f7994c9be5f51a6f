\* A signal at any moment, processes that outlive SIGKILL and limits that are refused.
SPECIFICATION ShutdownSpec
CONSTANTS
    None = None
    Unlimited = Unlimited
    Main = Main
    model1 = model1
    model2 = model2
    model3 = model3
    g1 = g1
    g2 = g2
    g3 = g3
    r1 = r1
    r2 = r2
    r3 = r3
    Models <- ThreeModels
    GPUs = {g1, g2, g3}
    gpusOf <- Layout
    Requests = {r1, r2, r3}
    Ports = {8000, 8001, 8002}
    limitedGPUs <- Layout
    PinnedModels = {}
    MaxInstances = 2
    PowerRequired = TRUE
    Faults = {"linger", "apply"}
SYMMETRY Interchangeable
INVARIANTS
    SlotsAccounted
    CapacityRespected
    NothingFoundSurvives
    SerialShutdownIsAlone
    ShutdownDrains
    StopNeverWaits
