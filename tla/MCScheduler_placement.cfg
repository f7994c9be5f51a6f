\* Four requests over three models: a placement that evicts two instances while
\* a fourth request arrives, for a model that is pinned; without power limits.
\* The environment kills what it is asked to kill.
SPECIFICATION Spec
CONSTANTS
    None = None
    Unlimited = Unlimited
    small1 = small1
    small2 = small2
    large = large
    g1 = g1
    g2 = g2
    r1 = r1
    r2 = r2
    r3 = r3
    r4 = r4
    Models <- ThreeModels
    GPUs <- TwoGPUs
    gpusOf <- Layout
    Requests = {r1, r2, r3, r4}
    Ports <- TwoPorts
    limitedGPUs <- NoLimits
    PinnedModels = {large}
    MaxInstances = Unlimited
    PowerRequired = FALSE
    Faults = {}
SYMMETRY Interchangeable
INVARIANTS
    TypeOK
    GPUExclusive
    DrainedStaysDrained
    NoOrphanProcess
    InstallIsFresh
    WaitersAccounted
    PortsAccounted
PROPERTIES
    YoungStays
    PinnedStays
    LeastRecentFirst
