\* Required power limits, one of which nvidia-smi refuses.
SPECIFICATION Spec
CONSTANTS
    None = None
    Unlimited = Unlimited
    small1 = small1
    small2 = small2
    large = large
    g1 = g1
    g2 = g2
    r1 = r1
    r2 = r2
    Models <- ThreeModels
    GPUs <- TwoGPUs
    gpusOf <- Layout
    Requests = {r1, r2}
    Ports <- TwoPorts
    limitedGPUs <- AllLimited
    PinnedModels = {}
    MaxInstances = Unlimited
    PowerRequired = TRUE
    Faults = {"apply"}
INVARIANTS
    LimitsOwned
