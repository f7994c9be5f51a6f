\* Liveness, so no symmetry; power limits on every GPU, a pinned model, and the
\* abstract placement.
SPECIFICATION FairSpec
CONSTANTS
    None = None
    Unlimited = Unlimited
    small1 = small1
    small2 = small2
    large = large
    g1 = g1
    g2 = g2
    r1 = r1
    r2 = r2
    r3 = r3
    Models <- TwoModels
    GPUs <- TwoGPUs
    gpusOf <- LayoutOfTwo
    Requests = {r1, r2, r3}
    Ports <- TwoPorts
    limitedGPUs <- AllLimited
    PinnedModels = {large}
    MaxInstances = Unlimited
    PowerRequired = FALSE
    Faults = {}
INVARIANTS
    LimitsOwned
PROPERTIES
    EveryRequestAnswered
    PermitReturns
    ImplementsPlacement
