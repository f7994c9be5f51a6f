\* Four families of configurations on a machine of two GPUs.
SPECIFICATION Spec
CONSTANTS
    None = None
    Configs <- AllConfigs
    GPUs = {0, 1}
    Factory = 400
INVARIANTS
    LoadedIsUsable
    LimitsAsWanted
