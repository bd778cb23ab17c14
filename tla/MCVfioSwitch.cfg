SPECIFICATION FairSpec
CONSTANTS
    g1 = g1
    g2 = g2
    k1 = k1
    k2 = k2
    None = None
    Gpus = {g1, g2}
    Callers = {k1, k2}
    Wants = {"amdgpu", "vfio-pci"}
    Starts = {"amdgpu", "vfio-pci", "other", "none"}
    UnbindLock = TRUE
    Faults = {"vfs", "unbind", "override", "module", "bind", "crash"}
    MaxFaults = 2
INVARIANTS
    TypeOK
    BoundAsAsked
    OverrideFollows
PROPERTIES
    NoUserLosesGpu
    Answered
