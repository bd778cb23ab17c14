SPECIFICATION RetrySpec
CONSTANTS
    g1 = g1
    g2 = g2
    k1 = k1
    k2 = k2
    None = None
    Gpus = {g1}
    Callers = {k1, k2}
    Wants = {"amdgpu"}
    Starts = {"vfio-pci"}
    UnbindLock = TRUE
    Faults = {"bind"}
    MaxFaults = 1
PROPERTIES
    Restored
