SPECIFICATION Spec
CONSTANTS
    both = both
    sliced = sliced
    g1 = g1
    g2 = g2
    None = None
    Gpus = {g1, g2}
    Claims = {both, sliced}
    GpusOf <- ClaimGpus
    SharingOf <- ClaimSharing
    TimeSlicing = TRUE
    MaxFaults = 0
INVARIANTS
    PreparedExclusive
CHECK_DEADLOCK FALSE
