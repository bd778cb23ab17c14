SPECIFICATION HistorySpec
CONSTANTS
    c1 = c1
    c2 = c2
    c3 = c3
    gA = gA
    gB = gB
    gC = gC
    gD = gD
    gE = gE
    gX = gX
    None = None
    Claims = {c1, c2, c3}
    Handlers = {h1, h2}
    Groups = {gA, gB, gC, gD, gE, gX}
    Devices <- NodeDevices
    GroupsOf <- TwinClaims
    DevicesOf <- GroupDevices
    TypeOf <- NodeTypes
    BusOf <- NodeBuses
    SharingOf <- TwinSharing
    BadConfig = {}
    Rejected = {}
    Gates = {"TimeSlicingSettings", "PassthroughSupport"}
    Builds <- FullBuild
    Faults = {"checkpoint", "apply", "spec", "cleanup", "discover"}
SYMMETRY HandlerSymmetry
INVARIANTS
    NoSiblingConflict
    GpuNotBound
