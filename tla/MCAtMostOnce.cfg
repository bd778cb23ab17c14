SPECIFICATION Spec
CONSTANTS
    c1 = c1
    c2 = c2
    c3 = c3
    gA = gA
    gB = gB
    gC = gC
    gD = gD
    gE = gE
    gX = gX
    None = None
    Claims = {c1, c2}
    Handlers = {h1, h2}
    Groups = {gA, gB, gC, gD, gE, gX}
    Devices <- NodeDevices
    GroupsOf <- SharedClaims
    DevicesOf <- GroupDevices
    TypeOf <- NodeTypes
    BusOf <- NodeBuses
    SharingOf <- GroupSharing
    BadConfig = {}
    Rejected = {}
    Gates = {"HAMiCoreSupport"}
    Builds <- FullBuild
    Faults = {}
INVARIANTS
    AtMostOnce
