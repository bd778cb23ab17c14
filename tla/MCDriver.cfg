SPECIFICATION DriverSpec
CONSTANTS
    c1 = c1
    c2 = c2
    gA = gA
    gB = gB
    None = None
    Claims = {c1, c2}
    Handlers = {h1, h2}
    Groups = {gA, gB}
    Devices <- NodeDevices
    GroupsOf <- ClaimGroups
    DevicesOf <- GroupDevices
    TypeOf <- NodeTypes
    BusOf <- NodeBuses
    SharingOf <- GroupSharing
    BadConfig = {}
    Rejected = {}
    Gates = {"PassthroughSupport"}
    Builds <- SomeBuilds
    Faults = {"discover", "publish", "listen", "crash"}
    MaxBatch = 1
SYMMETRY HandlerSymmetry
INVARIANTS
    DriverTypeOK
    PublishedIsCurrent
    TwinNotOffered
