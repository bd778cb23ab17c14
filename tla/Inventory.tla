---- MODULE Inventory ----
(***************************************************************************)
(* The names of the devices of a node with PassthroughSupport: enumeration *)
(* at start (nvlib.go), the standard CDI spec (cdi.go), and the siblings   *)
(* that Prepare hides and Unprepare finds again (allocatable.go,           *)
(* device_state.go).  A device is named by the index that amdsmi gives its *)
(* GPU, gpu-<index> and gpu-vfio-<index>; amdsmi lists the GPUs that       *)
(* amdgpu drives.  DeviceState takes the names for the devices: this       *)
(* module is about when they are.                                          *)
(*                                                                         *)
(* The render node of a GPU is not here: cdi.go and vfio-device.go make    *)
(* its path of the index, /dev/dri/renderD<index>, and call that an        *)
(* approximation of the DRM minor (cdi.go:296).                            *)
(*                                                                         *)
(* A GPU is the place of its PCI bus id in the order amdsmi lists them.    *)
(***************************************************************************)
EXTENDS Naturals, FiniteSets

CONSTANTS
    N,              \* number of GPUs
    Claims,         \* claims of one device each
    None            \* no device, no claim

Gpus == 0 .. (N - 1)
Kinds == {"gpu", "vfio"}
Names == Kinds \X Gpus
Drivers == {"amdgpu", "vfio-pci", "none"}

ASSUME CountAssumption == N \in Nat /\ None \notin Gpus
ASSUME EntryAssumption == None \notin [name : Names, bus : Gpus]

VARIABLES
    \* on the host
    driver,         \* GPU -> the driver it is bound to
    standard,       \* index -> the GPU whose UUID and PCI address the device of
                    \* that index carries in the standard CDI spec
    held,           \* completed entries: claim -> its device's name and GPU
    \* in the process
    up,             \* the process runs
    allocatable,    \* name -> the GPU of the device that s.allocatable has there
    \* history
    stranded,       \* GPUs of a preparation that failed after it hid siblings
    disturbed       \* an index was read that is not the GPU's place, or devices
                    \* were enumerated under prepared claims or unlisted GPUs

host == <<driver, standard, held>>
vars == <<host, up, allocatable, stranded, disturbed>>

NoDevices == [n \in Names |-> None]
Held(b) == \E c \in Claims : held[c] # None /\ held[c].bus = b
Has(c, kind) == held[c] # None /\ held[c].name[1] = kind

\* The GPUs that amdsmi lists.
Listed == {b \in Gpus : driver[b] = "amdgpu"}

\* The types of the variables.
TypeOK ==
    /\ driver \in [Gpus -> Drivers]
    /\ standard \in [Gpus -> Gpus \cup {None}]
    /\ held \in [Claims -> [name : Names, bus : Gpus] \cup {None}]
    /\ up \in BOOLEAN
    /\ allocatable \in [Names -> Gpus \cup {None}]
    /\ stranded \subseteq Gpus
    /\ disturbed \in BOOLEAN

----------------------------------------------------------------------------
\* Variant: indices counted from 1.
IndexFromOne(listed, b) == Cardinality({a \in listed : a <= b})

\* The index under which amdsmi lists a GPU.
IndexIn(listed, b) == Cardinality({a \in listed : a < b})

Init ==
    /\ driver = [b \in Gpus |-> "amdgpu"] /\ standard = [b \in Gpus |-> None]
    /\ held = [c \in Claims |-> None]
    /\ up = FALSE /\ allocatable = NoDevices
    /\ stranded = {} /\ disturbed = FALSE

\* enumerateGpusAndMigDevices and enumerateGpuPciDevices: a GPU and a VFIO device
\* for each GPU that is listed.
Enumerated ==
    LET At(i) == {b \in Listed : IndexIn(Listed, b) = i}
    IN [n \in Names |-> IF At(n[2]) = {} THEN None ELSE CHOOSE b \in At(n[2]) : TRUE]

\* Variant: the spec file is not written when there is one.
StandardKept == standard

\* createRocmDeviceSpec: the environment of a device (GPU_DEVICE_UUID and
\* GPU_DEVICE_PCI_BUS_ID) is what amdsmi answers for its index.
DeviceSpec(i) == Enumerated[<<"gpu", i>>]

\* createStandardRocmDeviceSpecFile.  Without GPUs it returns early, and leaves the
\* file it finds.
StandardSpec == IF Listed = {} THEN standard ELSE [i \in Gpus |-> DeviceSpec(i)]

\* NewDeviceState: nothing is replayed of what Prepare hid.
Start ==
    /\ ~up /\ up' = TRUE
    /\ allocatable' = Enumerated
    /\ standard' = StandardSpec
    /\ stranded' = {}
    /\ disturbed' = (disturbed \/ Listed # Gpus \/ \E c \in Claims : held[c] # None)
    /\ UNCHANGED <<driver, held>>

Stop ==
    /\ up /\ up' = FALSE
    /\ allocatable' = NoDevices
    /\ UNCHANGED <<host, stranded, disturbed>>

----------------------------------------------------------------------------
\* The scheduler gives a device that is offered to one claim at a time.
Free(n) == allocatable[n] # None /\ \A c \in Claims : held[c] # None => held[c].name # n

\* Variants: siblings are kept; every device of the GPU is removed.
KeepSiblings(n) == allocatable
HideAll(n) == [m \in Names |-> IF allocatable[m] = allocatable[n] THEN None ELSE allocatable[m]]

\* RemoveSiblingDevices: the devices of the same GPU and of another type go.
WithoutSiblings(n) ==
    [m \in Names |-> IF allocatable[m] = allocatable[n] /\ m[1] # n[1]
                     THEN None ELSE allocatable[m]]

\* Configure on the GPU of a VFIO device: bound to vfio-pci, unless no driver has it.
Configured(n) ==
    IF n[1] = "vfio" THEN [driver EXCEPT ![allocatable[n]] = "vfio-pci"] ELSE driver

\* The GPU of a VFIO device is bound, the siblings are hidden, and the entry is
\* completed; or the spec file or the entry cannot be written, and all but the
\* entry stays.
Prepare(c, n) ==
    /\ up /\ held[c] = None /\ Free(n)
    /\ n[1] = "vfio" => driver[allocatable[n]] # "none"
    /\ driver' = Configured(n)
    /\ allocatable' = WithoutSiblings(n)
    /\ \/ /\ held' = [held EXCEPT ![c] = [name |-> n, bus |-> allocatable[n]]]
          /\ UNCHANGED stranded
       \/ /\ stranded' = stranded \cup {allocatable[n]}
          /\ UNCHANGED held
    /\ UNCHANGED <<standard, up, disturbed>>

\* The apply loop of prepareDevices ends in an error, before the siblings are hidden:
\* Configure could not bind the GPU that it had unbound, or a later config failed
\* when it was bound.  Nothing is undone.
ApplyFails(c, n) ==
    /\ up /\ held[c] = None /\ Free(n) /\ n[1] = "vfio"
    /\ driver[allocatable[n]] = "amdgpu"
    /\ \E d \in {"vfio-pci", "none"} : driver' = [driver EXCEPT ![allocatable[n]] = d]
    /\ UNCHANGED <<standard, held, up, allocatable, stranded, disturbed>>

----------------------------------------------------------------------------
\* Unprepare.  The sibling is found from the device that has the name now.

\* Variant: the entry stays, without its device.
ForgetDevice(c) ==
    /\ held' = [held EXCEPT ![c].bus = None]
    /\ stranded' = stranded \ {held[c].bus}

Forget(c) ==
    /\ held' = [held EXCEPT ![c] = None]
    /\ stranded' = stranded \ {held[c].bus}

\* discoverVfioDevice: the VFIO device of the GPU that is allocatable.
UnprepareGpu(c) ==
    LET i == held[c].name[2]
        gpu == allocatable[<<"gpu", i>>]
    IN /\ up /\ Has(c, "gpu")
       /\ allocatable' = IF gpu = None THEN allocatable
                         ELSE [allocatable EXCEPT ![<<"vfio", i>>] = gpu]
       /\ Forget(c)
       /\ UNCHANGED <<driver, standard, up, disturbed>>

\* getAllocatableVfioDevice: looked up by UUID, which is made of the bus id.
Found(c) == \E i \in Gpus : allocatable[<<"vfio", i>>] = held[c].bus

\* Unconfigure: the GPU goes back to amdgpu, unless no driver has it.
Unconfigured(c) == [driver EXCEPT ![held[c].bus] = "amdgpu"]

\* discoverGPUByPCIBusID names the GPU by its index now.
UnprepareVfio(c) ==
    LET gpu == allocatable[held[c].name]
    IN /\ up /\ Has(c, "vfio") /\ Found(c)
       /\ driver[held[c].bus] # "none"
       /\ driver' = Unconfigured(c)
       /\ \/ gpu = None /\ UNCHANGED allocatable
          \/ /\ gpu \in Listed'
             /\ allocatable' = [allocatable EXCEPT ![<<"gpu", IndexIn(Listed', gpu)>>] = gpu]
       /\ disturbed' = (disturbed \/ (gpu \in Listed' /\ \E a \in Gpus \ Listed' : a < gpu))
       /\ Forget(c)
       /\ UNCHANGED <<standard, up>>

\* Unconfigure cannot bind the GPU that it had unbound, and the entry stays.
UnconfigureFails(c) ==
    /\ up /\ Has(c, "vfio") /\ Found(c)
    /\ driver[held[c].bus] = "vfio-pci"
    /\ driver' = [driver EXCEPT ![held[c].bus] = "none"]
    /\ UNCHANGED <<standard, held, up, allocatable, stranded, disturbed>>

\* amdsmi does not list the GPU, or not yet: the error comes after the driver was
\* switched, and the entry stays.
DiscoverFails(c) ==
    /\ up /\ Has(c, "vfio") /\ Found(c)
    /\ allocatable[held[c].name] # None
    /\ driver[held[c].bus] # "none"
    /\ driver' = Unconfigured(c)
    /\ UNCHANGED <<standard, held, up, allocatable, stranded, disturbed>>

Next ==
    \/ Start \/ Stop
    \/ \E c \in Claims :
        \/ \E n \in Names : Prepare(c, n) \/ ApplyFails(c, n)
        \/ UnprepareGpu(c) \/ UnprepareVfio(c)
        \/ UnconfigureFails(c) \/ DiscoverFails(c)

Spec == Init /\ [][Next]_vars

----------------------------------------------------------------------------
\* Properties: as long as no index was read that had shifted.

\* No GPU is prepared for two claims, under whichever names and types.
NoDoubleGrant ==
    ~disturbed => \A c, d \in Claims :
        c # d /\ held[c] # None /\ held[d] # None => held[c].bus # held[d].bus

\* What Prepare takes away Unprepare gives back: a GPU that no claim has is
\* offered, as itself and as a VFIO device, unless a preparation failed after it
\* hid the sibling.
AllOffered ==
    ~disturbed /\ up => \A b \in Gpus \ stranded : ~Held(b) =>
        \A kind \in Kinds : allocatable[<<kind, b>>] = b

\* Every lookup of Unprepare finds what it needs: the VFIO device by its UUID, and
\* under its name the GPU that was just given back.
Releasable ==
    ~disturbed /\ up => \A c \in Claims : Has(c, "vfio") =>
        Found(c) /\ allocatable[held[c].name] = held[c].bus

\* The CDI id of a granted GPU, made of its name, is in the standard spec that of a
\* device whose environment has that GPU's UUID and PCI address: the spec is written
\* once, at start, and the names are used from then on.
Identified ==
    ~disturbed => \A c \in Claims : Has(c, "gpu") => standard[held[c].name[2]] = held[c].bus
====
