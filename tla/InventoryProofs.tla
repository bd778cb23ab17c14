---- MODULE InventoryProofs ----
(***************************************************************************)
(* Proofs about Inventory, for every number of GPUs and every set of       *)
(* claims: as long as no index has shifted, names stand for GPUs, and      *)
(* hiding and finding siblings keeps them with one claim at a time.        *)
(***************************************************************************)
EXTENDS Inventory, FiniteSetTheorems, TLAPS

\* A name stands for the GPU whose place it has.
Named ==
    /\ \A n \in Names : allocatable[n] \in {None, n[2]}
    /\ \A c \in Claims : held[c] # None => held[c].bus = held[c].name[2]

Unique ==
    \A c, d \in Claims :
        c # d /\ held[c] # None /\ held[d] # None => held[c].bus # held[d].bus

\* A prepared device is offered, so that it is found, and its sibling is not.
Hiding ==
    up => \A c \in Claims : held[c] # None =>
        /\ allocatable[held[c].name] = held[c].bus
        /\ \A kind \in Kinds \ {held[c].name[1]} : allocatable[<<kind, held[c].bus>>] = None

Offered ==
    up => \A b \in Gpus \ stranded : ~Held(b) => \A kind \in Kinds : allocatable[<<kind, b>>] = b

\* The device of a place has the UUID of the GPU in that place.
Specified ==
    up \/ (\E c \in Claims : held[c] # None) => \A b \in Gpus : standard[b] = b

Steady == Named /\ Unique /\ Hiding /\ Offered /\ Specified
Inv == TypeOK /\ (~disturbed => Steady)

----------------------------------------------------------------------------
\* The index of a GPU is its place when every GPU before it is listed.
LEMMA IndexIsPlace ==
    ASSUME NEW listed \in SUBSET Gpus, NEW b \in Gpus,
           \A a \in Gpus : a < b => a \in listed
    PROVE  IndexIn(listed, b) = b
<1>a. b \in Nat /\ b < N
  BY CountAssumption DEF Gpus
<1>b. \A a : a \in {x \in listed : x < b} => a \in 0 .. (b - 1)
  BY <1>a, CountAssumption DEF Gpus
<1>c. \A a : a \in 0 .. (b - 1) => a \in Gpus /\ a < b
  BY <1>a, CountAssumption DEF Gpus
<1>1. {a \in listed : a < b} = 0 .. (b - 1)
  BY <1>b, <1>c
<1>2. Cardinality(0 .. (b - 1)) = b
  BY FS_Interval, CountAssumption DEF Gpus
<1> QED BY <1>1, <1>2 DEF IndexIn

\* When amdsmi lists every GPU, every name has its GPU.
LEMMA AllEnumerated ==
    ASSUME Listed = Gpus
    PROVE  Enumerated = [n \in Names |-> n[2]]
<1>1. \A b \in Gpus : IndexIn(Gpus, b) = b
  BY IndexIsPlace
<1>2. \A i \in Gpus : {b \in Listed : IndexIn(Listed, b) = i} = {i}
  BY <1>1
<1>3. \A n \in Names : n[2] \in Gpus
  BY DEF Names
<1>4. \A n \in Names : (CHOOSE b \in {n[2]} : TRUE) = n[2]
  OBVIOUS
<1> QED BY <1>2, <1>3, <1>4 DEF Enumerated

LEMMA EnumeratedType ==
    Enumerated \in [Names -> Gpus \cup {None}]
<1> DEFINE At(i) == {b \in Listed : IndexIn(Listed, b) = i}
           Entry(n) == IF At(n[2]) = {} THEN None ELSE CHOOSE b \in At(n[2]) : TRUE
<1>1. \A n \in Names : Entry(n) \in Gpus \cup {None}
  BY DEF Listed
<1> HIDE DEF Entry
<1>2. [n \in Names |-> Entry(n)] \in [Names -> Gpus \cup {None}]
  BY <1>1
<1> QED BY <1>2 DEF Entry, Enumerated

LEMMA SpecType ==
    ASSUME standard \in [Gpus -> Gpus \cup {None}]
    PROVE  StandardSpec \in [Gpus -> Gpus \cup {None}]
<1>1. \A i \in Gpus : <<"gpu", i>> \in Names
  BY DEF Names, Kinds
<1> QED BY <1>1, EnumeratedType DEF StandardSpec, DeviceSpec

----------------------------------------------------------------------------
LEMMA InitInv == Init => Inv
BY EntryAssumption DEF Init, Inv, TypeOK, Drivers, NoDevices, Steady, Named, Unique, Hiding,
                      Offered, Specified, Has, Held

LEMMA StartInv == Inv /\ Start => Inv'
<1> SUFFICES ASSUME Inv, Start PROVE Inv'
  OBVIOUS
<1>1. TypeOK'
  BY EnumeratedType, SpecType DEF Inv, TypeOK, Start
<1>2. ASSUME ~disturbed' PROVE Steady'
  <2>1. Listed = Gpus /\ \A c \in Claims : held[c] = None
    BY <1>2 DEF Start, Inv, TypeOK
  <2>2. \A n \in Names : allocatable'[n] = n[2]
    BY <2>1, AllEnumerated DEF Start
  <2>3. \A kind \in Kinds, b \in Gpus : <<kind, b>> \in Names /\ <<kind, b>>[2] = b
    BY DEF Names
  <2>4. \A b \in Gpus : standard'[b] = b
    <3> SUFFICES ASSUME NEW b \in Gpus PROVE standard'[b] = b
      OBVIOUS
    <3>1. Listed # {}
      BY <2>1
    <3>2. <<"gpu", b>> \in Names
      BY <2>3 DEF Kinds
    <3>3. standard' = [i \in Gpus |-> Enumerated[<<"gpu", i>>]]
      BY <3>1 DEF Start, StandardSpec, DeviceSpec
    <3> QED BY <3>2, <3>3, <2>1, AllEnumerated
  <2> QED BY <2>1, <2>2, <2>3, <2>4 DEF Start, Steady, Named, Unique, Hiding, Offered,
                                        Specified, Has, Held
<1> QED BY <1>1, <1>2 DEF Inv

LEMMA StopInv == Inv /\ Stop => Inv'
<1> SUFFICES ASSUME Inv, Stop PROVE Inv'
  OBVIOUS
<1>1. TypeOK'
  BY DEF Inv, TypeOK, Stop, host, NoDevices
<1>2. ASSUME ~disturbed' PROVE Steady'
  BY <1>2 DEF Inv, Stop, host, NoDevices, Steady, Named, Unique, Hiding, Offered,
              Specified, Has, Held
<1> QED BY <1>1, <1>2 DEF Inv

\* What a free name stands for.
LEMMA FreeDevice ==
    ASSUME TypeOK, Named, NEW n \in Names, Free(n)
    PROVE  /\ n[1] \in Kinds /\ n[2] \in Gpus /\ n = <<n[1], n[2]>>
           /\ allocatable[n] = n[2]
BY DEF Named, Free, Names

\* A free device's GPU is held by no claim.
LEMMA FreeUnheld ==
    ASSUME TypeOK, Named, Hiding, up, NEW n \in Names, Free(n)
    PROVE  \A c \in Claims : held[c] # None => held[c].bus # n[2]
<1> SUFFICES ASSUME NEW c \in Claims, held[c] # None, held[c].bus = n[2]
             PROVE  FALSE
  OBVIOUS
<1>1. n = <<n[1], n[2]>> /\ allocatable[n] = n[2] /\ n[1] \in Kinds /\ n[2] \in Gpus
  BY FreeDevice
<1>2. held[c] \in [name : Names, bus : Gpus]
  BY DEF TypeOK
<1>3. held[c].name = <<held[c].name[1], n[2]>>
  BY <1>2 DEF Named, Names
<1>4. held[c].name[1] # n[1]
  BY <1>1, <1>3 DEF Free
<1>5. allocatable[<<n[1], n[2]>>] = None
  BY <1>1, <1>4 DEF Hiding
<1> QED BY <1>1, <1>5, CountAssumption

LEMMA PrepareType ==
    ASSUME TypeOK, NEW c \in Claims, NEW n \in Names, Prepare(c, n)
    PROVE  TypeOK'
<1>1. allocatable[n] \in Gpus
  BY DEF TypeOK, Prepare, Free
<1>2. allocatable' \in [Names -> Gpus \cup {None}]
  BY DEF TypeOK, Prepare, WithoutSiblings
<1>3. held' \in [Claims -> [name : Names, bus : Gpus] \cup {None}]
  BY <1>1 DEF TypeOK, Prepare
<1>4. driver' \in [Gpus -> Drivers]
  BY DEF TypeOK, Prepare, Configured, Drivers
<1> QED BY <1>1, <1>2, <1>3, <1>4 DEF TypeOK, Prepare

LEMMA PrepareInv ==
    ASSUME Inv, NEW c \in Claims, NEW n \in Names, Prepare(c, n)
    PROVE  Inv'
<1>1. TypeOK'
  BY PrepareType DEF Inv
<1>2. ASSUME ~disturbed' PROVE Steady'
  <2> DEFINE b == n[2]
  <2>1. TypeOK /\ Steady /\ up /\ Free(n) /\ held[c] = None
    BY <1>2 DEF Inv, Prepare
  <2>2. n[1] \in Kinds /\ b \in Gpus /\ n = <<n[1], b>> /\ allocatable[n] = b
    BY <2>1, FreeDevice DEF Steady
  <2>3. \A d \in Claims : held[d] # None => held[d].bus # b
    BY <2>1, FreeUnheld DEF Steady
  <2>4. \A d \in Claims : held[d] # None =>
            held[d] \in [name : Names, bus : Gpus] /\ held[d].name = <<held[d].name[1], held[d].bus>>
    BY <2>1 DEF TypeOK, Steady, Named, Names
  <2>5. \A m \in Names : allocatable'[m] = IF m[2] = b /\ m[1] # n[1] THEN None ELSE allocatable[m]
    BY <2>1, <2>2, CountAssumption DEF Prepare, WithoutSiblings, Steady, Named
  <2>6. \A d \in Claims : held'[d] = IF d = c /\ held' # held THEN [name |-> n, bus |-> b] ELSE held[d]
    BY <2>1, <2>2 DEF Prepare, TypeOK
  <2>7. \A kind \in Kinds, a \in Gpus : /\ <<kind, a>> \in Names
                                        /\ <<kind, a>>[1] = kind /\ <<kind, a>>[2] = a
    BY DEF Names
  <2>8. [name |-> n, bus |-> b] # None
    BY <2>2, EntryAssumption
  <2>9. Named'
    BY <2>1, <2>5, <2>6 DEF Named, Steady
  <2>10. Unique'
    BY <2>1, <2>3, <2>6 DEF Unique, Steady
  <2>11. Hiding'
    <3> SUFFICES ASSUME NEW d \in Claims, held'[d] # None
                 PROVE  /\ allocatable'[held'[d].name] = held'[d].bus
                        /\ \A kind \in Kinds \ {held'[d].name[1]} :
                              allocatable'[<<kind, held'[d].bus>>] = None
      BY DEF Hiding
    <3>1. CASE held'[d] = held[d]
      <4>1. held[d].bus # b /\ held[d].name \in Names /\ held[d].name[2] = held[d].bus
            /\ held[d].bus \in Gpus
        BY <3>1, <2>3, <2>4, <2>1 DEF Steady, Named
      <4>2. /\ allocatable[held[d].name] = held[d].bus
            /\ \A kind \in Kinds \ {held[d].name[1]} : allocatable[<<kind, held[d].bus>>] = None
        BY <3>1, <2>1 DEF Steady, Hiding
      <4> QED BY <3>1, <4>1, <4>2, <2>5, <2>7
    <3>2. CASE held'[d] = [name |-> n, bus |-> b]
      BY <3>2, <2>2, <2>5, <2>7
    <3> QED BY <3>1, <3>2, <2>6
  <2>12. Offered'
    <3> SUFFICES ASSUME NEW a \in Gpus, a \notin stranded', ~Held(a)', NEW kind \in Kinds
                 PROVE  allocatable'[<<kind, a>>] = a
      BY DEF Offered
    <3>1. a # b
      <4>1. CASE held' = [held EXCEPT ![c] = [name |-> n, bus |-> b]]
        BY <4>1, <2>1, <2>8 DEF Held, TypeOK
      <4>2. CASE stranded' = stranded \cup {b}
        BY <4>2
      <4> QED BY <4>1, <4>2, <2>2 DEF Prepare
    <3>2. a \notin stranded
      BY DEF Prepare
    <3>3. ~Held(a)
      BY <2>1, <2>6 DEF Held
    <3>4. allocatable[<<kind, a>>] = a
      BY <3>2, <3>3, <2>1 DEF Steady, Offered
    <3> QED BY <3>1, <3>4, <2>5, <2>7
  <2>13. Specified'
    BY <2>1 DEF Specified, Steady, Prepare
  <2> QED BY <2>9, <2>10, <2>11, <2>12, <2>13 DEF Steady
<1> QED BY <1>1, <1>2 DEF Inv

----------------------------------------------------------------------------
\* What a claim holds.
LEMMA HeldDevice ==
    ASSUME TypeOK, Steady, up, NEW c \in Claims, held[c] # None
    PROVE  /\ held[c].bus \in Gpus /\ held[c].name \in Names
           /\ held[c].name[1] \in Kinds
           /\ held[c].name = <<held[c].name[1], held[c].bus>>
           /\ allocatable[held[c].name] = held[c].bus
<1>1. held[c] \in [name : Names, bus : Gpus]
  BY DEF TypeOK
<1> QED BY <1>1 DEF Steady, Named, Hiding, Names

\* A step that takes a claim's entry away and makes the GPU and its VFIO device
\* allocatable under their own names.
LEMMA Released ==
    ASSUME TypeOK, Steady, up, NEW c \in Claims, held[c] # None, NEW b, b = held[c].bus,
           up' = up, standard' = standard, held' = [held EXCEPT ![c] = None],
           stranded' = stranded \ {b},
           \A m \in Names : allocatable'[m] = IF m[2] = b THEN b ELSE allocatable[m]
    PROVE  Steady'
<1>1. b \in Gpus
  BY HeldDevice
<1>2. \A d \in Claims : held'[d] = IF d = c THEN None ELSE held[d]
  BY DEF TypeOK
<1>3. \A kind \in Kinds, a \in Gpus : /\ <<kind, a>> \in Names
                                      /\ <<kind, a>>[1] = kind /\ <<kind, a>>[2] = a
  BY DEF Names
<1>4. \A d \in Claims : held'[d] # None =>
        /\ held[d] # None /\ held'[d] = held[d] /\ held[d].bus # b
        /\ held[d].name \in Names /\ held[d].name[2] = held[d].bus /\ held[d].bus \in Gpus
  <2> SUFFICES ASSUME NEW d \in Claims, held'[d] # None
               PROVE  /\ held[d] # None /\ held'[d] = held[d] /\ held[d].bus # b
                      /\ held[d].name \in Names /\ held[d].name[2] = held[d].bus
                      /\ held[d].bus \in Gpus
    OBVIOUS
  <2>1. d # c /\ held[d] # None /\ held'[d] = held[d]
    BY <1>2
  <2>2. held[d].name \in Names /\ held[d].bus \in Gpus
    BY <2>1, HeldDevice
  <2> QED BY <2>1, <2>2 DEF Steady, Named, Unique
<1>5. Named'
  BY <1>1, <1>4 DEF Steady, Named
<1>6. Unique'
  BY <1>4 DEF Steady, Unique
<1>7. Hiding'
  BY <1>3, <1>4 DEF Steady, Hiding
<1>8. Offered'
  <2> SUFFICES ASSUME NEW a \in Gpus, a \notin stranded', ~Held(a)', NEW kind \in Kinds
               PROVE  allocatable'[<<kind, a>>] = a
    BY DEF Offered
  <2>1. CASE a = b
    BY <2>1, <1>3
  <2>2. CASE a # b
    <3>1. ~Held(a)
      BY <2>2, <1>2 DEF Held
    <3>2. allocatable[<<kind, a>>] = a
      BY <2>2, <3>1 DEF Steady, Offered
    <3> QED BY <2>2, <3>2, <1>3
  <2> QED BY <2>1, <2>2
<1>9. Specified'
  BY DEF Steady, Specified
<1> QED BY <1>5, <1>6, <1>7, <1>8, <1>9 DEF Steady

LEMMA UnprepareGpuInv ==
    ASSUME Inv, NEW c \in Claims, UnprepareGpu(c)
    PROVE  Inv'
<1> DEFINE i == held[c].name[2]
           gpu == allocatable[<<"gpu", i>>]
<1>0. \A kind \in Kinds, a \in Gpus : /\ <<kind, a>> \in Names
                                      /\ <<kind, a>>[1] = kind /\ <<kind, a>>[2] = a
  BY DEF Names
<1>1. TypeOK'
  <2>1. held[c] \in [name : Names, bus : Gpus]
    BY DEF Inv, TypeOK, UnprepareGpu, Has
  <2>2. i \in Gpus /\ <<"gpu", i>> \in Names
    BY <2>1 DEF Names, Kinds
  <2>3. gpu \in Gpus \cup {None}
    BY <2>2 DEF Inv, TypeOK
  <2>4. allocatable' \in [Names -> Gpus \cup {None}]
    BY <2>3 DEF Inv, TypeOK, UnprepareGpu
  <2> QED BY <2>4 DEF Inv, TypeOK, UnprepareGpu, Forget
<1>2. ASSUME ~disturbed' PROVE Steady'
  <2>1. TypeOK /\ Steady /\ up /\ held[c] # None /\ held[c].name[1] = "gpu"
    BY <1>2 DEF Inv, UnprepareGpu, Has
  <2>2. /\ held[c].bus \in Gpus /\ i = held[c].bus /\ gpu = held[c].bus
        /\ gpu # None /\ held[c].name = <<"gpu", gpu>>
    BY <2>1, HeldDevice, CountAssumption
  <2>3. allocatable' = [allocatable EXCEPT ![<<"vfio", gpu>>] = gpu]
    BY <2>2 DEF UnprepareGpu
  <2>4. \A m \in Names : m[2] = gpu => m = <<"gpu", gpu>> \/ m = <<"vfio", gpu>>
    BY DEF Names, Kinds
  <2>5. \A m \in Names : allocatable'[m] = IF m[2] = gpu THEN gpu ELSE allocatable[m]
    <3>1. <<"vfio", gpu>>[2] = gpu /\ <<"gpu", gpu>> # <<"vfio", gpu>>
      OBVIOUS
    <3>2. allocatable[<<"gpu", gpu>>] = gpu
      BY <2>2
    <3>3. \A m \in Names : allocatable'[m] = IF m = <<"vfio", gpu>> THEN gpu ELSE allocatable[m]
      BY <2>1, <2>3 DEF TypeOK
    <3> QED BY <2>4, <3>1, <3>2, <3>3
  <2>6. /\ up' = up /\ standard' = standard
        /\ held' = [held EXCEPT ![c] = None] /\ stranded' = stranded \ {gpu}
    BY <2>2 DEF UnprepareGpu, Forget
  <2> HIDE DEF i, gpu
  <2> QED BY <2>1, <2>2, <2>5, <2>6, Released
<1> QED BY <1>1, <1>2 DEF Inv

LEMMA UnprepareVfioInv ==
    ASSUME Inv, NEW c \in Claims, UnprepareVfio(c)
    PROVE  Inv'
<1> DEFINE gpu == allocatable[held[c].name]
<1>1. held[c] \in [name : Names, bus : Gpus] /\ gpu \in Gpus \cup {None}
  BY DEF Inv, TypeOK, UnprepareVfio, Has
<1>2. TypeOK'
  <2>1. allocatable' \in [Names -> Gpus \cup {None}]
    BY <1>1 DEF Inv, TypeOK, UnprepareVfio
  <2>2. driver' \in [Gpus -> Drivers] /\ stranded' \subseteq Gpus
    BY DEF Inv, TypeOK, UnprepareVfio, Unconfigured, Drivers, Forget
  <2>3. held' \in [Claims -> [name : Names, bus : Gpus] \cup {None}]
    BY DEF Inv, TypeOK, UnprepareVfio, Forget
  <2>4. disturbed' \in BOOLEAN
    BY DEF Inv, TypeOK, UnprepareVfio
  <2> QED BY <2>1, <2>2, <2>3, <2>4 DEF Inv, TypeOK, UnprepareVfio
<1>3. ASSUME ~disturbed' PROVE Steady'
  <2>1. TypeOK /\ Steady /\ up /\ held[c] # None /\ held[c].name[1] = "vfio"
    BY <1>3 DEF Inv, UnprepareVfio, Has
  <2>2. gpu = held[c].bus /\ gpu \in Gpus /\ gpu # None /\ held[c].name = <<"vfio", gpu>>
    BY <2>1, HeldDevice, CountAssumption
  <2>3. gpu \in Listed' /\ \A a \in Gpus : a < gpu => a \in Listed'
    BY <1>3, <2>2 DEF UnprepareVfio
  <2>4. IndexIn(Listed', gpu) = gpu
    <3>1. Listed' \in SUBSET Gpus
      BY DEF Listed
    <3> QED BY <2>2, <2>3, <3>1, IndexIsPlace
  <2>5. allocatable' = [allocatable EXCEPT ![<<"gpu", gpu>>] = gpu]
    BY <2>2, <2>4 DEF UnprepareVfio
  <2>6. \A m \in Names : m[2] = gpu => m = <<"gpu", gpu>> \/ m = <<"vfio", gpu>>
    BY DEF Names, Kinds
  <2>7. \A m \in Names : allocatable'[m] = IF m[2] = gpu THEN gpu ELSE allocatable[m]
    <3>1. <<"gpu", gpu>>[2] = gpu
      OBVIOUS
    <3>2. allocatable[<<"vfio", gpu>>] = gpu
      BY <2>2
    <3>3. \A m \in Names : allocatable'[m] = IF m = <<"gpu", gpu>> THEN gpu ELSE allocatable[m]
      BY <2>1, <2>5 DEF TypeOK
    <3> QED BY <2>6, <3>1, <3>2, <3>3
  <2> HIDE DEF gpu
  <2> QED BY <2>1, <2>2, <2>7, Released DEF UnprepareVfio, Forget
<1> QED BY <1>2, <1>3 DEF Inv

\* Steps that end in an error and change no more than the driver of a GPU.
LEMMA DriverInv ==
    ASSUME Inv, driver' \in [Gpus -> Drivers],
           UNCHANGED <<standard, held, up, allocatable, stranded, disturbed>>
    PROVE  Inv'
<1>1. TypeOK'
  BY DEF Inv, TypeOK
<1>2. ASSUME ~disturbed' PROVE Steady'
  BY <1>2 DEF Inv, Steady, Named, Unique, Hiding, Offered, Specified, Has, Held
<1> QED BY <1>1, <1>2 DEF Inv

LEMMA FailureInv ==
    ASSUME Inv, NEW c \in Claims,
           (\E n \in Names : ApplyFails(c, n)) \/ UnconfigureFails(c) \/ DiscoverFails(c)
    PROVE  Inv'
<1>1. driver' \in [Gpus -> Drivers]
  BY DEF Inv, TypeOK, Drivers, ApplyFails, UnconfigureFails, DiscoverFails, Unconfigured
<1>2. UNCHANGED <<standard, held, up, allocatable, stranded, disturbed>>
  BY DEF ApplyFails, UnconfigureFails, DiscoverFails
<1> QED BY <1>1, <1>2, DriverInv

LEMMA StepInv == Inv /\ [Next]_vars => Inv'
<1> SUFFICES ASSUME Inv, [Next]_vars PROVE Inv'
  OBVIOUS
<1>1. CASE Start
  BY <1>1, StartInv
<1>2. CASE Stop
  BY <1>2, StopInv
<1>3. ASSUME NEW c \in Claims, NEW n \in Names, Prepare(c, n) PROVE Inv'
  BY <1>3, PrepareInv
<1>4. ASSUME NEW c \in Claims, UnprepareGpu(c) PROVE Inv'
  BY <1>4, UnprepareGpuInv
<1>5. ASSUME NEW c \in Claims, UnprepareVfio(c) PROVE Inv'
  BY <1>5, UnprepareVfioInv
<1>6. ASSUME NEW c \in Claims,
             (\E n \in Names : ApplyFails(c, n)) \/ UnconfigureFails(c) \/ DiscoverFails(c)
      PROVE  Inv'
  BY <1>6, FailureInv
<1>7. CASE UNCHANGED vars
  BY <1>7 DEF vars, host, Inv, TypeOK, Steady, Named, Unique, Hiding, Offered, Specified,
              Has, Held
<1> QED BY <1>1, <1>2, <1>3, <1>4, <1>5, <1>6, <1>7 DEF Next

LEMMA AlwaysInv == Spec => []Inv
<1> QED BY InitInv, StepInv, PTL DEF Spec

----------------------------------------------------------------------------
\* Every variable of Inventory keeps its type.
THEOREM TypeCorrect == Spec => []TypeOK
<1>1. Inv => TypeOK
  BY DEF Inv
<1> QED BY <1>1, AlwaysInv, PTL

\* While no index has shifted, hiding and finding siblings (device_state.go:209,
\* 270) keeps every GPU with one claim at a time.
THEOREM OneClaimPerGpu == Spec => []NoDoubleGrant
<1>1. Inv => NoDoubleGrant
  BY DEF Inv, Steady, Unique, NoDoubleGrant
<1> QED BY <1>1, AlwaysInv, PTL

\* While no index has shifted, Unprepare gives back what Prepare took away.
THEOREM GivenBack == Spec => []AllOffered
<1>1. Inv => AllOffered
  BY DEF Inv, Steady, Offered, AllOffered
<1> QED BY <1>1, AlwaysInv, PTL

\* While no index has shifted, the lookups of Unprepare (device_state.go:528, 566)
\* find the device and the GPU.
THEOREM LookupsSucceed == Spec => []Releasable
<1>1. Inv => Releasable
  <2> SUFFICES ASSUME Inv, ~disturbed, up, NEW c \in Claims, Has(c, "vfio")
               PROVE  Found(c) /\ allocatable[held[c].name] = held[c].bus
    BY DEF Releasable
  <2>1. /\ held[c].bus \in Gpus /\ held[c].name = <<"vfio", held[c].bus>>
        /\ allocatable[held[c].name] = held[c].bus
    BY HeldDevice DEF Inv, Has
  <2> QED BY <2>1 DEF Found
<1> QED BY <1>1, AlwaysInv, PTL

\* While no index has shifted, the CDI id of a granted GPU names a device whose
\* environment has that GPU's UUID (cdi.go:276-342).
THEOREM RightUuid == Spec => []Identified
<1>1. Inv => Identified
  <2> SUFFICES ASSUME Inv, ~disturbed, NEW c \in Claims, Has(c, "gpu")
               PROVE  standard[held[c].name[2]] = held[c].bus
    BY DEF Identified
  <2>1. held[c] \in [name : Names, bus : Gpus]
    BY DEF Inv, TypeOK, Has
  <2> QED BY <2>1 DEF Inv, Steady, Named, Specified, Has
<1> QED BY <1>1, AlwaysInv, PTL
====
