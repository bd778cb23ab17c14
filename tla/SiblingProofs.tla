---- MODULE SiblingProofs ----
(***************************************************************************)
(* Proofs about the GPUs and their VFIO twins: what DeviceState hides and  *)
(* brings back.  They assume that no device is allocated to two claims     *)
(* (adminAccess aside, the scheduler's promise).                           *)
(***************************************************************************)
EXTENDS DeviceStateProofs, PassthroughHistory

\* No two claims have a device in common.
Exclusive ==
    \A c, d \in Claims : c # d =>
        \A x \in DevicesOfClaim(c), y \in DevicesOfClaim(d) :
            BusOf[x] = BusOf[y] => TypeOf[x] # TypeOf[y]

\* The claim's devices are allocatable, and their twins are not.
Held(c) ==
    /\ DevicesOfClaim(c) \subseteq allocatable
    /\ SiblingsOf(DevicesOfClaim(c)) \cap allocatable = {}

\* From the choice of its configs on, Prepare works on allocatable devices; once it
\* has hidden their twins, these stay hidden.
Twins ==
    /\ \A d \in allocatable : TypeOf[d] = "vfio" => Passthrough
    /\ ~up => \A h \in Handlers : pc[h] = "idle"
    /\ \A h \in Handlers : pc[h] = "pApply" => DevicesOfClaim(claim[h]) \subseteq allocatable
    /\ \A h \in Handlers : pc[h] \in {"pSpec", "pDone"} => Held(claim[h])

----------------------------------------------------------------------------
\* A claim has devices of the node.
LEMMA ClaimDevices == ASSUME NEW c \in Claims PROVE DevicesOfClaim(c) \subseteq Devices
BY GroupAssumption DEF DevicesOfClaim

\* Two types: the twin of a twin is of the device's own type.
LEMMA TwinOfTwin ==
    ASSUME NEW x \in Devices, NEW y \in Devices, NEW e \in SiblingsOf({x}), e \in SiblingsOf({y})
    PROVE  BusOf[x] = BusOf[y] /\ TypeOf[x] = TypeOf[y]
BY GroupAssumption DEF SiblingsOf

\* Being a sibling of a set is being a sibling of one of its members.
LEMMA SiblingOfOne ==
    ASSUME NEW ds, NEW e
    PROVE  e \in SiblingsOf(ds) <=> \E d \in ds : e \in SiblingsOf({d})
BY DEF SiblingsOf

\* Being a sibling is symmetric.
LEMMA SiblingSymmetric ==
    ASSUME NEW x \in Devices, NEW y \in Devices
    PROVE  x \in SiblingsOf({y}) <=> y \in SiblingsOf({x})
BY DEF SiblingsOf

\* What a handler does while it holds the mutex is all that happens to the devices.
LEMMA Alone ==
    ASSUME Control, Next, NEW k \in Handlers, pc[k] \in Critical
    PROVE  \/ Step(k) \/ Panic(k) \/ Crash \/ Boot
           \/ UNCHANGED <<host, memory, history, pc[k], claim[k]>>
<1> USE NoneAssumption DEF Control, TypeOK, Holding
<1>1. ASSUME NEW h \in Handlers, Call(h) PROVE UNCHANGED <<host, memory, history, pc[k], claim[k]>>
  <2>1. h # k
    BY <1>1 DEF Call, Critical, PreparePCs, UnpreparePCs
  <2> QED
    BY <1>1, <2>1 DEF Call
<1>2. ASSUME NEW h \in Handlers, Acquire(h) PROVE FALSE
  BY <1>2 DEF Acquire, PrepareRead, UnprepareRead, UnprepareNoop, LockAndRead
<1>3. ASSUME NEW h \in Handlers, h # k PROVE ~Step(h)
  <2>1. pc[h] \notin Critical /\ lock # None
    BY <1>3
  <2> QED
    BY <2>1 DEF Step, PrepareStart, PrepareRepeated, SelectConfigs, RejectClaim, ApplyGroup, ApplyFails,
       HideSiblings, CreateSpec, PrepareComplete, CleanGroup, CleanFails, AllClean, RediscoverSiblings,
       DiscoverFails, DeleteSpec, UnprepareForget, CheckpointFails, SpecFails,
       Critical, PreparePCs, UnpreparePCs
<1>4. ASSUME NEW h \in Handlers, h # k PROVE ~Panic(h)
  <2>1. pc[h] \notin Critical
    BY <1>4
  <2> QED
    BY <2>1 DEF Panic, Critical, PreparePCs, UnpreparePCs
<1> QED
  BY <1>1, <1>2, <1>3, <1>4 DEF Next

\* The steps that change the allocatable devices.
LEMMA AllocatableFrame ==
    ASSUME Next
    PROVE  \/ UNCHANGED allocatable
           \/ \E h \in Handlers : HideSiblings(h) \/ RediscoverSiblings(h) \/ DiscoverFails(h)
           \/ Die \/ Boot
BY DEF Next, Acquire, Step, Call, PrepareRead, UnprepareRead, UnprepareNoop, PrepareStart,
   PrepareRepeated, SelectConfigs, RejectClaim, ApplyGroup, ApplyFails, CreateSpec, PrepareComplete,
   CleanGroup, CleanFails, AllClean, DeleteSpec, UnprepareForget, CheckpointFails, SpecFails,
   Panic, Crash, memory

\* Unprepare adds siblings of devices of its claim, and only with PassthroughSupport.
LEMMA Rediscovered ==
    ASSUME NEW h \in Handlers, RediscoverSiblings(h) \/ DiscoverFails(h)
    PROVE  /\ allocatable \subseteq allocatable'
           /\ allocatable' \subseteq allocatable \cup SiblingsOf(DevicesOfClaim(claim[h]) \cap allocatable)
           /\ Passthrough \/ UNCHANGED allocatable
<1>1. CASE RediscoverSiblings(h)
  BY <1>1 DEF RediscoverSiblings, TwinsOf
<1>2. CASE DiscoverFails(h)
  <2>1. PICK before \in SUBSET (DevicesOfClaim(claim[h]) \cap allocatable) :
            allocatable' = allocatable \cup SiblingsOf(before)
    BY <1>2 DEF DiscoverFails
  <2>2. SiblingsOf(before) \subseteq SiblingsOf(DevicesOfClaim(claim[h]) \cap allocatable)
    BY SiblingOfOne
  <2> QED
    BY <1>2, <2>1, <2>2 DEF DiscoverFails
<1> QED
  BY <1>1, <1>2

\* Hiding the siblings of allocatable devices leaves these devices allocatable and
\* their siblings not.
LEMMA HidingHolds ==
    ASSUME Twins, NEW h \in Handlers, HideSiblings(h), claim[h] \in Claims
    PROVE  Held(claim[h])'
<1> DEFINE D == DevicesOfClaim(claim[h])
<1>1. D \subseteq allocatable /\ D \subseteq Devices
  BY ClaimDevices DEF HideSiblings, Twins
<1>2. allocatable' = allocatable \ TwinsOf(claim[h]) /\ claim'[h] = claim[h]
  BY DEF HideSiblings, Goto
<1>3. DevicesOfClaim(claim[h])' = D
  BY <1>2 DEF DevicesOfClaim
<1>4. CASE Passthrough
  <2>1. TwinsOf(claim[h]) = SiblingsOf(D)
    <3>1. D \cap allocatable = D
      BY <1>1
    <3> QED
      BY <1>4, <3>1 DEF TwinsOf
  <2>2. D \cap SiblingsOf(D) = {}
    <3> SUFFICES ASSUME NEW e \in D, NEW d \in D, BusOf[e] = BusOf[d], TypeOf[e] # TypeOf[d] PROVE FALSE
      BY DEF SiblingsOf
    <3> QED
      BY NoSiblingsInAClaim DEF DevicesOfClaim
  <2> QED
    BY <1>1, <1>2, <1>3, <2>1, <2>2 DEF Held
<1>5. CASE ~Passthrough
  <2>1. UNCHANGED allocatable
    BY <1>2, <1>5 DEF TwinsOf
  <2>2. \A d \in allocatable : TypeOf[d] # "vfio"
    BY <1>5 DEF Twins
  <2>3. SiblingsOf(D) \cap allocatable = {}
    BY <1>1, <2>2, GroupAssumption DEF SiblingsOf
  <2> QED
    BY <1>1, <1>3, <2>1, <2>3 DEF Held
<1> QED
  BY <1>4, <1>5

----------------------------------------------------------------------------
\* No call for another claim brings the twins back or hides the devices.
LEMMA HeldStays ==
    ASSUME Exclusive, Control, Twins, Next, up', up,
           NEW c \in Claims, Held(c),
           \A h \in Handlers : pc[h] = "uDiscover" => claim[h] # c
    PROVE  Held(c)'
<1> DEFINE D == DevicesOfClaim(c)
<1>1. D \subseteq allocatable /\ SiblingsOf(D) \cap allocatable = {} /\ D \subseteq Devices
  BY ClaimDevices DEF Held
<1>2. SUFFICES D \subseteq allocatable' /\ SiblingsOf(D) \cap allocatable' = {}
  BY DEF Held, DevicesOfClaim, SiblingsOf
<1>3. CASE UNCHANGED allocatable
  BY <1>1, <1>3
<1>4. ASSUME NEW h \in Handlers, HideSiblings(h) PROVE D \subseteq allocatable' /\ SiblingsOf(D) \cap allocatable' = {}
  <2>1. allocatable' = allocatable \ TwinsOf(claim[h]) /\ pc[h] = "pApply"
    BY <1>4 DEF HideSiblings
  <2>2. DevicesOfClaim(claim[h]) \subseteq allocatable
    BY <2>1 DEF Twins
  <2>3. D \cap TwinsOf(claim[h]) = {}
    <3> SUFFICES ASSUME NEW x \in D, x \in TwinsOf(claim[h]) PROVE FALSE
      OBVIOUS
    <3>1. PICK y \in allocatable \cap Devices : x \in SiblingsOf({y})
      <4>1. allocatable \subseteq Devices
        BY DEF Control, TypeOK
      <4> QED
        BY <4>1 DEF TwinsOf, SiblingsOf
    <3>2. y \in SiblingsOf({x})
      BY <1>1, <3>1, SiblingSymmetric
    <3> QED
      BY <1>1, <3>1, <3>2, SiblingOfOne
  <2> QED
    BY <1>1, <2>1, <2>3
<1>5. ASSUME NEW h \in Handlers, RediscoverSiblings(h) \/ DiscoverFails(h)
      PROVE D \subseteq allocatable' /\ SiblingsOf(D) \cap allocatable' = {}
  <2>1. pc[h] = "uDiscover"
    BY <1>5 DEF RediscoverSiblings, DiscoverFails
  <2>2. claim[h] \in Claims /\ claim[h] # c
    BY <2>1 DEF Control, Serving
  <2>3. SiblingsOf(D) \cap SiblingsOf(DevicesOfClaim(claim[h])) = {}
    <3> SUFFICES ASSUME NEW e, e \in SiblingsOf(D), e \in SiblingsOf(DevicesOfClaim(claim[h])) PROVE FALSE
      OBVIOUS
    <3>1. PICK x \in D : e \in SiblingsOf({x})
      BY SiblingOfOne
    <3>2. PICK y \in DevicesOfClaim(claim[h]) : e \in SiblingsOf({y})
      BY SiblingOfOne
    <3>3. x \in Devices /\ y \in Devices
      BY <1>1, <2>2, <3>1, <3>2, ClaimDevices
    <3>4. BusOf[x] = BusOf[y] /\ TypeOf[x] = TypeOf[y]
      BY <3>1, <3>2, <3>3, TwinOfTwin
    <3> QED
      BY <2>2, <3>1, <3>2, <3>4 DEF Exclusive
  <2>4. SiblingsOf(DevicesOfClaim(claim[h]) \cap allocatable) \subseteq SiblingsOf(DevicesOfClaim(claim[h]))
    BY DEF SiblingsOf
  <2> HIDE DEF D
  <2> QED
    BY <1>1, <1>5, <2>3, <2>4, Rediscovered
<1> QED
  BY <1>3, <1>4, <1>5, AllocatableFrame DEF Die, Boot

\* Every step keeps Twins.
LEMMA TwinsNext == Control /\ Twins /\ [Next]_vars => Twins'
<1> SUFFICES ASSUME Control, Twins, [Next]_vars PROVE Twins'
  OBVIOUS
<1>1. CASE UNCHANGED vars
  BY <1>1 DEF vars, memory, handler, Twins, Held, DevicesOfClaim, SiblingsOf
<1>2. CASE Die
  BY <1>2 DEF Die, Twins
<1>3. CASE Boot
  BY <1>3 DEF Boot, Twins, Enumerated, handler, Held
<1>4. CASE Next /\ ~Die /\ ~Boot
  <2> USE <1>4
  <2>1. \A d \in allocatable' : TypeOf[d] = "vfio" => Passthrough
    <3>1. CASE Passthrough
      BY <3>1
    <3>2. CASE ~Passthrough
      <4>1. allocatable' \subseteq allocatable
        BY <3>2, AllocatableFrame, Rediscovered DEF HideSiblings
      <4> QED
        BY <4>1 DEF Twins
    <3> QED
      BY <3>1, <3>2
  <2>2. UNCHANGED up
    BY DEF Next, Acquire, Step, Call, PrepareRead, UnprepareRead, UnprepareNoop, PrepareStart,
       PrepareRepeated, SelectConfigs, RejectClaim, ApplyGroup, ApplyFails, HideSiblings, CreateSpec,
       PrepareComplete, CleanGroup, CleanFails, AllClean, RediscoverSiblings, DiscoverFails, DeleteSpec,
       UnprepareForget, CheckpointFails, SpecFails, Panic, Crash, memory
  <2>3. ~up => \A h \in Handlers : pc'[h] = "idle"
    <3> SUFFICES ASSUME ~up PROVE \A h \in Handlers : pc'[h] = "idle"
      OBVIOUS
    <3>1. \A h \in Handlers : pc[h] = "idle"
      BY DEF Twins
    <3> QED
      BY <3>1 DEF Next, Acquire, Step, Call, PrepareRead, UnprepareRead, UnprepareNoop, PrepareStart,
       PrepareRepeated, SelectConfigs, RejectClaim, ApplyGroup, ApplyFails, HideSiblings, CreateSpec,
       PrepareComplete, CleanGroup, CleanFails, AllClean, RediscoverSiblings, DiscoverFails, DeleteSpec,
       UnprepareForget, CheckpointFails, SpecFails, Panic, Crash
  <2>4. ASSUME NEW k \in Handlers, pc'[k] \in {"pApply", "pSpec", "pDone"}
        PROVE  \/ SelectConfigs(k) \/ ApplyGroup(k) \/ HideSiblings(k) \/ CreateSpec(k)
               \/ pc'[k] = pc[k] /\ claim'[k] = claim[k] /\ allocatable' = allocatable
    <3>1. CASE pc[k] \in Critical
      <4>1. Step(k) \/ UNCHANGED <<memory, pc[k], claim[k]>>
        BY <3>1, Alone DEF Panic, Crash
      <4>2. CASE Step(k)
        <5> USE DEF Control, TypeOK
        <5> QED
          BY <2>4, <4>2 DEF Step, PrepareStart, PrepareRepeated, RejectClaim, ApplyFails, PrepareComplete,
             CleanGroup, CleanFails, AllClean, RediscoverSiblings, DiscoverFails, DeleteSpec,
             UnprepareForget, CheckpointFails, SpecFails, Goto, Return
      <4> QED
        BY <4>1, <4>2 DEF memory
    <3>2. CASE pc[k] \notin Critical
      <4> USE DEF Control, TypeOK
      <4>1. ASSUME NEW h \in Handlers, Step(h) PROVE h # k \/ pc'[k] = "idle"
        BY <3>2, <4>1 DEF Step, PrepareStart, PrepareRepeated, SelectConfigs, RejectClaim, ApplyGroup,
           ApplyFails, HideSiblings, CreateSpec, PrepareComplete, CleanGroup, CleanFails, AllClean,
           RediscoverSiblings, DiscoverFails, DeleteSpec, UnprepareForget, CheckpointFails, SpecFails,
           Return, Critical, PreparePCs, UnpreparePCs
      <4>2. ASSUME NEW h \in Handlers, Step(h), h # k PROVE pc'[k] = pc[k]
        BY <4>2 DEF Step, PrepareStart, PrepareRepeated, SelectConfigs, RejectClaim, ApplyGroup,
           ApplyFails, HideSiblings, CreateSpec, PrepareComplete, CleanGroup, CleanFails, AllClean,
           RediscoverSiblings, DiscoverFails, DeleteSpec, UnprepareForget, CheckpointFails, SpecFails,
           Return, Goto
      <4>3. ASSUME NEW h \in Handlers, Call(h) \/ Acquire(h) PROVE pc'[k] \notin {"pApply", "pSpec", "pDone"}
        BY <3>2, <4>3 DEF Call, Acquire, PrepareRead, UnprepareRead, UnprepareNoop, Return, Critical, PreparePCs
      <4> QED
        BY <2>4, <3>2, <4>1, <4>2, <4>3 DEF Next, Panic, Crash, Critical, PreparePCs
    <3> QED
      BY <3>1, <3>2
  <2>5. ASSUME NEW k \in Handlers, pc'[k] = "pApply" PROVE (DevicesOfClaim(claim[k]) \subseteq allocatable)'
    <3> USE DEF Control, TypeOK
    <3>1. CASE SelectConfigs(k)
      BY <3>1 DEF SelectConfigs, Selectable, Goto, DevicesOfClaim, memory
    <3>2. CASE ApplyGroup(k)
      BY <3>2 DEF ApplyGroup, Twins, Goto, DevicesOfClaim, memory
    <3>3. ~HideSiblings(k) /\ ~CreateSpec(k)
      BY <2>5 DEF HideSiblings, CreateSpec, Goto
    <3> QED
      BY <2>4, <2>5, <3>1, <3>2, <3>3 DEF Twins, DevicesOfClaim
  <2>6. ASSUME NEW k \in Handlers, pc'[k] \in {"pSpec", "pDone"} PROVE Held(claim[k])'
    <3> USE DEF Control, TypeOK
    <3>1. ~SelectConfigs(k) /\ ~ApplyGroup(k)
      BY <2>6 DEF SelectConfigs, ApplyGroup, Goto
    <3>2. CASE HideSiblings(k)
      <4>1. claim[k] \in Claims
        BY <3>2 DEF Serving, HideSiblings
      <4> QED
        BY <3>2, <4>1, HidingHolds
    <3>3. CASE CreateSpec(k)
      BY <3>3 DEF CreateSpec, Twins, Goto, memory, Held, DevicesOfClaim, SiblingsOf
    <3> QED
      BY <2>4, <2>6, <3>1, <3>2, <3>3 DEF Twins, Held, DevicesOfClaim, SiblingsOf
  <2> QED
    BY <2>1, <2>2, <2>3, <2>5, <2>6 DEF Twins
<1> QED
  BY <1>1, <1>2, <1>3, <1>4

\* Twins holds with any faults, in every state.
LEMMA TwinsInvariant == Spec => [](Control /\ Twins)
<1>1. Init => Twins
  BY DEF Init, Twins, Enumerated
<1> QED
  BY <1>1, ControlInit, ControlNext, TwinsNext, PTL DEF Spec

----------------------------------------------------------------------------
\* Within one run of the process, that is without crashes and nil managers.

NoCrash == "crash" \notin Faults
AllBuilt == Builds = {Gates}

Running == up /\ built = Gates

\* The devices of a prepared claim are held, be it the kubelet or the checkpoint that
\* says it is prepared.
Prepared(c) == (told[c] = "prepared" \/ checkpoint[c] = "PrepareCompleted") /\ c \notin torn
Kept == \A c \in Claims : Prepared(c) => Held(c)

\* The process goes on.
LEMMA RunsOn ==
    ASSUME NoCrash, AllBuilt, Running, Next
    PROVE  Running' /\ ~Die /\ ~Boot /\ \A h \in Handlers : ~Panic(h)
<1>1. \A g \in Groups : Applies(g) \subseteq Gates /\ Unapplies(g) \subseteq Gates
  BY DEF Applies, Unapplies, Hami
<1>2. \A g : Applies(g) \subseteq Gates /\ Unapplies(g) \subseteq Gates
  BY DEF Applies, Unapplies, Hami
<1>3. ASSUME NEW h \in Handlers PROVE ~Panic(h)
  BY <1>2 DEF Panic, Running
<1>4. ~Crash
  BY DEF Crash, NoCrash, Fault
<1>5. ~Boot
  BY DEF Boot, Running
<1>6. UNCHANGED <<up, built>>
  BY <1>3, <1>4, <1>5 DEF Next, Acquire, Step, Call, PrepareRead, UnprepareRead, UnprepareNoop, PrepareStart,
       PrepareRepeated, SelectConfigs, RejectClaim, ApplyGroup, ApplyFails, HideSiblings, CreateSpec,
       PrepareComplete, CleanGroup, CleanFails, AllClean, RediscoverSiblings, DiscoverFails, DeleteSpec,
       UnprepareForget, CheckpointFails, SpecFails, memory
<1>7. ~Die
  BY <1>6 DEF Die, Running
<1> QED
  BY <1>3, <1>5, <1>6, <1>7 DEF Running

\* A claim becomes prepared only by PrepareComplete.
LEMMA PreparedCause ==
    ASSUME Control, Next, ~Die, ~Boot, NEW c \in Claims, Prepared(c)'
    PROVE  Prepared(c) \/ \E h \in Handlers : PrepareComplete(h) /\ claim[h] = c
<1> USE DEF Control, TypeOK, Serving, Fresh, Prepared, UnpreparePCs, PreparePCs
<1>1. CASE UNCHANGED <<checkpoint, told, torn>>
  BY <1>1
<1>2. ASSUME NEW h \in Handlers, PrepareStart(h) PROVE Prepared(c)
  BY <1>2 DEF PrepareStart, WriteStarted, States
<1>3. ASSUME NEW h \in Handlers, PrepareRepeated(h) PROVE Prepared(c)
  BY <1>3 DEF PrepareRepeated, WriteStarted, Tell, States
<1>4. ASSUME NEW h \in Handlers, PrepareComplete(h), claim[h] # c PROVE Prepared(c)
  BY <1>4 DEF PrepareComplete, Tell
<1>5. ASSUME NEW h \in Handlers, UnprepareRead(h) \/ UnprepareNoop(h) PROVE Prepared(c)
  BY <1>5 DEF UnprepareRead, UnprepareNoop, Tell, host
<1>6. ASSUME NEW h \in Handlers, UnprepareForget(h) PROVE Prepared(c)
  BY <1>6 DEF UnprepareForget, Tell
<1>7. ASSUME NEW h \in Handlers,
             \/ CleanGroup(h) \/ CleanFails(h) \/ RediscoverSiblings(h) \/ DiscoverFails(h) \/ DeleteSpec(h)
      PROVE Prepared(c)
  <2>1. UNCHANGED <<checkpoint, told>> /\ torn \subseteq torn'
    BY <1>7 DEF CleanGroup, CleanFails, RediscoverSiblings, DiscoverFails, DeleteSpec, host
  <2> QED
    BY <2>1
<1>8. \/ UNCHANGED <<checkpoint, told, torn>>
      \/ \E h \in Handlers :
            \/ PrepareStart(h) \/ PrepareRepeated(h) \/ PrepareComplete(h)
            \/ UnprepareRead(h) \/ UnprepareNoop(h) \/ UnprepareForget(h)
            \/ CleanGroup(h) \/ CleanFails(h) \/ RediscoverSiblings(h) \/ DiscoverFails(h) \/ DeleteSpec(h)
  BY DEF Next, Acquire, Step, Call, PrepareRead, SelectConfigs, RejectClaim, ApplyGroup, ApplyFails,
     HideSiblings, CreateSpec, AllClean, CheckpointFails, SpecFails, Panic, Crash, host, history
<1> HIDE DEF Prepared
<1> QED
  BY <1>1, <1>2, <1>3, <1>4, <1>5, <1>6, <1>7, <1>8

\* Every step keeps Kept.
LEMMA KeptNext ==
    ASSUME NoCrash, AllBuilt, Exclusive, Control, Twins, Running, Kept, [Next]_vars
    PROVE  Running' /\ Kept'
<1>1. CASE UNCHANGED vars
  BY <1>1 DEF vars, host, memory, history, Running, Kept, Prepared, Held, DevicesOfClaim, SiblingsOf
<1>2. CASE Next
  <2>1. Running' /\ ~Die /\ ~Boot
    BY <1>2, RunsOn
  <2> SUFFICES ASSUME NEW c \in Claims, Prepared(c)' PROVE Held(c)'
    BY <2>1 DEF Kept
  <2>2. ASSUME NEW h \in Handlers, PrepareComplete(h), claim[h] = c PROVE Held(c)'
    BY <2>2 DEF PrepareComplete, Twins, Held, memory, DevicesOfClaim, SiblingsOf
  <2>3. CASE Prepared(c)
    <3>1. Held(c)
      BY <2>3 DEF Kept
    <3>2. CASE \A h \in Handlers : pc[h] = "uDiscover" => claim[h] # c
      BY <1>2, <2>1, <3>1, <3>2, HeldStays DEF Running
    <3>3. ASSUME NEW k \in Handlers, pc[k] = "uDiscover", claim[k] = c PROVE Held(c)'
      <4>1. pc[k] \in Critical
        BY <3>3 DEF Critical, UnpreparePCs
      <4>2. ~Step(k)
        <5>1. ASSUME RediscoverSiblings(k) \/ DiscoverFails(k) PROVE FALSE
          BY <3>3, <5>1 DEF RediscoverSiblings, DiscoverFails, Prepared
        <5> QED
          BY <3>3, <5>1 DEF Step, PrepareStart, PrepareRepeated, SelectConfigs, RejectClaim, ApplyGroup,
             ApplyFails, HideSiblings, CreateSpec, PrepareComplete, CleanGroup, CleanFails, AllClean,
             DeleteSpec, UnprepareForget, CheckpointFails, SpecFails
      <4>3. UNCHANGED memory
        BY <1>2, <2>1, <4>1, <4>2, Alone, RunsOn DEF Crash
      <4> QED
        BY <3>1, <4>3 DEF memory, Held, DevicesOfClaim, SiblingsOf
    <3> QED
      BY <3>2, <3>3
  <2> QED
    BY <1>2, <2>1, <2>2, <2>3, PreparedCause
<1> QED
  BY <1>1, <1>2

\* In one run of the process every prepared claim's devices are held.
LEMMA KeptInvariant ==
    ASSUME NoCrash, AllBuilt, Exclusive PROVE Spec => [](Control /\ Twins /\ Running /\ Kept)
<1>1. Init => Running /\ Kept
  BY AllBuilt DEF Init, Running, Kept, Prepared, Blank, AllBuilt
<1>2. Control /\ Twins /\ Running /\ Kept /\ [Next]_vars => Running' /\ Kept'
  BY NoCrash, AllBuilt, Exclusive, KeptNext
<1> QED
  BY <1>1, <1>2, TwinsInvariant, PTL DEF Spec

\* While a GPU is prepared for one claim, its VFIO twin is prepared for no other.
THEOREM NoConflict == ASSUME NoCrash, AllBuilt, Exclusive PROVE Spec => []NoSiblingConflict
<1>1. Kept => NoSiblingConflict
  BY DEF Kept, Prepared, Held, NoSiblingConflict
<1> QED
  BY <1>1, KeptInvariant, NoCrash, AllBuilt, Exclusive, PTL

----------------------------------------------------------------------------
\* GPUs bound to vfio-pci.

\* As long as the trace of a VFIO group is there the GPUs behind it are hidden, or
\* Prepare is about to hide them, or it was left before it did.
BoundHidden ==
    \A c \in Claims \ abandoned, g \in Groups : <<c, g>> \in applied /\ Vfio(g) =>
        \/ SiblingsOf(DevicesOf[g]) \cap allocatable = {}
        \/ \E h \in Handlers : pc[h] = "pApply" /\ claim[h] = c

\* The history variable only watches.
LEMMA HistoryWatches == HistorySpec => Spec
<1>1. HistoryInit => Init
  BY DEF HistoryInit
<1>2. [HistoryNext]_watchedVars => [Next]_vars
  BY DEF HistoryNext, watchedVars
<1> QED
  BY <1>1, <1>2, PTL DEF HistorySpec, Spec

\* A claim whose preparation fails in the apply loop is remembered.
LEMMA Abandons ==
    ASSUME Control, Remember, NEW h \in Handlers, ApplyFails(h) PROVE claim[h] \in abandoned'
<1> USE NoneAssumption DEF Control, TypeOK, Holding
<1>1. pc[h] = "pApply" /\ pc'[h] = "idle"
  BY DEF ApplyFails, Return
<1>2. \A k \in Handlers : pc[k] = "pApply" => k = h
  BY <1>1 DEF Critical, PreparePCs
<1> QED
  BY <1>1, <1>2 DEF Remember, LeftBy, DoneBy

\* Only HideSiblings ends the apply loop without an error.
LEMMA OnlyHiding ==
    ASSUME Control, Next, ~Die, ~Boot, NEW h \in Handlers, DoneBy(h) PROVE HideSiblings(h)
<1> USE DEF Control, TypeOK
<1>1. pc[h] = "pApply" /\ pc'[h] = "pSpec" /\ pc[h] \in Critical
  BY DEF DoneBy, Critical, PreparePCs
<1>2. Step(h)
  BY <1>1, Alone DEF Panic, Crash
<1> QED
  BY <1>1, <1>2 DEF Step, PrepareStart, PrepareRepeated, SelectConfigs, RejectClaim, ApplyGroup,
     ApplyFails, CreateSpec, PrepareComplete, CleanGroup, CleanFails, AllClean, RediscoverSiblings,
     DiscoverFails, DeleteSpec, UnprepareForget, CheckpointFails, SpecFails, Goto, Return

\* A trace of a group is a trace of a group of the claim.
LEMMA TraceOwner ==
    ASSUME OwnTraces, NEW c \in Claims, NEW g \in Groups, <<c, g>> \in applied
    PROVE  g \in GroupsOf[c] /\ DevicesOf[g] \subseteq DevicesOfClaim(c)
<1>1. <<c, g>> \in Footprints(c, GroupsOf[c])
  BY DEF OwnTraces, Units
<1>2. PICK f \in GroupsOf[c] : <<c, g>> \in Footprint(c, f)
  BY <1>1, FootprintsAre
<1>3. <<c, g>> = Trace(c, f)
  BY <1>2 DEF Footprint
<1>4. f = g
  BY <1>3, UnitAssumption DEF Trace
<1> QED
  BY <1>2, <1>4 DEF DevicesOfClaim

\* Every step keeps BoundHidden.
LEMMA BoundHiddenNext ==
    ASSUME NoCrash, AllBuilt, NoHostdir, Exclusive,
           Clean, Twins, Running, BoundHidden, Next, Remember
    PROVE  BoundHidden'
<1> USE DEF Clean
<1>1. Running' /\ ~Die /\ ~Boot /\ Twins'
  BY RunsOn, TwinsNext
<1> SUFFICES ASSUME NEW c \in Claims, c \notin abandoned', NEW g \in Groups, <<c, g>> \in applied', Vfio(g)
             PROVE  \/ SiblingsOf(DevicesOf[g]) \cap allocatable' = {}
                    \/ \E h \in Handlers : pc'[h] = "pApply" /\ claim'[h] = c
  BY DEF BoundHidden, Vfio, SiblingsOf
<1>2. ASSUME NEW h \in Handlers, ApplyFails(h) PROVE claim[h] # c
  BY <1>2, Abandons
<1>3. ASSUME NEW h \in Handlers, HideSiblings(h), claim[h] = c, <<c, g>> \in applied
      PROVE  SiblingsOf(DevicesOf[g]) \cap allocatable' = {}
  <2>1. Held(claim[h])' /\ claim'[h] = c
    BY <1>3, HidingHolds DEF HideSiblings, Goto
  <2>2. SiblingsOf(DevicesOfClaim(c)) \cap allocatable' = {}
    BY <2>1 DEF Held, DevicesOfClaim, SiblingsOf
  <2>3. SiblingsOf(DevicesOf[g]) \subseteq SiblingsOf(DevicesOfClaim(c))
    BY <1>3, TraceOwner DEF SiblingsOf
  <2> QED
    BY <2>2, <2>3
<1>4. CASE <<c, g>> \notin applied
  <2>1. PICK h \in Handlers : ApplyGroup(h) \/ ApplyFails(h)
    BY <1>4, AppliedFrame, CleanEffect
  <2>2. PICK f \in GroupsOf[claim[h]] : applied' \in {applied, applied \cup Footprint(claim[h], f)}
    BY <2>1, ApplyEffect
  <2>3. claim[h] = c
    BY <1>4, <2>1, <2>2, ApplyEffect, FootprintOwn
  <2>4. pc'[h] = "pApply" /\ claim'[h] = claim[h]
    BY <1>2, <2>1, <2>3 DEF ApplyGroup, Goto, Control, TypeOK
  <2> QED
    BY <2>3, <2>4
<1>5. CASE <<c, g>> \in applied /\ c \notin abandoned
  <2>1. g \in GroupsOf[c] /\ DevicesOf[g] \subseteq DevicesOfClaim(c)
    BY <1>5, TraceOwner
  <2>2. SiblingsOf(DevicesOf[g]) \subseteq SiblingsOf(DevicesOfClaim(c))
    BY <2>1 DEF SiblingsOf
  <2>3. CASE SiblingsOf(DevicesOf[g]) \cap allocatable = {}
    <3>1. CASE allocatable' \subseteq allocatable
      BY <2>3, <3>1
    <3>2. ASSUME NEW h \in Handlers, RediscoverSiblings(h) \/ DiscoverFails(h)
          PROVE SiblingsOf(DevicesOf[g]) \cap allocatable' = {}
      <4>1. pc[h] = "uDiscover" /\ claim[h] \in Claims
        BY <3>2 DEF RediscoverSiblings, DiscoverFails, Control, Serving
      <4>2. claim[h] # c
        BY <1>5, <4>1 DEF Cleaning, Units
      <4>3. SiblingsOf(DevicesOf[g]) \cap SiblingsOf(DevicesOfClaim(claim[h]) \cap allocatable) = {}
        <5> SUFFICES ASSUME NEW x \in DevicesOfClaim(c), NEW y \in DevicesOfClaim(claim[h]),
                            NEW e, e \in SiblingsOf({x}), e \in SiblingsOf({y})
                     PROVE  FALSE
          BY <2>1 DEF SiblingsOf
        <5>1. x \in Devices /\ y \in Devices
          BY <4>1, ClaimDevices
        <5>2. BusOf[x] = BusOf[y] /\ TypeOf[x] = TypeOf[y]
          BY <5>1, TwinOfTwin
        <5> QED
          BY <4>1, <4>2, <5>2 DEF Exclusive
      <4> QED
        BY <2>3, <3>2, <4>3, Rediscovered
    <3> QED
      BY <1>1, <3>1, <3>2, AllocatableFrame DEF HideSiblings
  <2>4. ASSUME NEW k \in Handlers, pc[k] = "pApply", claim[k] = c
        PROVE  \/ SiblingsOf(DevicesOf[g]) \cap allocatable' = {}
               \/ pc'[k] = "pApply" /\ claim'[k] = c
    <3>1. pc[k] \in Critical
      BY <2>4 DEF Critical, PreparePCs
    <3>2. Step(k) \/ UNCHANGED <<pc[k], claim[k]>>
      BY <1>1, <3>1, Alone, RunsOn DEF Crash
    <3>3. CASE HideSiblings(k)
      BY <1>5, <1>3, <2>4, <3>3
    <3>4. CASE ApplyGroup(k)
      BY <2>4, <3>4 DEF ApplyGroup, Goto, Control, TypeOK
    <3>5. Step(k) => HideSiblings(k) \/ ApplyGroup(k)
      BY <1>2, <2>4 DEF Step, PrepareStart, PrepareRepeated, SelectConfigs, RejectClaim, CreateSpec,
         PrepareComplete, CleanGroup, CleanFails, AllClean, RediscoverSiblings, DiscoverFails,
         DeleteSpec, UnprepareForget, CheckpointFails, SpecFails
    <3> QED
      BY <2>4, <3>2, <3>3, <3>4, <3>5
  <2> QED
    BY <1>5, <2>3, <2>4 DEF BoundHidden
<1>6. CASE <<c, g>> \in applied /\ c \in abandoned
  <2>1. PICK h \in Handlers : DoneBy(h) /\ claim[h] = c
    BY <1>6 DEF Remember
  <2>2. HideSiblings(h)
    BY <1>1, <2>1, OnlyHiding
  <2> QED
    BY <1>3, <1>6, <2>1, <2>2
<1> QED
  BY <1>4, <1>5, <1>6

\* A prepared GPU is bound to the vfio-pci of no claim but an abandoned one.
LEMMA KeptUnbound ==
    ASSUME Clean, Twins, Kept, BoundHidden PROVE GpuNotBound
<1> SUFFICES ASSUME NEW c \in Claims, told[c] = "prepared", c \notin torn,
                    NEW d \in DevicesOfClaim(c), NEW x \in Claims \ abandoned,
                    TypeOf[d] = "gpu", d \in BoundBy(x)
             PROVE  FALSE
  BY DEF GpuNotBound
<1>1. Held(c)
  BY DEF Kept, Prepared
<1>2. PICK g \in Groups : /\ <<x, g>> \in applied /\ Vfio(g)
                          /\ \E e \in DevicesOf[g] : BusOf[e] = BusOf[d]
  BY DEF BoundBy
<1>3. PICK e \in DevicesOf[g] : BusOf[e] = BusOf[d]
  BY <1>2
<1>4. TypeOf[e] = "vfio"
  BY <1>2, <1>3, OneTypePerGroup DEF Vfio
<1>5. d \in Devices /\ d \in allocatable
  BY <1>1, ClaimDevices DEF Held
<1>6. d \in SiblingsOf(DevicesOf[g])
  BY <1>3, <1>4, <1>5 DEF SiblingsOf
<1>7. PICK h \in Handlers : pc[h] = "pApply" /\ claim[h] = x
  BY <1>2, <1>5, <1>6 DEF BoundHidden
<1>8. e \in DevicesOfClaim(x) /\ e \in allocatable
  <2>1. DevicesOf[g] \subseteq DevicesOfClaim(x)
    BY <1>2, TraceOwner DEF Clean
  <2> QED
    BY <1>3, <1>7, <2>1 DEF Twins
<1>9. e \in SiblingsOf(DevicesOfClaim(c))
  BY <1>3, <1>4, <1>8, ClaimDevices DEF SiblingsOf
<1> QED
  BY <1>1, <1>8, <1>9 DEF Held

\* With HAMi a trace is the claim's directory, and no GPU is bound by anyone.
DirectoriesOnly == \A c \in Claims, g \in Groups : <<c, g>> \notin applied

LEMMA DirectoriesNext == ASSUME Hami, DirectoriesOnly, [Next]_vars PROVE DirectoriesOnly'
<1>1. \A d, f : \A c \in Claims, g \in Groups : <<c, g>> \notin Footprint(d, f)
  BY UnitAssumption DEF Footprint, Trace
<1>2. ASSUME NEW h \in Handlers, ApplyGroup(h) \/ ApplyFails(h)
      PROVE  \E f : applied' \subseteq applied \cup Footprint(claim[h], f)
  BY <1>2 DEF ApplyGroup, ApplyFails
<1>3. ASSUME NEW h \in Handlers, CleanGroup(h) \/ CleanFails(h) PROVE applied' \subseteq applied
  BY <1>3 DEF CleanGroup, CleanFails
<1>4. \/ applied' \subseteq applied
      \/ \E h \in Handlers : \E f : applied' \subseteq applied \cup Footprint(claim[h], f)
  BY <1>2, <1>3, AppliedFrame DEF vars, host
<1> QED
  BY <1>1, <1>4 DEF DirectoriesOnly

LEMMA HamiBindsNone == ASSUME Hami PROVE Spec => []DirectoriesOnly
<1>1. Init => DirectoriesOnly
  BY DEF Init, DirectoriesOnly
<1> QED
  BY <1>1, Hami, DirectoriesNext, PTL DEF Spec

\* A GPU handed to a claim as a GPU is not bound to vfio-pci by any claim but one
\* whose preparation was left in the apply loop.
THEOREM NotBound ==
    ASSUME NoCrash, AllBuilt, Exclusive PROVE HistorySpec => []GpuNotBound
<1>1. CASE Hami
  <2>1. DirectoriesOnly => GpuNotBound
    BY DEF DirectoriesOnly, GpuNotBound, BoundBy
  <2> QED
    BY <1>1, <2>1, HamiBindsNone, HistoryWatches, PTL
<1>2. CASE ~Hami
  <2>1. NoHostdir
    BY <1>2 DEF NoHostdir
  <2>2. HistoryInit => BoundHidden
    BY DEF HistoryInit, Init, BoundHidden
  <2>3. Clean /\ Twins /\ Running /\ BoundHidden /\ [HistoryNext]_watchedVars => BoundHidden'
    <3>1. ASSUME BoundHidden, UNCHANGED watchedVars PROVE BoundHidden'
      BY <3>1 DEF watchedVars, vars, host, memory, handler, BoundHidden, Vfio, SiblingsOf
    <3> QED
      BY <2>1, <3>1, BoundHiddenNext, NoCrash, AllBuilt, Exclusive DEF HistoryNext
  <2>4. Clean /\ Twins /\ Kept /\ BoundHidden => GpuNotBound
    BY KeptUnbound
  <2>5. Spec => []Clean
    BY <2>1, CleanInvariant
  <2>6. Spec => [](Control /\ Twins /\ Running /\ Kept)
    BY NoCrash, AllBuilt, Exclusive, KeptInvariant
  <2> QED
    BY <2>2, <2>3, <2>4, <2>5, <2>6, HistoryWatches, PTL DEF HistorySpec
<1> QED
  BY <1>1, <1>2
====
