---- MODULE DeviceState ----
(***************************************************************************)
(* DeviceState of cmd/hami-kubelet-plugin/device_state.go: Prepare and     *)
(* Unprepare of resource claims by concurrent RPC handlers, under the      *)
(* DeviceState mutex, over a checkpoint file that outlives the process.    *)
(*                                                                         *)
(* A claim's allocation results fall into groups, one per config applied   *)
(* to them (configResultsMap).  A group is a set of devices of one type.   *)
(* What applying a group's config leaves on the host (a claim directory, a *)
(* time slice, an MPS daemon, a GPU bound to vfio-pci) is one trace.       *)
(***************************************************************************)
CONSTANTS
    Claims,         \* claim UIDs
    Handlers,       \* goroutines that serve RPCs (kubeletplugin.Serialize(false))
    None,           \* no claim, no handler
    Groups,         \* device groups
    Devices,        \* device names a node may advertise
    GroupsOf,       \* claim -> its groups
    DevicesOf,      \* group -> its devices
    TypeOf,         \* device -> "gpu" or "vfio"
    BusOf,          \* device -> PCI bus id of its GPU
    SharingOf,      \* group -> sharing strategy of its config
    BadConfig,      \* groups whose config fails Normalize or Validate
    Rejected,       \* claims refused before any config is applied
    Gates,          \* the feature gates that are enabled
    Builds,         \* the sets of gates whose managers NewDeviceState may end up
                    \* with: all that are enabled, all but that of vfio-pci, whose
                    \* Prechecks may fail, or none while the block is commented out
    Faults          \* what may go wrong besides the code

States == {"Absent", "PrepareStarted", "PrepareCompleted"}
AllGates == {"HAMiCoreSupport", "TimeSlicingSettings", "MPSSupport", "PassthroughSupport"}
AllFaults == {"checkpoint", "apply", "spec", "cleanup", "discover", "hostdir", "crash",
              "publish", "listen"}

ASSUME NoneAssumption == None \notin Claims \cup Handlers
ASSUME UnitAssumption == "claimDirectory" \notin Groups
ASSUME GroupAssumption ==
    /\ GroupsOf \in [Claims -> SUBSET Groups]
    /\ DevicesOf \in [Groups -> SUBSET Devices]
    /\ TypeOf \in [Devices -> {"gpu", "vfio"}]
    /\ DOMAIN BusOf = Devices
    /\ SharingOf \in [Groups -> {"none", "timeSlicing", "mps"}]
ASSUME OneTypePerGroup ==
    \A g \in Groups : \A d, e \in DevicesOf[g] : TypeOf[d] = TypeOf[e]
ASSUME NoSiblingsInAClaim ==
    \A c \in Claims : \A g, h \in GroupsOf[c] :
        \A d \in DevicesOf[g], e \in DevicesOf[h] :
            BusOf[d] = BusOf[e] => TypeOf[d] = TypeOf[e]
ASSUME SettingAssumption ==
    /\ BadConfig \subseteq Groups /\ Rejected \subseteq Claims
    /\ Gates \subseteq AllGates /\ Faults \subseteq AllFaults
    /\ Builds \subseteq SUBSET Gates /\ Builds # {}

----------------------------------------------------------------------------
\* What a group's config does, by type, strategy and enabled gates.

Hami == "HAMiCoreSupport" \in Gates
Vfio(g) == \E d \in DevicesOf[g] : TypeOf[d] = "vfio"

\* The gates whose managers applyConfig calls for this group.
Applies(g) ==
    IF Hami THEN IF Vfio(g) THEN {} ELSE {"HAMiCoreSupport"}
    ELSE Gates \cap (IF Vfio(g) THEN {"PassthroughSupport"} ELSE
                     {gate \in {"TimeSlicingSettings", "MPSSupport"} :
                        SharingOf[g] = IF gate = "MPSSupport" THEN "mps" ELSE "timeSlicing"})
Configures(g) == Applies(g) # {}

\* The gates whose managers unprepareDevices calls for this group: with MPSSupport
\* it stops a daemon of every group, whether or not one was started.
Unapplies(g) ==
    IF Hami THEN {"HAMiCoreSupport"}
    ELSE Gates \cap {"MPSSupport", IF Vfio(g) THEN "PassthroughSupport" ELSE "TimeSlicingSettings"}

\* HAMi keeps one directory per claim, shared by the claim's groups; the other
\* managers act on the devices of the group.
Trace(c, g) == <<c, IF Hami THEN "claimDirectory" ELSE g>>
Footprint(c, g) == IF Configures(g) THEN {Trace(c, g)} ELSE {}
Footprints(c, gs) == UNION {Footprint(c, g) : g \in gs}

\* CreateClaimSpecFile writes a file only for groups with container edits:
\* HAMi and MPS make some.
HasEdits(c) == \E g \in GroupsOf[c] : Configures(g) /\ (Hami \/ SharingOf[g] = "mps")

DevicesOfClaim(c) == UNION {DevicesOf[g] : g \in GroupsOf[c]}
SiblingsOf(ds) ==
    {e \in Devices : \E d \in ds : BusOf[e] = BusOf[d] /\ TypeOf[e] # TypeOf[d]}

\* VFIO devices exist only behind PassthroughSupport, and not beside HAMi.
Passthrough == "PassthroughSupport" \in Gates /\ ~Hami
Enumerated == {d \in Devices : TypeOf[d] = "vfio" => Passthrough}

----------------------------------------------------------------------------
VARIABLES
    \* on the host: survives the process
    checkpoint,     \* claim -> its entry in the checkpoint file
    specs,          \* claims with a CDI spec file
    applied,        \* traces of applied configs
    \* in the process
    up,             \* the process runs
    built,          \* gates whose manager is not nil
    allocatable,    \* devices in s.allocatable
    lock,           \* holder of the DeviceState mutex, or None
    pc, claim,      \* per handler: where it is, the claim it serves
    seen,           \* per handler: the copy of the checkpoint it read first
    todo,           \* per handler: groups still to apply or to clean
    \* history
    told,           \* claim -> what the kubelet was last told about it
    torn            \* completed claims that an Unprepare began to take apart

host == <<checkpoint, specs, applied>>
memory == <<up, built, allocatable>>
handler == <<lock, pc, claim, seen, todo>>
history == <<told, torn>>
vars == <<host, memory, handler, history>>

Blank == [c \in Claims |-> "Absent"]
PreparePCs == {"pStart", "pSelect", "pApply", "pSpec", "pDone"}
UnpreparePCs == {"uClean", "uDiscover", "uSpec", "uForget"}
Critical == PreparePCs \cup UnpreparePCs
PCs == {"idle", "pLock", "uLock"} \cup Critical

Units == Groups \cup {"claimDirectory"}

\* The types of the variables.
TypeOK ==
    /\ checkpoint \in [Claims -> States]
    /\ specs \subseteq Claims
    /\ applied \subseteq Claims \X Units
    /\ up \in BOOLEAN /\ built \subseteq Gates
    /\ allocatable \subseteq Devices
    /\ lock \in Handlers \cup {None}
    /\ pc \in [Handlers -> PCs]
    /\ claim \in [Handlers -> Claims \cup {None}]
    /\ seen \in [Handlers -> [Claims -> States]]
    /\ todo \in [Handlers -> SUBSET Groups]
    /\ told \in [Claims -> {"nothing", "prepared", "unprepared"}]
    /\ torn \subseteq Claims

\* A first start on a clean node: the checkpoint file is created empty.
Init ==
    /\ checkpoint = Blank /\ specs = {} /\ applied = {}
    /\ up = TRUE /\ built \in Builds /\ allocatable = Enumerated
    /\ lock = None
    /\ pc = [h \in Handlers |-> "idle"]
    /\ claim = [h \in Handlers |-> None]
    /\ seen = [h \in Handlers |-> Blank]
    /\ todo = [h \in Handlers |-> {}]
    /\ told = [c \in Claims |-> "nothing"]
    /\ torn = {}

----------------------------------------------------------------------------
\* Control of one handler.

Goto(h, label) ==
    /\ pc' = [pc EXCEPT ![h] = label]
    /\ UNCHANGED <<lock, claim, seen>>

\* Return to the caller: the deferred Unlock runs, whatever is returned.
Return(h) ==
    /\ lock' = None
    /\ pc' = [pc EXCEPT ![h] = "idle"]
    /\ claim' = [claim EXCEPT ![h] = None]
    /\ seen' = [seen EXCEPT ![h] = Blank]
    /\ todo' = [todo EXCEPT ![h] = {}]

Tell(c, what) == told' = [told EXCEPT ![c] = what]

Fault(f) == f \in Faults

\* The RPC arrives.  Any handler may serve any claim: a call that timed out may
\* still run when its retry, or a later call, arrives.
Call(h) ==
    /\ up /\ pc[h] = "idle"
    /\ \E c \in Claims : claim' = [claim EXCEPT ![h] = c]
    /\ \E label \in {"pLock", "uLock"} : pc' = [pc EXCEPT ![h] = label]
    /\ UNCHANGED <<host, memory, lock, seen, todo, history>>

\* Variant: the mutex is not taken.
ReadUnlocked(h) == lock' = h /\ seen' = [seen EXCEPT ![h] = checkpoint]

\* s.Lock(), then getCheckpoint into the handler's own copy.
LockAndRead(h) ==
    /\ lock = None
    /\ lock' = h
    /\ seen' = [seen EXCEPT ![h] = checkpoint]

----------------------------------------------------------------------------
\* Prepare.

PrepareRead(h) ==
    /\ pc[h] = "pLock" /\ LockAndRead(h)
    /\ pc' = [pc EXCEPT ![h] = "pStart"]
    /\ UNCHANGED <<host, memory, claim, todo, history>>

\* updateCheckpoint, before the copy read earlier is consulted: the entry becomes
\* PrepareStarted and loses its devices.
WriteStarted(h) == checkpoint' = [checkpoint EXCEPT ![claim[h]] = "PrepareStarted"]

\* Variants: the entry loses its state; the entry is not written ahead.
PrepareStartStateless(h) ==
    /\ pc[h] = "pStart"
    /\ checkpoint' = [checkpoint EXCEPT ![claim[h]] = ""]
    /\ Goto(h, "pSelect")
    /\ UNCHANGED <<specs, applied, memory, todo, history>>
PrepareStartUnwritten(h) ==
    /\ pc[h] = "pStart" /\ seen[h][claim[h]] # "PrepareCompleted"
    /\ Goto(h, "pSelect")
    /\ UNCHANGED <<host, memory, todo, history>>

PrepareStart(h) ==
    /\ pc[h] = "pStart" /\ seen[h][claim[h]] # "PrepareCompleted"
    /\ WriteStarted(h)
    /\ told' = [told EXCEPT ![claim[h]] = IF @ = "prepared" THEN @ ELSE "nothing"]
    /\ Goto(h, "pSelect")
    /\ UNCHANGED <<specs, applied, memory, todo, torn>>

\* A completed claim is answered from the copy: a noop but for WriteStarted.
PrepareRepeated(h) ==
    /\ pc[h] = "pStart" /\ seen[h][claim[h]] = "PrepareCompleted"
    /\ WriteStarted(h)
    /\ Return(h) /\ Tell(claim[h], "prepared")
    /\ UNCHANGED <<specs, applied, memory, torn>>

\* prepareDevices chooses a config for every result, provided the claim is well
\* formed and each of its devices is one the node has.
Selectable(c) == c \notin Rejected /\ DevicesOfClaim(c) \subseteq allocatable

SelectConfigs(h) ==
    /\ pc[h] = "pSelect" /\ Selectable(claim[h])
    /\ Goto(h, "pApply")
    /\ todo' = [todo EXCEPT ![h] = GroupsOf[claim[h]]]
    /\ UNCHANGED <<host, memory, history>>

RejectClaim(h) ==
    /\ pc[h] = "pSelect" /\ ~Selectable(claim[h])
    /\ Return(h)
    /\ UNCHANGED <<host, memory, history>>

\* The apply loop ranges over a Go map: any order.  HAMi replaces the claim
\* directory and only logs an error of RemoveAll, MkdirAll or Chmod.
ApplyGroup(h) ==
    /\ pc[h] = "pApply"
    /\ \E g \in todo[h] \ BadConfig :
        LET trace == Footprint(claim[h], g) IN
        /\ Applies(g) \subseteq built
        /\ \/ applied' = applied \cup trace
           \/ Hami /\ Fault("hostdir") /\ applied' \in {applied, applied \ trace}
        /\ todo' = [todo EXCEPT ![h] = @ \ {g}]
    /\ Goto(h, "pApply")
    /\ UNCHANGED <<checkpoint, specs, memory, history>>

\* Variant: a manager's error is logged and the loop goes on.
ApplyErrorIgnored(h) ==
    /\ pc[h] = "pApply"
    /\ \E g \in todo[h] : todo' = [todo EXCEPT ![h] = @ \ {g}]
    /\ Goto(h, "pApply")
    /\ UNCHANGED <<host, memory, history>>

\* A config that does not validate, or a manager that fails part way: the traces
\* of the groups applied so far, and perhaps of this one, stay.
ApplyFails(h) ==
    /\ pc[h] = "pApply"
    /\ \E g \in todo[h] :
        \/ g \in BadConfig /\ UNCHANGED applied
        \/ /\ g \notin BadConfig /\ Configures(g) /\ Applies(g) \subseteq built /\ ~Hami /\ Fault("apply")
           /\ applied' \in {applied, applied \cup Footprint(claim[h], g)}
    /\ Return(h)
    /\ UNCHANGED <<checkpoint, specs, memory, history>>

\* With PassthroughSupport: the siblings of the claim's devices, as far as these
\* are allocatable themselves.
TwinsOf(c) == IF Passthrough THEN SiblingsOf(DevicesOfClaim(c) \cap allocatable) ELSE {}

\* Variants: no sibling is hidden; only those of full GPUs are.
HideNothing(h) ==
    /\ pc[h] = "pApply" /\ todo[h] = {}
    /\ Goto(h, "pSpec")
    /\ UNCHANGED <<host, memory, todo, history>>
HideForGpusOnly(h) ==
    /\ pc[h] = "pApply" /\ todo[h] = {}
    /\ allocatable' = allocatable \ SiblingsOf({d \in DevicesOfClaim(claim[h]) : TypeOf[d] = "gpu"})
    /\ Goto(h, "pSpec")
    /\ UNCHANGED <<host, up, built, todo, history>>

\* Every group is applied: RemoveSiblingDevices for each prepared device.
HideSiblings(h) ==
    /\ pc[h] = "pApply" /\ todo[h] = {}
    /\ allocatable' = allocatable \ TwinsOf(claim[h])
    /\ Goto(h, "pSpec")
    /\ UNCHANGED <<host, up, built, todo, history>>

CreateSpec(h) ==
    /\ pc[h] = "pSpec"
    /\ specs' = IF HasEdits(claim[h]) THEN specs \cup {claim[h]} ELSE specs
    /\ Goto(h, "pDone")
    /\ UNCHANGED <<checkpoint, applied, memory, todo, history>>

PrepareComplete(h) ==
    /\ pc[h] = "pDone"
    /\ checkpoint' = [checkpoint EXCEPT ![claim[h]] = "PrepareCompleted"]
    /\ Return(h) /\ Tell(claim[h], "prepared")
    /\ torn' = torn \ {claim[h]}
    /\ UNCHANGED <<specs, applied, memory>>

----------------------------------------------------------------------------
\* Unprepare.

\* Only a completed claim has anything to undo.
UnprepareRead(h) ==
    /\ pc[h] = "uLock" /\ checkpoint[claim[h]] = "PrepareCompleted"
    /\ LockAndRead(h)
    /\ pc' = [pc EXCEPT ![h] = "uClean"]
    /\ todo' = [todo EXCEPT ![h] = GroupsOf[claim[h]]]
    /\ Tell(claim[h], "nothing")
    /\ UNCHANGED <<host, memory, claim, torn>>

\* The call succeeds at once for a claim that is unknown, and for one whose
\* preparation started and did not complete.
UnprepareNoop(h) ==
    /\ pc[h] = "uLock" /\ lock = None
    /\ checkpoint[claim[h]] # "PrepareCompleted"
    /\ Return(h) /\ Tell(claim[h], "unprepared")
    /\ UNCHANGED <<host, memory, torn>>

\* unprepareVfioDevices finds the device among the allocatable ones.
Reachable(g) == Vfio(g) /\ Passthrough => DevicesOf[g] \subseteq allocatable

CleanGroup(h) ==
    /\ pc[h] = "uClean"
    /\ \E g \in todo[h] :
        /\ Reachable(g) /\ Unapplies(g) \subseteq built
        /\ \/ applied' = applied \ Footprint(claim[h], g)
           \/ Hami /\ Fault("hostdir") /\ UNCHANGED applied
        /\ todo' = [todo EXCEPT ![h] = @ \ {g}]
    /\ torn' = torn \cup {claim[h]}
    /\ Goto(h, "uClean")
    /\ UNCHANGED <<checkpoint, specs, memory, told>>

\* Variant: the error of a manager is logged and the rest is undone.
CleanErrorIgnored(h) ==
    /\ pc[h] = "uClean" /\ todo[h] # {}
    /\ torn' = torn \cup {claim[h]}
    /\ todo' = [todo EXCEPT ![h] = {}]
    /\ Goto(h, "uClean")
    /\ UNCHANGED <<host, memory, told>>

CleanFails(h) ==
    /\ pc[h] = "uClean"
    /\ \E g \in todo[h] :
        \/ ~Reachable(g) /\ UNCHANGED applied
        \/ /\ Reachable(g) /\ Unapplies(g) # {} /\ Unapplies(g) \subseteq built /\ ~Hami /\ Fault("cleanup")
           /\ applied' \in {applied, applied \ Footprint(claim[h], g)}
    /\ torn' = torn \cup {claim[h]}
    /\ Return(h)
    /\ UNCHANGED <<checkpoint, specs, memory, told>>

\* Variant: the loop ends after the first group.
FirstClean(h) ==
    /\ pc[h] = "uClean"
    /\ Goto(h, "uDiscover")
    /\ UNCHANGED <<host, memory, todo, history>>

AllClean(h) ==
    /\ pc[h] = "uClean" /\ todo[h] = {}
    /\ Goto(h, "uDiscover")
    /\ UNCHANGED <<host, memory, todo, history>>

\* discoverSiblingAllocatables for each device that is still allocatable.
RediscoverSiblings(h) ==
    /\ pc[h] = "uDiscover"
    /\ allocatable' = allocatable \cup TwinsOf(claim[h])
    /\ torn' = torn \cup {claim[h]}
    /\ Goto(h, "uSpec")
    /\ UNCHANGED <<host, up, built, todo, told>>

\* The GPU behind a vfio device is not found again: the devices before it in the
\* list have their siblings back, the call ends in an error.
DiscoverFails(h) ==
    LET mine == DevicesOfClaim(claim[h]) \cap allocatable IN
    /\ pc[h] = "uDiscover" /\ Passthrough /\ Fault("discover")
    /\ \E d \in mine : /\ TypeOf[d] = "vfio"
                       /\ \E before \in SUBSET (mine \ {d}) :
                            allocatable' = allocatable \cup SiblingsOf(before)
    /\ torn' = torn \cup {claim[h]}
    /\ Return(h)
    /\ UNCHANGED <<host, up, built, told>>

DeleteSpec(h) ==
    /\ pc[h] = "uSpec"
    /\ specs' = specs \ {claim[h]}
    /\ torn' = torn \cup {claim[h]}
    /\ Goto(h, "uForget")
    /\ UNCHANGED <<checkpoint, applied, memory, todo, told>>

\* The copy read at the start is written back without the claim.
UnprepareForget(h) ==
    /\ pc[h] = "uForget"
    /\ checkpoint' = [seen[h] EXCEPT ![claim[h]] = "Absent"]
    /\ torn' = torn \ {claim[h]}
    /\ Return(h) /\ Tell(claim[h], "unprepared")
    /\ UNCHANGED <<specs, applied, memory>>

----------------------------------------------------------------------------
\* Errors, crashes and restarts.

\* The checkpoint cannot be read (before anything is done) or written.
CheckpointFails(h) ==
    /\ Fault("checkpoint")
    /\ \/ pc[h] \in {"pLock", "uLock"} /\ lock = None
       \/ pc[h] \in {"pStart", "pDone", "uForget"}
    /\ Return(h)
    /\ UNCHANGED <<host, memory, history>>

\* The CDI spec file cannot be written or removed.
SpecFails(h) ==
    /\ Fault("spec")
    /\ \/ pc[h] = "pSpec" /\ HasEdits(claim[h])
       \/ pc[h] = "uSpec"
    /\ Return(h)
    /\ UNCHANGED <<host, memory, history>>

Die ==
    /\ up' = FALSE /\ built' = {} /\ allocatable' = {} /\ lock' = None
    /\ pc' = [h \in Handlers |-> "idle"]
    /\ claim' = [h \in Handlers |-> None]
    /\ seen' = [h \in Handlers |-> Blank]
    /\ todo' = [h \in Handlers |-> {}]
    /\ UNCHANGED <<host, history>>

Crash == up /\ Fault("crash") /\ Die

\* A gate is enabled and its manager is a nil pointer: the goroutine panics and
\* takes the process down.
Panic(h) ==
    /\ \E g \in todo[h] :
        \/ pc[h] = "pApply" /\ g \notin BadConfig /\ ~(Applies(g) \subseteq built)
        \/ pc[h] = "uClean" /\ Reachable(g) /\ ~(Unapplies(g) \subseteq built)
    /\ Die

\* Devices of GPUs that are bound to vfio-pci, and who had them bound.
BoundBy(c) ==
    {d \in Devices : \E g \in Groups : /\ <<c, g>> \in applied /\ Vfio(g)
                                       /\ \E e \in DevicesOf[g] : BusOf[e] = BusOf[d]}
BoundDevices == UNION {BoundBy(c) : c \in Claims}

\* NewDeviceState enumerates anew: what Prepare hid is back.  A GPU that amdgpu
\* does not drive may be missing, with its vfio device.
Boot ==
    /\ ~up /\ up' = TRUE /\ built' \in Builds
    /\ \E lost \in SUBSET {BusOf[d] : d \in BoundDevices} :
        allocatable' = {d \in Enumerated : BusOf[d] \notin lost}
    /\ UNCHANGED <<host, handler, history>>

----------------------------------------------------------------------------
Acquire(h) == PrepareRead(h) \/ UnprepareRead(h) \/ UnprepareNoop(h)

Step(h) ==
    \/ PrepareStart(h) \/ PrepareRepeated(h) \/ SelectConfigs(h) \/ RejectClaim(h)
    \/ ApplyGroup(h) \/ ApplyFails(h) \/ HideSiblings(h) \/ CreateSpec(h) \/ PrepareComplete(h)
    \/ CleanGroup(h) \/ CleanFails(h) \/ AllClean(h) \/ RediscoverSiblings(h)
    \/ DiscoverFails(h) \/ DeleteSpec(h) \/ UnprepareForget(h)
    \/ CheckpointFails(h) \/ SpecFails(h)

Next ==
    \/ \E h \in Handlers : Call(h) \/ Acquire(h) \/ Step(h) \/ Panic(h)
    \/ Crash \/ Boot

Spec == Init /\ [][Next]_vars

----------------------------------------------------------------------------
\* Properties.

HasTraces(c) == c \in specs \/ \E u \in Units : <<c, u>> \in applied

\* Nothing of a claim is on the host without an entry in the checkpoint: a claim
\* missing there "was never prepared or has already been unprepared".
WriteAhead == \A c \in Claims : HasTraces(c) => checkpoint[c] # "Absent"

\* A claim's entry changes only in a step of a handler that serves it: writing
\* back a whole copy of the checkpoint, read some steps ago, loses no update.
OtherEntriesUntouched ==
    [][\A c \in Claims : checkpoint'[c] # checkpoint[c] =>
          \E h \in Handlers : claim[h] = c /\ pc'[h] # pc[h]]_vars

\* What a prepared claim needs is there: every config's trace, and the spec file.
Real(c) ==
    /\ Footprints(c, GroupsOf[c]) \subseteq applied
    /\ HasEdits(c) => c \in specs

\* A claim the kubelet was told is prepared is so, whatever other calls, repeated
\* calls, failures and restarts happen, until an Unprepare takes it apart.
GrantedIsReal == \A c \in Claims : told[c] = "prepared" /\ c \notin torn => Real(c)

\* After a successful Unprepare nothing of the claim is left on the host, unless
\* the journal holds it as started: those the code leaves as they are.
ReleasedIsClean ==
    \A c \in Claims : told[c] = "unprepared" =>
        ~HasTraces(c) \/ checkpoint[c] = "PrepareStarted"

\* While a GPU is prepared for one claim, its VFIO twin is prepared for no other.
\* (Within one run of the process: a restart shows the hidden twin again.)
NoSiblingConflict ==
    \A c, d \in Claims :
        /\ told[c] = "prepared" /\ c \notin torn
        /\ told[d] = "prepared" /\ d \notin torn
        => DevicesOfClaim(d) \cap SiblingsOf(DevicesOfClaim(c)) = {}

\* "actual device preparation must happen at most once" (device_state.go:199): no
\* config is applied again for a claim already handed out.
AtMostOnce ==
    \A h \in Handlers : pc[h] = "pApply" => told[claim[h]] # "prepared"

\* The journal view: a claim has traces or not.
Journal == INSTANCE ClaimJournal
    WITH journal <- checkpoint, traces <- {c \in Claims : HasTraces(c)}
ImplementsJournal == Journal!Spec
====
