---- MODULE MpsDaemon ----
(***************************************************************************)
(* MpsControlDaemon and TimeSlicingManager of                              *)
(* cmd/hami-kubelet-plugin/sharing.go: starting and stopping the control   *)
(* daemon of a claim, step by step, and setting the compute mode and the   *)
(* time slice of its GPUs.  MPSSupport is enabled.                         *)
(*                                                                         *)
(* The plugin serves one call at a time (the mutex of DeviceState), so     *)
(* there is one pc.  Each claim is allocated once, and prepared and        *)
(* unprepared any number of times while it is; two claims hold the same    *)
(* GPU only one after the other.  A claim has one group of GPUs.           *)
(***************************************************************************)
EXTENDS Naturals

CONSTANTS
    Claims, Gpus, None,
    GpusOf,         \* claim -> its GPUs
    SharingOf,      \* claim -> "mps" or "timeSlicing"
    TimeSlicing,    \* the gate TimeSlicingSettings is enabled
    MaxFaults       \* bound: how many steps fail or crash

ASSUME ClaimAssumption == None \notin Claims
ASSUME SharingAssumption ==
    /\ GpusOf \in [Claims -> SUBSET Gpus]
    /\ SharingOf \in [Claims -> {"mps", "timeSlicing"}]
    /\ TimeSlicing \in BOOLEAN
ASSUME BoundAssumption == MaxFaults \in Nat

VARIABLES
    \* in the cluster
    deployment,     \* claim -> its daemon's deployment: "none", "running", "deleting"
    ready,          \* claims with one ready replica
    \* on the host
    root,           \* claims whose rootDir exists, with shm, pipe and log
    mounts,         \* claim -> how many tmpfs are mounted on shm
    mode,           \* GPU -> its compute mode
    slice,          \* GPU -> its time slice
    entry,          \* claim -> its entry in the checkpoint
    \* in the plugin
    pc, serving,    \* the step it is at, and for which claim
    \* at the kubelet
    alloc,          \* claim -> "new", "held", "dying" (only to be unprepared), "gone"
    told,           \* claim -> what the last call said
    \* how many more steps fail
    left,
    \* history: completed claims that an Unprepare began to take apart
    torn

cluster == <<deployment, ready>>
gpus == <<mode, slice>>
plugin == <<pc, serving>>
kubelet == <<alloc, told>>
vars == <<cluster, root, mounts, gpus, entry, plugin, kubelet, left, torn>>

StartPCs == {"check", "mkdir", "mount", "exclusive", "create", "assert", "complete"}
StopPCs == {"stat", "delete", "unmount", "remove", "reset", "forget"}
PCs == {"idle", "slice"} \cup StartPCs \cup StopPCs
Modes == {"DEFAULT", "EXCLUSIVE_PROCESS"}
Slices == {"Default", "Chosen"}

\* The types of the variables.
TypeOK ==
    /\ deployment \in [Claims -> {"none", "running", "deleting"}]
    /\ ready \subseteq Claims /\ root \subseteq Claims
    /\ mounts \in [Claims -> Nat]
    /\ mode \in [Gpus -> Modes] /\ slice \in [Gpus -> Slices]
    /\ entry \in [Claims -> {"Absent", "PrepareStarted", "PrepareCompleted"}]
    /\ pc \in PCs /\ serving \in Claims \cup {None}
    /\ pc # "idle" => serving # None
    /\ alloc \in [Claims -> {"new", "held", "dying", "gone"}]
    /\ told \in [Claims -> {"nothing", "prepared", "unprepared"}]
    /\ left \in 0..MaxFaults
    /\ torn \subseteq Claims

Init ==
    /\ deployment = [c \in Claims |-> "none"] /\ ready = {}
    /\ root = {} /\ mounts = [c \in Claims |-> 0]
    /\ mode = [g \in Gpus |-> "DEFAULT"] /\ slice = [g \in Gpus |-> "Default"]
    /\ entry = [c \in Claims |-> "Absent"]
    /\ pc = "idle" /\ serving = None
    /\ alloc = [c \in Claims |-> "new"] /\ told = [c \in Claims |-> "nothing"]
    /\ left = MaxFaults /\ torn = {}

----------------------------------------------------------------------------
\* The step from one label to the next, for the claim being served.
At(label, next) == pc = label /\ pc' = next /\ UNCHANGED serving
Return == pc' = "idle" /\ serving' = None

SetModes(c, m) == mode' = [g \in Gpus |-> IF g \in GpusOf[c] THEN m ELSE mode[g]]
SetSlices(c, s) == slice' = [g \in Gpus |-> IF g \in GpusOf[c] THEN s ELSE slice[g]]

\* The loops over the GPUs stop at the first that fails.
SomeModes(c, m) ==
    \E done \in SUBSET GpusOf[c] : mode' = [g \in Gpus |-> IF g \in done THEN m ELSE mode[g]]
SomeSlices(c, s) ==
    \E done \in SUBSET GpusOf[c] : slice' = [g \in Gpus |-> IF g \in done THEN s ELSE slice[g]]

\* Prepare, up to applySharingConfig.  (DeviceState has the details.)
CallPrepare(c) ==
    /\ pc = "idle" /\ alloc[c] = "held"
    /\ entry' = [entry EXCEPT ![c] = "PrepareStarted"]
    /\ \/ /\ entry[c] = "PrepareCompleted"
          /\ told' = [told EXCEPT ![c] = "prepared"]
          /\ UNCHANGED plugin
       \/ /\ entry[c] # "PrepareCompleted"
          /\ pc' = IF SharingOf[c] = "mps" THEN "check"
                   ELSE IF TimeSlicing THEN "slice" ELSE "complete"
          /\ serving' = c
          /\ told' = [told EXCEPT ![c] = IF @ = "unprepared" THEN "nothing" ELSE @]
    /\ UNCHANGED <<cluster, root, mounts, gpus, alloc, left, torn>>

\* Unprepare, up to unprepareDevices: only a completed claim is taken apart.
CallUnprepare(c) ==
    /\ pc = "idle" /\ alloc[c] \in {"held", "dying"}
    /\ \/ /\ entry[c] = "PrepareCompleted"
          /\ pc' = "stat" /\ serving' = c
          /\ told' = [told EXCEPT ![c] = "nothing"]
          /\ torn' = torn \cup {c}
       \/ /\ entry[c] # "PrepareCompleted"
          /\ told' = [told EXCEPT ![c] = "unprepared"]
          /\ UNCHANGED <<plugin, torn>>
    /\ UNCHANGED <<cluster, root, mounts, gpus, entry, alloc, left>>

----------------------------------------------------------------------------
\* SetTimeSlice for a claim with time slicing.
SetTimeSlice ==
    /\ At("slice", "complete")
    /\ SetModes(serving, "DEFAULT") /\ SetSlices(serving, "Chosen")
    /\ UNCHANGED <<cluster, root, mounts, entry, kubelet, left, torn>>

\* Variant: a deployment without a ready replica does not count.
IsStartedIfReady ==
    /\ \/ At("check", "assert") /\ serving \in ready
       \/ At("check", "mkdir") /\ serving \notin ready
    /\ UNCHANGED <<cluster, root, mounts, gpus, entry, kubelet, left, torn>>

\* Start returns at once when the deployment is found, even one being deleted.
IsStarted ==
    /\ \/ At("check", "assert") /\ deployment[serving] # "none"
       \/ At("check", "mkdir") /\ deployment[serving] = "none"
    /\ UNCHANGED <<cluster, root, mounts, gpus, entry, kubelet, left, torn>>

MakeDirs ==
    /\ At("mkdir", "mount")
    /\ root' = root \cup {serving}
    /\ UNCHANGED <<cluster, mounts, gpus, entry, kubelet, left, torn>>

\* Mounting never looks whether shm is a mount point already.
Mount ==
    /\ At("mount", "exclusive")
    /\ mounts' = [mounts EXCEPT ![serving] = @ + 1]
    /\ UNCHANGED <<cluster, root, gpus, entry, kubelet, left, torn>>

\* Variant: the compute mode is left to the daemon.
SetNoMode ==
    /\ At("exclusive", "create")
    /\ UNCHANGED <<cluster, root, mounts, gpus, entry, kubelet, left, torn>>

SetExclusive ==
    /\ At("exclusive", "create")
    /\ SetModes(serving, "EXCLUSIVE_PROCESS") /\ UNCHANGED slice
    /\ UNCHANGED <<cluster, root, mounts, entry, kubelet, left, torn>>

Create ==
    /\ At("create", "assert")
    /\ deployment' = [deployment EXCEPT ![serving] = "running"]
    /\ UNCHANGED <<ready, root, mounts, gpus, entry, kubelet, left, torn>>

AssertReady ==
    /\ At("assert", "complete") /\ serving \in ready
    /\ UNCHANGED <<cluster, root, mounts, gpus, entry, kubelet, left, torn>>

\* Four attempts, each twice as long after the last, and no ready replica.
NotReady ==
    /\ pc = "assert" /\ serving \notin ready
    /\ Return
    /\ UNCHANGED <<cluster, root, mounts, gpus, entry, kubelet, left, torn>>

Complete ==
    /\ pc = "complete"
    /\ entry' = [entry EXCEPT ![serving] = "PrepareCompleted"]
    /\ told' = [told EXCEPT ![serving] = "prepared"]
    /\ torn' = torn \ {serving}
    /\ Return
    /\ UNCHANGED <<cluster, root, mounts, gpus, alloc, left>>

----------------------------------------------------------------------------
\* Stop does nothing without a rootDir.
FindRoot ==
    /\ \/ At("stat", "delete") /\ serving \in root
       \/ At("stat", "reset") /\ serving \notin root
    /\ UNCHANGED <<cluster, root, mounts, gpus, entry, kubelet, left, torn>>

\* The deletion is in the foreground: the deployment stays until its pods are gone.
MarkDeleted ==
    deployment' = [deployment EXCEPT ![serving] = IF @ = "none" THEN @ ELSE "deleting"]

\* Variant: the deployment is left to the garbage collector.
DeleteNothing ==
    /\ At("delete", "unmount")
    /\ UNCHANGED <<cluster, root, mounts, gpus, entry, kubelet, left, torn>>

\* Variant: a deployment that is not found is an error like any other.
DeleteExisting ==
    /\ pc = "delete"
    /\ \/ deployment[serving] # "none" /\ At("delete", "unmount")
       \/ deployment[serving] = "none" /\ Return
    /\ MarkDeleted
    /\ UNCHANGED <<ready, root, mounts, gpus, entry, kubelet, left, torn>>

Delete ==
    /\ At("delete", "unmount")
    /\ MarkDeleted
    /\ UNCHANGED <<ready, root, mounts, gpus, entry, kubelet, left, torn>>

\* Variants of Unmount: shm is taken to be a mount point; what is left of a
\* stack of mounts is not looked at.
UnmountUnchecked ==
    /\ At("unmount", "remove")
    /\ mounts' = [mounts EXCEPT ![serving] = @ - 1]
    /\ UNCHANGED <<cluster, root, gpus, entry, kubelet, left, torn>>

UnmountOnce ==
    /\ At("unmount", "remove")
    /\ mounts' = [mounts EXCEPT ![serving] = IF @ = 0 THEN 0 ELSE @ - 1]
    /\ UNCHANGED <<cluster, root, gpus, entry, kubelet, left, torn>>

\* CleanupMountPoint unmounts once if shm is a mount point, and fails when it
\* still is one afterwards.
Unmount ==
    /\ pc = "unmount"
    /\ mounts' = [mounts EXCEPT ![serving] = IF @ = 0 THEN 0 ELSE @ - 1]
    /\ \/ mounts[serving] <= 1 /\ At("unmount", "remove")
       \/ mounts[serving] > 1 /\ Return
    /\ UNCHANGED <<cluster, root, gpus, entry, kubelet, left, torn>>

RemoveRoot ==
    /\ At("remove", "reset")
    /\ root' = root \ {serving}
    /\ UNCHANGED <<cluster, mounts, gpus, entry, kubelet, left, torn>>

\* Variant: the time slice goes back, the compute mode does not.
ResetSlice ==
    /\ At("reset", "forget")
    /\ UNCHANGED mode /\ SetSlices(serving, "Default")
    /\ UNCHANGED <<cluster, root, mounts, entry, kubelet, left, torn>>

\* SetTimeSlice with the default, and nothing without the gate.
Reset ==
    /\ At("reset", "forget")
    /\ IF TimeSlicing
       THEN SetModes(serving, "DEFAULT") /\ SetSlices(serving, "Default")
       ELSE UNCHANGED gpus
    /\ UNCHANGED <<cluster, root, mounts, entry, kubelet, left, torn>>

\* The rest of Unprepare: the entry is deleted.
Forget ==
    /\ pc = "forget"
    /\ entry' = [entry EXCEPT ![serving] = "Absent"]
    /\ told' = [told EXCEPT ![serving] = "unprepared"]
    /\ torn' = torn \ {serving}
    /\ Return
    /\ UNCHANGED <<cluster, root, mounts, gpus, alloc, left>>

----------------------------------------------------------------------------
\* SetTimeSlice stops in the middle: in the modes, or in the slices.
SliceInPart(c, s) ==
    \/ SomeModes(c, "DEFAULT") /\ UNCHANGED slice
    \/ SetModes(c, "DEFAULT") /\ SomeSlices(c, s)

\* What a failing step leaves behind.
InPart ==
    \/ /\ pc \in {"check", "mount", "assert", "complete", "unmount", "remove", "forget"}
       /\ UNCHANGED <<cluster, root, gpus>>
    \/ /\ pc = "mkdir"
       /\ root' \in {root, root \cup {serving}}
       /\ UNCHANGED <<cluster, gpus>>
    \/ /\ pc = "exclusive"
       /\ SomeModes(serving, "EXCLUSIVE_PROCESS")
       /\ UNCHANGED <<cluster, root, slice>>
    \/ /\ pc = "create"
       /\ deployment' \in {deployment, [deployment EXCEPT ![serving] = "running"]}
       /\ UNCHANGED <<ready, root, gpus>>
    \/ /\ pc = "delete"
       /\ MarkDeleted \/ UNCHANGED deployment
       /\ UNCHANGED <<ready, root, gpus>>
    \/ /\ pc = "slice" /\ SliceInPart(serving, "Chosen")
       /\ UNCHANGED <<cluster, root>>
    \/ /\ pc = "reset" /\ TimeSlicing /\ SliceInPart(serving, "Default")
       /\ UNCHANGED <<cluster, root>>

\* A step fails and the call returns its error, or the process dies in it.
Fail ==
    /\ left > 0 /\ left' = left - 1
    /\ InPart
    /\ Return
    /\ UNCHANGED <<mounts, entry, kubelet, torn>>

\* The process dies between two steps.
Crash ==
    /\ left > 0 /\ left' = left - 1
    /\ pc # "idle" /\ Return
    /\ UNCHANGED <<cluster, root, mounts, gpus, entry, kubelet, torn>>

----------------------------------------------------------------------------
\* The cluster runs the daemon's pod, and at last removes a deleted deployment.
BecomeReady(c) ==
    /\ deployment[c] = "running" /\ ready' = ready \cup {c}
    /\ UNCHANGED <<deployment, root, mounts, gpus, entry, plugin, kubelet, left, torn>>

LoseReady(c) ==
    /\ c \in ready /\ ready' = ready \ {c}
    /\ UNCHANGED <<deployment, root, mounts, gpus, entry, plugin, kubelet, left, torn>>

Deleted(c) ==
    /\ deployment[c] = "deleting"
    /\ deployment' = [deployment EXCEPT ![c] = "none"] /\ ready' = ready \ {c}
    /\ UNCHANGED <<root, mounts, gpus, entry, plugin, kubelet, left, torn>>

\* A GPU is allocated to one claim at a time, until that claim is unprepared.
Allocate(c) ==
    /\ alloc[c] = "new"
    /\ \A d \in Claims : alloc[d] \in {"held", "dying"} => GpusOf[c] \cap GpusOf[d] = {}
    /\ alloc' = [alloc EXCEPT ![c] = "held"]
    /\ UNCHANGED <<cluster, root, mounts, gpus, entry, plugin, told, left, torn>>

GiveUp(c) ==
    /\ alloc[c] = "held" /\ alloc' = [alloc EXCEPT ![c] = "dying"]
    /\ UNCHANGED <<cluster, root, mounts, gpus, entry, plugin, told, left, torn>>

Release(c) ==
    /\ alloc[c] = "dying" /\ told[c] = "unprepared"
    /\ alloc' = [alloc EXCEPT ![c] = "gone"]
    /\ UNCHANGED <<cluster, root, mounts, gpus, entry, plugin, told, left, torn>>

----------------------------------------------------------------------------
StartStep ==
    SetTimeSlice \/ IsStarted \/ MakeDirs \/ Mount \/ SetExclusive \/ Create
        \/ AssertReady \/ NotReady \/ Complete
StopStep == FindRoot \/ Delete \/ Unmount \/ RemoveRoot \/ Reset \/ Forget

Next ==
    \/ StartStep \/ StopStep \/ Fail \/ Crash
    \/ \E c \in Claims :
          \/ CallPrepare(c) \/ CallUnprepare(c)
          \/ BecomeReady(c) \/ LoseReady(c) \/ Deleted(c)
          \/ Allocate(c) \/ GiveUp(c) \/ Release(c)

Spec == Init /\ [][Next]_vars

\* Steps are not held up for ever: execs and API calls return, and AssertReady
\* gives up after four attempts.  The kubelet retries the Unprepare of a claim
\* whose pods are gone, and the mutex goes to a waiting call in the end.
FairSpec ==
    /\ Spec
    /\ WF_vars(StartStep) /\ WF_vars(StopStep)
    /\ \A c \in Claims :
          SF_vars(alloc[c] = "dying" /\ CallUnprepare(c)) /\ WF_vars(Release(c))

----------------------------------------------------------------------------
\* Start returns early when the deployment exists, without looking at what it
\* needs: a running daemon has its directories and its tmpfs, whatever failed
\* or crashed before and whichever calls were repeated.
SetUp == \A c \in Claims : deployment[c] = "running" => c \in root /\ mounts[c] > 0

\* Stop returns early without a rootDir, and Unprepare without an entry: then
\* nothing they would have taken apart is there.
Accounted ==
    \A c \in Claims :
        /\ entry[c] = "Absent" => c \notin root
        /\ c \notin root => mounts[c] = 0 /\ deployment[c] # "running"

\* Unprepare goes "back to default time-slicing for all full GPUs": a GPU that
\* no entry of the checkpoint stands for is as it was at first.
FreeGpuDefault ==
    TimeSlicing =>
        \A g \in Gpus :
            (\A c \in Claims : g \in GpusOf[c] => entry[c] = "Absent")
                => mode[g] = "DEFAULT" /\ slice[g] = "Default"

\* MPS needs EXCLUSIVE_PROCESS: the GPUs of an allocated claim keep that mode as
\* long as its daemon runs, though other claims and failing steps set modes too.
DaemonExclusive ==
    \A c \in Claims :
        deployment[c] = "running" /\ alloc[c] \in {"held", "dying"} =>
            \A g \in GpusOf[c] : mode[g] = "EXCLUSIVE_PROCESS"

\* Every failed step leaves at most one more tmpfs over the first.
StackBounded == \A c \in Claims : mounts[c] + left <= MaxFaults + 1

\* A claim whose pods are gone is unprepared in the end, though every attempt at
\* Stop takes only one tmpfs off a stack of them.
Unprepared == \A c \in Claims : alloc[c] = "dying" ~> alloc[c] = "gone"

\* "Set compute mode to EXCLUSIVE_PROCESS for MPS" (Start): so it is for a claim
\* the kubelet was told is prepared.
PreparedExclusive ==
    \A c \in Claims :
        (/\ SharingOf[c] = "mps" /\ alloc[c] = "held"
         /\ told[c] = "prepared" /\ c \notin torn)
            => \A g \in GpusOf[c] : mode[g] = "EXCLUSIVE_PROCESS"

HasTraces(c) == c \in root \/ mounts[c] > 0 \/ deployment[c] = "running"

\* Start and Stop go by the journal of claims that DeviceState keeps: a daemon, its
\* tmpfs and its directories come under a started entry and go under a completed
\* one, which is not dropped before they are gone, though both return early and
\* every step may fail.  (A deployment that is being deleted counts as gone.)
Journal == INSTANCE ClaimJournal
    WITH journal <- entry, traces <- {c \in Claims : HasTraces(c)}
ImplementsJournal == Journal!Spec
====
