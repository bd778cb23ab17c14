---- MODULE VfioPci ----
(***************************************************************************)
(* VfioPciManager of cmd/hami-kubelet-plugin/vfio-device.go: switching     *)
(* GPUs between amdgpu and vfio-pci by the two scripts, under one mutex    *)
(* per GPU (mutex.go), while processes open and close the GPUs and the     *)
(* kernel refuses some of the writes.                                      *)
(*                                                                         *)
(* rocmEnabled is TRUE, as in the only call of NewVfioPciManager.  The     *)
(* scripts are separate processes: they take several steps, and a plugin   *)
(* that is killed leaves behind what they have written so far.             *)
(***************************************************************************)
EXTENDS Naturals

CONSTANTS
    Gpus,
    Callers,        \* goroutines inside Configure or Unconfigure
    None,
    Wants,          \* the drivers that are asked for
    Starts,         \* the drivers GPUs may have when the plugin starts
    UnbindLock,     \* amdgpu offers an unbindLock file
    Faults,         \* which writes may fail
    MaxFaults       \* how often

Switchable == {"amdgpu", "vfio-pci"}
Drivers == Switchable \cup {"other", "none"}
AllFaults == {"vfs", "unbind", "override", "module", "bind", "crash"}

ASSUME CallerAssumption == None \notin Callers
ASSUME VfioAssumption ==
    /\ Wants \subseteq Switchable /\ Starts \subseteq Drivers
    /\ UnbindLock \in BOOLEAN /\ Faults \subseteq AllFaults
ASSUME BoundAssumption == MaxFaults \in Nat

VARIABLES
    \* in the kernel
    driver,     \* GPU -> the driver it is bound to
    override,   \* GPU -> its driver_override
    users,      \* GPUs whose render node some process has open
    pinned,     \* GPUs whose unbindLock is taken: none can open them
    \* in the plugin
    gpuLock,    \* GPU -> holder of its mutex in perGpuLock, or None
    pc, gpu, want,
    \* how many faults are left
    left,
    \* history: GPUs whose override no one cleared, because the process died or
    \* the driver to bind was missing
    orphaned

kernel == <<driver, override, users, pinned>>
plugin == <<gpuLock, pc, gpu, want>>
vars == <<kernel, plugin, left, orphaned>>

Inside == {"look", "wait", "verify", "unbind", "writeUnbind", "writeOverride", "writeBind", "ok", "failed"}

\* The types of the variables.
TypeOK ==
    /\ driver \in [Gpus -> Drivers]
    /\ override \in [Gpus -> Switchable \cup {""}]
    /\ users \subseteq Gpus /\ pinned \subseteq Gpus
    /\ gpuLock \in [Gpus -> Callers \cup {None}]
    /\ pc \in [Callers -> {"idle", "lock"} \cup Inside]
    /\ gpu \in [Callers -> Gpus]
    /\ want \in [Callers -> Switchable]
    /\ left \in 0..MaxFaults
    /\ orphaned \subseteq Gpus

Init ==
    /\ driver \in [Gpus -> Starts]
    /\ override = [g \in Gpus |-> ""]
    /\ users = {} /\ pinned = {}
    /\ gpuLock = [g \in Gpus |-> None]
    /\ pc = [c \in Callers |-> "idle"]
    /\ gpu \in [Callers -> Gpus] /\ want \in [Callers -> Wants]
    /\ left = MaxFaults /\ orphaned = {}

----------------------------------------------------------------------------
Goto(c, label) ==
    /\ pc' = [pc EXCEPT ![c] = label]
    /\ UNCHANGED <<gpuLock, gpu, want>>

Break(f) == f \in Faults /\ left > 0 /\ left' = left - 1

\* Configure asks for vfio-pci, Unconfigure for amdgpu.
Call(c) ==
    /\ pc[c] = "idle"
    /\ \E g \in Gpus, w \in Wants : gpu' = [gpu EXCEPT ![c] = g] /\ want' = [want EXCEPT ![c] = w]
    /\ pc' = [pc EXCEPT ![c] = "lock"]
    /\ UNCHANGED <<kernel, gpuLock, left, orphaned>>

\* Variant: the mutex is not shared between callers.
LockAlone(c) ==
    /\ pc[c] = "lock"
    /\ gpuLock' = [gpuLock EXCEPT ![gpu[c]] = c]
    /\ pc' = [pc EXCEPT ![c] = "look"]
    /\ UNCHANGED <<kernel, gpu, want, left, orphaned>>

Lock(c) ==
    /\ pc[c] = "lock" /\ gpuLock[gpu[c]] = None
    /\ gpuLock' = [gpuLock EXCEPT ![gpu[c]] = c]
    /\ pc' = [pc EXCEPT ![c] = "look"]
    /\ UNCHANGED <<kernel, gpu, want, left, orphaned>>

\* What to do about driver d when w is asked for.  A GPU without a driver has no
\* link to read: an error.
Verdict(d, w) ==
    CASE d = "none" -> "failed"
      [] d = w -> "ok"
      [] d # w /\ w = "amdgpu" -> "unbind"
      [] d = "amdgpu" /\ w = "vfio-pci" -> "wait"
      [] d = "other" /\ w = "vfio-pci" -> "failed"

Look(c) ==
    /\ pc[c] = "look"
    /\ Goto(c, Verdict(driver[gpu[c]], want[c]))
    /\ UNCHANGED <<kernel, left, orphaned>>

\* WaitForGPUFree asks fuser every second, for a minute; a failing fuser counts as
\* no.  It may say yes while the GPU is open: the node it asks about is made of the
\* amdsmi index, not of the GPU's DRM minor, and it is not asked about a GPU whose
\* info has no parent.
FoundFree(c) ==
    /\ pc[c] = "wait"
    /\ Goto(c, "verify")
    /\ UNCHANGED <<kernel, left, orphaned>>
TimedOut(c) ==
    /\ pc[c] = "wait"
    /\ Goto(c, "failed")
    /\ UNCHANGED <<kernel, left, orphaned>>

\* "vfs": the GPU has virtual functions, or amdsmi does not know it.
VerifyDisabledVFs(c) ==
    /\ pc[c] = "verify"
    /\ \/ Goto(c, "unbind") /\ UNCHANGED left
       \/ Break("vfs") /\ Goto(c, "failed")
    /\ UNCHANGED <<kernel, orphaned>>

----------------------------------------------------------------------------
\* unbind_from_driver.sh.  (That the GPU has no driver here cannot be: Look has
\* seen one, and the mutex is held.)

\* Variant: the lock is not asked for.
UnbindLockSkipped(c) ==
    /\ pc[c] = "unbind"
    /\ Goto(c, "writeUnbind")
    /\ UNCHANGED <<kernel, left, orphaned>>

\* acquire_unbind_lock.  The kernel grants the lock while no one uses the GPU.
NeedsUnbindLock(g) == UnbindLock /\ driver[g] = "amdgpu"

AcquireUnbindLock(c) ==
    /\ pc[c] = "unbind"
    /\ \/ /\ ~NeedsUnbindLock(gpu[c])
          /\ Goto(c, "writeUnbind") /\ UNCHANGED pinned
       \/ /\ NeedsUnbindLock(gpu[c]) /\ gpu[c] \notin users
          /\ pinned' = pinned \cup {gpu[c]}
          /\ Goto(c, "writeUnbind")
       \/ /\ NeedsUnbindLock(gpu[c]) /\ gpu[c] \in users
          /\ Goto(c, "failed") /\ UNCHANGED pinned
    /\ UNCHANGED <<driver, override, users, left, orphaned>>

\* A failing write is not noticed: the script returns 0.
WriteUnbind(c) ==
    /\ pc[c] = "writeUnbind"
    /\ \/ /\ driver' = [driver EXCEPT ![gpu[c]] = "none"]
          /\ pinned' = pinned \ {gpu[c]}
          /\ UNCHANGED left
       \/ Break("unbind") /\ UNCHANGED <<driver, pinned>>
    /\ Goto(c, "writeOverride")
    /\ UNCHANGED <<override, users, orphaned>>

----------------------------------------------------------------------------
\* bind_to_driver.sh.

\* Variant: the arguments are swapped.
WriteOverrideSwapped(c) ==
    /\ pc[c] = "writeOverride"
    /\ override' = [override EXCEPT ![gpu[c]] = driver[gpu[c]]]
    /\ Goto(c, "writeBind")
    /\ UNCHANGED <<driver, users, pinned, left, orphaned>>

\* When the driver has no bind file the override stays.
WriteOverride(c) ==
    /\ pc[c] = "writeOverride"
    /\ \/ /\ override' = [override EXCEPT ![gpu[c]] = want[c]]
          /\ \/ Goto(c, "writeBind") /\ orphaned' = orphaned \ {gpu[c]} /\ UNCHANGED left
             \/ Break("module") /\ Goto(c, "failed") /\ orphaned' = orphaned \cup {gpu[c]}
       \/ Break("override") /\ Goto(c, "failed") /\ UNCHANGED <<override, orphaned>>
    /\ UNCHANGED <<driver, users, pinned>>

WriteBind(c) ==
    /\ pc[c] = "writeBind" /\ driver[gpu[c]] = "none"
    /\ driver' = [driver EXCEPT ![gpu[c]] = want[c]]
    /\ Goto(c, "ok")
    /\ UNCHANGED <<override, users, pinned, left, orphaned>>

\* The kernel refuses a GPU that still has a driver, and may refuse any.
BindRefused(c) ==
    \/ driver[gpu[c]] # "none" /\ UNCHANGED left
    \/ Break("bind")

\* Variant: the override is kept.
BindFailsKeeping(c) ==
    /\ pc[c] = "writeBind"
    /\ BindRefused(c)
    /\ Goto(c, "failed")
    /\ UNCHANGED <<kernel, orphaned>>

\* The override is cleared.
BindFails(c) ==
    /\ pc[c] = "writeBind"
    /\ BindRefused(c)
    /\ override' = [override EXCEPT ![gpu[c]] = ""]
    /\ Goto(c, "failed")
    /\ UNCHANGED <<driver, users, pinned, orphaned>>

\* Variant: only a call that succeeds unlocks.
UnlockIfOk(c) ==
    /\ pc[c] \in {"ok", "failed"}
    /\ gpuLock' = [gpuLock EXCEPT ![gpu[c]] = IF pc[c] = "ok" THEN None ELSE @]
    /\ pc' = [pc EXCEPT ![c] = "idle"]
    /\ UNCHANGED <<kernel, gpu, want, left, orphaned>>

\* The deferred Unlock, whatever is returned.
Unlock(c) ==
    /\ pc[c] \in {"ok", "failed"}
    /\ gpuLock' = [gpuLock EXCEPT ![gpu[c]] = None]
    /\ pc' = [pc EXCEPT ![c] = "idle"]
    /\ UNCHANGED <<kernel, gpu, want, left, orphaned>>

----------------------------------------------------------------------------
\* Around the plugin.

OpenGpu(g) ==
    /\ driver[g] = "amdgpu" /\ g \notin pinned
    /\ users' = users \cup {g}
    /\ UNCHANGED <<driver, override, pinned, plugin, left, orphaned>>

CloseGpu(g) ==
    /\ g \in users
    /\ users' = users \ {g}
    /\ UNCHANGED <<driver, override, pinned, plugin, left, orphaned>>

\* The container is killed, with its scripts, and started again.
Crash ==
    /\ Break("crash")
    /\ gpuLock' = [g \in Gpus |-> None]
    /\ pc' = [c \in Callers |-> "idle"]
    /\ orphaned' = orphaned \cup {gpu[c] : c \in {d \in Callers : pc[d] = "writeBind"}}
    /\ UNCHANGED <<kernel, gpu, want>>

Step(c) ==
    \/ Look(c) \/ FoundFree(c) \/ TimedOut(c) \/ VerifyDisabledVFs(c)
    \/ AcquireUnbindLock(c) \/ WriteUnbind(c)
    \/ WriteOverride(c) \/ WriteBind(c) \/ BindFails(c) \/ Unlock(c)

Next ==
    \/ \E c \in Callers : Call(c) \/ Lock(c) \/ Step(c)
    \/ \E g \in Gpus : OpenGpu(g) \/ CloseGpu(g)
    \/ Crash

Spec == Init /\ [][Next]_vars

\* Scripts end, waiting is bounded, and the mutexes are served in turn.
FairSpec == Spec /\ \A c \in Callers : SF_vars(Lock(c)) /\ WF_vars(Step(c))

\* The kubelet goes on asking, for every GPU.
RetrySpec ==
    /\ FairSpec
    /\ \A g \in Gpus : SF_vars(\E c \in Callers : Call(c) /\ gpu'[c] = g)

----------------------------------------------------------------------------
\* Properties.

\* A call that succeeds leaves the GPU with the driver it was asked for, whatever
\* other callers do and whatever writes were refused without an error.
BoundAsAsked == \A c \in Callers : pc[c] = "ok" => driver[gpu[c]] = want[c]

\* When no call is at work on a GPU that has a driver, its driver_override does not
\* name another one: the next probe would take the GPU away from its user.  The
\* exceptions are the orphaned GPUs, and these only until the next switch.
OverrideFollows ==
    \A g \in Gpus \ orphaned :
        gpuLock[g] = None /\ driver[g] # "none" => override[g] \in {"", driver[g]}

\* With the unbindLock, amdgpu never loses a GPU that some process has open, whether
\* it was opened after fuser found the GPU free or fuser was wrong.
NoUserLosesGpu ==
    [][\A g \in Gpus : driver[g] = "amdgpu" /\ driver'[g] # "amdgpu" => g \notin users]_vars

\* Every call of Configure and Unconfigure returns.
Answered == \A c \in Callers : pc[c] # "idle" ~> pc[c] = "idle"

\* "Unconfigure binds the GPU to the amdgpu driver" (vfio-device.go:260): asked again
\* and again, it does so in the end, once writes no longer fail.
Restored == \A g \in Gpus : <>(driver[g] = "amdgpu")
====
