# Verification of the HAMi ROCm DRA kubelet plugin

TLA+ models, TLC runs and TLAPS proofs about `cmd/hami-kubelet-plugin`: the node
plugin that prepares GPU resource claims for the kubelet, alone (HAMi-core
sharing, time slicing, MPS) or passed through to a VM (vfio-pci).

## 1. The system

| Component | State | Operations | Hard behaviour |
|---|---|---|---|
| `DeviceState` (device_state.go) | the checkpoint file, `allocatable`, a mutex | `Prepare`, `Unprepare`, `NewDeviceState` | partial failure of every step, repeated and late calls, crash between the two checkpoint writes |
| Config selection (device_state.go) | none between calls | `GetOpaqueDeviceConfigs`, `prepareDevices` | precedence by source, order and type; map order |
| Allocatable devices (allocatable.go, nvlib.go) | name -> device | enumerate, hide siblings, rediscover siblings | the hidden set is not persisted; names follow an index that moves |
| Checkpoint (checkpoint.go, checkpointv.go) | one JSON file, V1 and V2 side by side | convert, checksum, verify | whole-file writes from copies read earlier; downgrades |
| HAMi-core (hami_core.go) | one directory per claim | container edits, `Cleanup` | errors dropped; limits numbered in map order |
| CDI (cdi.go) | spec files | create and delete claim specs, standard spec at start | a file for claims with container edits only; ids named in two places |
| RPC driver (driver.go) | `pulock`, the published slice | prepare and unprepare calls, publishing | concurrent calls, retries after a failed publish, start-up |
| VFIO (vfio-device.go, scripts/*.sh, mutex.go) | the driver a GPU is bound to | `Configure`, `Unconfigure` | unbind and bind are two steps with errors in between |
| Time slicing, MPS (sharing.go) | compute mode, a deployment, a tmpfs | `SetTimeSlice`, `Start`, `AssertReady`, `Stop` | retry after a failure in the middle of `Start` |
| Feature gates (pkg/featuregates) | which managers exist | `Enabled` | gates are consulted where managers are missing |
| Health (health.go) | none | `startHealthcheck`, `Check` | goes round the locks |
| Start (main.go, prestart scripts) | the process | start, signal, stop | restarts |

Interactions. The kubelet calls `PrepareResourceClaims` and
`UnprepareResourceClaims`; each claim goes through `nodePrepareResource` or
`nodeUnprepareResource` (mutex `pulock`) into `DeviceState.Prepare` or
`Unprepare` (its own mutex), which calls the managers, the CDI handler and the
checkpoint manager; the driver then publishes `allocatable`.  What survives the
process is the checkpoint file, the CDI files, and what the managers did to the
host.

What makes each part correct:
- the journal: every trace on the host has an entry; an entry is completed only
  after its devices are configured; one claim's update loses no other's;
- Prepare: a claim reported as prepared is complete;
- Unprepare: a claim reported as released has left nothing;
- siblings: a GPU is not granted as a GPU and as a VFIO device at once, and comes
  back when it is released;
- configs: each result gets the config that outranks the others, and no limit is lost;
- CDI: every id handed to the kubelet names one device of the claim's spec;
- driver: what is published is what the plugin would give; every call is answered;
- VFIO: success means bound, and a failure leaves nothing half switched;
- MPS: a claim's daemon has its directories and modes, and leaves none behind.

## 2. Modules

`ClaimJournal` is the abstract specification: a write-ahead journal of claims
and, per claim, whether it has left traces on the host. No locks, handlers,
devices or files.

`DeviceState` models `DeviceState.Prepare` and `DeviceState.Unprepare`.
`checkpoint`, `specs` and `applied` are on the host and survive a crash;
`allocatable`, `lock` and the handlers' variables belong to the process. One
action per step of the code:

| code | actions |
|---|---|
| an RPC arrives; `s.Lock()` and `getCheckpoint` | `Call`, `PrepareRead`, `UnprepareRead`, `UnprepareNoop` |
| `updateCheckpoint` to PrepareStarted; answer of a completed claim | `PrepareStart`, `PrepareRepeated` |
| `prepareDevices`: choosing configs, the apply loop | `SelectConfigs`, `RejectClaim`, `ApplyGroup`, `ApplyFails` |
| `RemoveSiblingDevices`, `CreateClaimSpecFile`, PrepareCompleted | `HideSiblings`, `CreateSpec`, `PrepareComplete` |
| `unprepareDevices`, `discoverSiblingAllocatables` | `CleanGroup`, `CleanFails`, `AllClean`, `RediscoverSiblings`, `DiscoverFails` |
| `DeleteClaimSpecFile`, writing the checkpoint back | `DeleteSpec`, `UnprepareForget` |
| error returns | `CheckpointFails`, `SpecFails` |
| the process dies, a nil manager is called, the process starts | `Crash`, `Panic`, `Boot` |

A claim's allocation results form groups, one per config applied to them; a
group holds devices of one type. What a group's config leaves on the host is one
trace: with HAMi the directory of the claim, else one trace per group. A
manager's own steps are inside that trace: it is made, or the call fails with
the trace made or not.

`built` is the set of gates whose manager is not nil, chosen from the constant
`Builds` at every start. As committed it is empty: the block of `NewDeviceState`
that builds the managers is commented out (device_state.go:102-124, and the gate
checks of nvlib.go:111-139 with it), and the first use of a manager ends the
process (`Panic`). `Builds = {Gates}` is the program the rest of the code is
written for, with that block in place. The runs `managers` and `driver` start either way.

`told` is what the kubelet was last told about a claim and `torn` the completed
claims an Unprepare began to take apart; both are history variables.

`PassthroughHistory` adds one history variable to `DeviceState`: `abandoned`, the
claims whose last preparation ended in the apply loop (device_state.go:401-433),
by an error, a panic or a crash, before `RemoveSiblingDevices` was reached. Such
a claim may leave a GPU bound to vfio-pci while its GPU device is still offered,
and the code then grants it. `GpuNotBound` is about all other claims: those
prepared or being prepared, those that failed after the twins were hidden, and
those whose release failed.

`MCDeviceState` gives a node with three GPUs, two with a VFIO twin, and
assignments of groups to claims; `MCPassthrough` is the same node for
`PassthroughHistory`.  `DeviceStateProofs` holds the proofs, `SiblingProofs`
those about GPUs and their twins.

`Driver` extends `DeviceState` with driver.go: the `driver` object is filled in
while its sockets already serve, each call takes `pulock` for one claim after the
other and gives the plugin helper the list of devices to publish. Every step is
one of `DeviceState` or leaves its variables alone.

| code | actions |
|---|---|
| `NewDriver` after `kubeletplugin.Start`: the helper is assigned, the health check listens | `AssignHelper`, `StartHealthcheck` |
| its `publishResources`, which walks the devices without `pulock` | `BeginDrawing`, `EndDrawing`, `FirstPublish` |
| `PrepareResourceClaims`, `UnprepareResourceClaims` | `Arrive`, `Enter` |
| `nodePrepareResource`, `nodeUnprepareResource` | `Work`, `Succeed`, `FailCall`, `List`, `Publish`, `PublishFails` |
| SIGTERM or a kill; a nil helper or a nil manager; an error of `NewDriver` or the runtime's check of maps; the pod restarts | `Killed`; `PanicInCall`; `StartFails`; `Restart` |

`published` is what the helper was given last; `publisher`, `behind`, `fresh` and
`granted` are history variables.

`PrepareDevices` opens up `SelectConfigs`, `ApplyGroup` and `CreateSpec` of
`DeviceState`: one call of `prepareDevices` on any allocation.

| code | actions |
|---|---|
| `GetOpaqueDeviceConfigs`, the loop that collects by source | `CollectConfig`, `RejectSource`, `EndCollection` |
| its loop that decodes; the defaults put in front | `DecodeConfig`, `RejectForm`, `EndDecoding` |
| the loop over the results, from the last config to the first | `SelectConfig`, `RejectResult`, `EndSelection` |
| the loop over `configResultsMap`, in any order: `Normalize`, `Validate`, `applyConfig` | `ApplyConfig`, `RejectInvalid` |
| the prepared devices and their CDI ids | `BuildDevices` |
| `CreateClaimSpecFile`; the CDI library refuses two devices of one name | `CreateClaimSpec`, `SpecRefused` |

A config may also be an object that the decoder knows and that is none of the
three types: it is selected like the others and refused when it is to be applied.
HAMi's edits are the amounts by their numbers, since that is all the environment
holds: `ROCM_DEVICE_SM_LIMIT_<n>`, where n counts a Go map and begins at 0 in every
group. Whose limit a number is cannot be read off them, and the code says so itself
(hami_core.go:245); `LimitsComplete` says no more than that every amount is there.
An error of a manager (`applyConfig`) is in `DeviceState`.

`ClaimAnswer` is the abstract specification of such a call: the allocation has a
fault or not and an answer that is due, and the call grants with this or refuses,
once. `PrepareDevices!Decision` maps a call to it: the fault is `Unpreparable`, the
answer `Due`, both read off the allocation without any of the lists.

`Inventory` is about names. `DeviceState` takes a device's name for the device;
the code names it by the index amdsmi has for its GPU, and binding a GPU to
vfio-pci moves the indices behind it. `driver` is what each GPU is bound to:
amdgpu (and amdsmi lists it), vfio-pci, or nothing after a refused bind.

| code | actions |
|---|---|
| `NewDeviceState`: enumeration and the standard CDI spec; the process ends | `Start`; `Stop` |
| `Prepare`: bind, `RemoveSiblingDevices`, complete or fail | `Prepare` |
| `Prepare` that fails in the apply loop, with the GPU bound or without a driver and all its devices still offered | `ApplyFails` |
| `Unprepare` of a GPU: `discoverVfioDevice` | `UnprepareGpu` |
| `Unprepare` of a VFIO device: unbind, `discoverGPUByPCIBusID`; error returns | `UnprepareVfio`; `UnconfigureFails`, `DiscoverFails` |

`disturbed` says that an index was read while it was not the GPU's place, or that
devices were enumerated under prepared claims or while a GPU was not listed: the
properties hold until then. `stranded` are the GPUs of preparations that failed
after the siblings were hidden. `standard` is what the devices of the standard CDI
spec say about themselves, the UUID and PCI address in their environment. The node
they inject is `/dev/dri/renderD<index>`, the index standing in for the DRM minor
as an approximation (cdi.go:296): that it is the GPU's node is not claimed, and
nothing here depends on it. A failure of `Unprepare` after rediscovery is in
`DeviceState` and not in `Inventory`.

`VfioPci` models `VfioPciManager.Configure` and `Unconfigure` and the two scripts
they run. `driver`, `override`, `users` and `pinned` belong to the kernel and
survive a crash; `gpuLock` is `perGpuLock`, and each caller has a `pc`. A script
is a process of its own: each of its writes is a step.

| code | actions |
|---|---|
| `Configure` (asks for vfio-pci), `Unconfigure` (asks for amdgpu); `perGpuLock.Get(...).Lock()` | `Call`, `Lock` |
| `getDriver` and the early returns on the current driver | `Look` with `Verdict` |
| `WaitForGPUFree`; `verifyDisabledVFs` | `FoundFree`, `TimedOut`; `VerifyDisabledVFs` |
| `unbind_from_driver.sh`: `acquire_unbind_lock`, the unbind write (its failure is ignored) | `AcquireUnbindLock`, `WriteUnbind` |
| `bind_to_driver.sh`: the override, the bind, clearing the override after a failed bind | `WriteOverride`, `WriteBind`, `BindFails` |
| the deferred `Unlock` | `Unlock` |
| processes that use the GPU (external); the container is killed | `OpenGpu`, `CloseGpu`; `Crash` |

`FoundFree` may say yes while the GPU is open: fuser is asked about
`/dev/dri/renderD<index>`, and not at all when the parent of the device is nil
(vfio-device.go:152-160). What keeps an open GPU with amdgpu is the unbindLock alone.
`orphaned` is a history variable: the GPUs whose override nobody was left to clear.

`MpsDaemon` models `MpsControlDaemon` and `TimeSlicingManager`.  `deployment` and
`ready` are in the cluster; `root`, `mounts`, `mode`, `slice` and `entry` are on
the host; `pc` and `serving` are the plugin, which the mutex of `DeviceState`
makes sequential; `alloc` and `told` are the scheduler's and the kubelet's view.

| code | actions |
|---|---|
| `Prepare` up to `applySharingConfig`; the rest of `Prepare` | `CallPrepare`; `Complete` |
| `SetTimeSlice` | `SetTimeSlice` |
| `Start` | `IsStarted`, `MakeDirs`, `Mount`, `SetExclusive`, `Create` |
| `AssertReady` | `AssertReady`, `NotReady` |
| `Unprepare` up to `unprepareDevices`; the rest of it | `CallUnprepare`; `Forget` |
| `Stop` | `FindRoot`, `Delete`, `Unmount`, `RemoveRoot` |
| `SetTimeSlice` back to the default | `Reset` |
| a step returns an error, with part of its effect or none; the process dies | `Fail` with `InPart`; `Crash` |
| the API server and the daemon's pod (external) | `BecomeReady`, `LoseReady`, `Deleted` |
| allocation and retries (external) | `Allocate`, `GiveUp`, `Release` |

`DeviceState` sees a daemon, or a switch of drivers, as one trace that is made,
half made or removed; `VfioPci` and `MpsDaemon` open that trace up. `VfioPci`
does not rely on the mutex of `DeviceState`: its callers are concurrent, which is
what the mutex per GPU is for. `MpsDaemon` implements `ClaimJournal` by itself
(`MpsDaemon!Journal`): its `entry` is the journal, and a claim has traces while it
has directories, a tmpfs or a running deployment.

`CheckpointFormat` models the file: `ToV1`, `ToV2`, `ToLatestVersion`, both
checksums and their verification are operators of the same names, and `Start`,
`Complete` and `Forget` are the three updates the plugin makes. `OldUpdate`
(a plugin that knows V1 only), `Install` (an upgrade or a downgrade) and
`Damage` are external. Damage is a checksum or something a checksum covers that
changed (`Corrupt`), or a V2 object that is gone: a file without one is what the
older plugin writes, so neither checksum notices. `completed`, `started` and
`lost` are history variables: what the calls come to, and the started claims that
went with a V2.

Some modules hold definitions headed "Variant": the code as a plausible slip
would have it. Nothing uses them but the mutants of `PROJECT.json`, which put
one in place of the definition it varies and expect a property to break.

## 3. What TLC checks

| run | instance | states | shows |
|---|---|---|---|
| `hami_claims` | `Driver`, 2 HAMi claims in calls of up to 2, one of them refused, failing directories | 234 thousand | every call is answered, all its claims served, or ends with the process (`Answered`) |
| `driver` | `Driver`, a GPU and its twin in 2 calls, all faults of the driver, kills and restarts, managers built or nil | 3.46 million | after a call the helper has the devices there are (`PublishedIsCurrent`); the twin of a granted device is not offered (`TwinNotOffered`) |
| `managers` | `DeviceState`, 3 claims (time slicing and MPS; a VFIO twin; a twin with an invalid config), all faults but swallowed ones, managers built or nil | 1.88 million | `WriteAhead`, `ReleasedIsClean`, `GrantedIsReal`; no checkpoint update is lost (`OtherEntriesUntouched`); `DeviceState` implements `ClaimJournal` |
| `passthrough` | `PassthroughHistory`, the same claims, with configs, spec files, checkpoint writes, cleanups and discoveries that fail, no restart | 2.06 million | no VFIO twin is granted beside its GPU (`NoSiblingConflict`); only a claim that failed in the apply loop leaves a GPU bound that is granted (`GpuNotBound`) |
| `allocation` | `PrepareDevices`, every list of up to 2 configs and 2 results, 3 configs and 1 result, 3 HAMi shares | 1.17 million | each result gets the config that outranks the others (`Precedence`); refusals have a reason (`RefusedForCause`); ids are those of the claim's spec, whose edits hold every limit (`IdsResolve`, `LimitsComplete`); the call implements `ClaimAnswer` (`Decided`) |
| `inventory` | `Inventory`, 3 GPUs, 3 claims, restarts, preparations that fail before and after the siblings are hidden, refused binds | 1.05 million | no GPU is granted twice or lost, lookups find it, its CDI id stands for its UUID (`Identified`), until a moved index is read |
| `vfio_switch` | 2 callers, 2 GPUs, every starting driver, 2 faults | 198 thousand | success means bound; overrides are cleaned up; an open GPU is not taken; calls return |
| `checkpoint_format` | 2 claims, 2 devices, both versions, damage | 6 thousand | no upgrade or downgrade makes the file unreadable, and an accepted file says what was written, but for the started claims of a V2 that vanished |
| `mps_sharing` | an MPS claim on 2 GPUs and a time-slicing claim on one of them, 3 faults | 36 thousand | the early returns of `Start` and `Stop` skip nothing; GPUs return to the default; claims are unprepared in the end; daemons come and go as `ClaimJournal` says (`ImplementsJournal`) |
| `prepare_twice` | 2 claims, no fault | violated | see finding 1 |
| `vfio_stuck` | 1 refused bind | violated | see finding 2 |
| `mps_restart` | no fault | violated | see finding 3 |

Bounds. Claims and handlers do not interact but through the mutexes, the
checkpoint, the allocatable devices and the host: two handlers show every
interleaving of two calls, of one claim or of two; the third claim of `managers`
and `passthrough` is there so that both twins are asked for at once. The groups
give claims with one config and with two, so that an apply or clean loop can
stop in the middle. `DeviceState` and `Driver` have no bound on the number of
calls, faults, crashes or restarts: their state is finite. `MaxBatch` is the
number of claims in one call: 2 in `hami_claims`, where one claim of a call is
refused before or after the other, 1 in `driver`. `Inventory` needs three GPUs
for two bound ones in front of a third. In `PrepareDevices` two configs and two
results let a config be outranked for one result and apply to the other, and
three configs tell an order from a reversal. `VfioPci` and `MpsDaemon` bound the
faults (`MaxFaults`), since each of them may add a tmpfs; two faults let a
retry fail, three let a stack be taken off under another failure. The theorems
hold for every `MaxFaults`.

Fairness. `Driver!FairDriverSpec`: weak on `Starting` (`NewDriver` runs on),
weak on the steps of the call that holds `pulock` or dies (every manager call
ends: waits are bounded by timeouts, scripts and API calls return), strong on
`Enter` of each handler (a `sync.Mutex` hands over to a starved waiter). Nothing
makes the kubelet call or the pod restart. `VfioPci!FairSpec` is the same with
the mutex per GPU; `RetrySpec` adds that each GPU is asked for again and again,
and serves only to show that not even that helps in `vfio_stuck`.
`MpsDaemon!FairSpec`: weak on the steps (`AssertReady` gives up after four
attempts), strong on `CallUnprepare` of a claim whose pods are gone, which the
kubelet retries until it succeeds.

Deadlock is checked except in the runs of `MpsDaemon`, where the allocations end,
and in `allocation`, where the one call returns.

## 4. What is proved

TLAPS proves these for every set of claims, devices, groups, handlers or
callers, every choice of gates and every number of GPUs and faults; the constants
are constrained only by the named `ASSUME`s of each module and by the hypotheses
a theorem states.

`DeviceStateProofs`. `Control` (types; the mutex is held exactly by the handler
in its critical section; a handler's copy of the checkpoint is the checkpoint
as long as it may write it back) is inductive, and gives `TypeCorrect` and
`NoLostUpdate` whatever fails. `Clean` adds that the traces of a claim are its
own (`OwnTraces`) and how far a cleaning handler has come (`Cleaning`), which
`WriteAhead` and `ReleasedIsClean` need when the last write deletes the entry.
`Whole` adds how far an applying handler has come (`Applying`) and that a
completed entry stands for a complete claim (`CompletedIsReal`), which
`GrantedIsReal` needs when a claim is answered from the checkpoint. `Refinement`
uses `Clean`: each step is `Begin`, `Complete` or `Forget` of the journal, a
change of the traces of an entered claim, or a stutter. From `Clean` on, the
theorems assume `NoHostdir`: with HAMi, making and removing claim directories
does not fail. Those errors are swallowed, and with them the properties are false
(see section 5).

`SiblingProofs`. `Twins` says that a claim being prepared works on allocatable
devices and that what it hid stays hidden; with it, `Kept` (a claim reported as
prepared keeps its devices and its twins stay hidden) is inductive and gives
`NoConflict`. `BoundHidden` (a GPU that a claim not abandoned has bound to vfio-pci
is hidden,
or about to be) gives `NotBound`. Both assume that no two claims have a device in
common (`Exclusive`), one run of the process (`NoCrash`) and all managers
(`AllBuilt`), and no more: every other fault may happen. With HAMi no claim binds
a GPU (`HamiBindsNone`).

`DriverProofs`. `Link` ties a handler's place in the driver to its place in
`DeviceState`; with it every step of `Driver` is a step of `DeviceState` or a
stutter (`DriverImplements`), so that the theorems above hold of the calls.
`Lists` (a list about to be published is the current one) gives `Current`,
`FreshHeld` (claims this process prepared hold their devices) gives
`TwinsWithdrawn`, under `Exclusive`. All of them take it that the process may
be killed at any time (`MayCrash`), which only adds behaviours: one of `Driver`
that dies is then one of `DeviceState`. `PluginKeepsJournal` draws the sum: every
behaviour of the driver implements `ClaimJournal`, loses no update of it and has
`WriteAhead`, `ReleasedIsClean` and `GrantedIsReal`, under `NoHostdir`.

`PrepareDevicesProofs`. The invariant follows the call. `Split`: the two lists
hold, in rising order, the indices of the class and of the claim configs collected
so far, and no more. `Decoded`: the decoded configs are ranked, each outranked by
those behind it, and are those of this driver among the candidates so far; at the
end the defaults go in front and cover every device type that can be asked for
(`DefaultsCover`). `Selected`: the last match in a ranked list outranks every
other match (`OneOutranksAll`, `ConfigChosen`), so each result has the config the
documentation gives it. `Applied`: edits belong to sound configs of results, and
their limits are numbered by a bijection with the devices of the group. A failed call had a reason
(`Refusal`); a granted one has none and has given what is due (`Granted`), which
yields `RefusedForCause`, `IdsResolve`, `LimitsComplete` and the refinement
`Decides`. The lists may have any length: what the proof needs of sequences is
said by their indices, without induction.

`InventoryProofs`. `Steady` holds until the inventory is disturbed: a name is the
GPU's place (`Named`), no two claims have a GPU (`Unique`), the device of a claim
is offered and its sibling is not (`Hiding`), a GPU without a claim or a failure
after hiding is (`Offered`), and the standard spec has every GPU at its place
(`Specified`). Steps that change no more than a driver keep all of it
(`DriverInv`): the indices they move are not read. None of the five is inductive
alone. The lemmas about indices rest on the cardinality of intervals.

`VfioPciProofs`. `Exclusive` (a caller inside holds its GPU's mutex) carries
`BoundAsAsked`; `Pinning` (between taking the unbindLock and unbinding, the GPU
is pinned and unused) carries `NoUserLosesGpu`, under the assumption that the
driver offers an unbindLock: the script goes on without one. `Overriding` says
when an override may name another driver than the GPU has.

`MpsDaemonProofs`. `Stage` (what the steps of `Start` and `Stop` so far have
made or removed), `Allocation` (two claims with a GPU in common are not held at once, a
new claim has no entry, only an MPS claim has a daemon), `Switched` (the modes
are set before the daemon is created and reset before the entry is deleted) and
`Stacks` (each further tmpfs stands for a failed step) make
`SetUp`, `Accounted`, `FreeGpuDefault`, `DaemonExclusive` and `StackBounded`
inductive together. From the same invariant, and from `Entered` (a claim inside
`Start` or `Stop` has an entry), `DaemonsJournalled` proves the refinement of
`ClaimJournal` action by action.

`CheckpointFormatProofs`. `TypeOK`, `Readable` and `Faithful` are inductive
together. `LossKeeps` is the damage no checksum notices: the file without its V2 is
accepted and says what `completed` says, and of `started` what is not `lost`.

Only model-checked: the liveness properties (`Answered` of both modules,
`Unprepared`), which the prover does not reach. Every safety property and every
refinement of a passing run is a theorem.

## 5. Findings

1. A second `Prepare` of a completed claim writes the entry back as started,
   without its devices, before it answers from its copy (device_state.go:184-191).
   The third one prepares the devices again, and an `Unprepare` in between is a
   noop that leaves them configured. (`prepare_twice`)
2. A GPU whose bind was refused has no driver, and every later `Configure` or
   `Unconfigure` fails when it reads it. (`vfio_stuck`)
3. A deployment that is being deleted counts as started: the claim is reported
   as prepared with its GPUs in the default mode. (`mps_restart`)

Seen while reading, without a line of the repository that promises otherwise.

Claims:
- `Unprepare` keeps the entry completed while it takes the claim apart; when a
  later step fails, `Prepare` answers from that entry (`torn`).
- A claim whose daemon was not ready in time has a started entry, so its
  `Unprepare` is a noop and the daemon stays.
- `HAMiCoreManager` drops the errors of `MkdirAll`, `Chmod` and `RemoveAll`: a
  claim may be prepared without its directory or forgotten with it.
- A claim with two shares of one HAMi GPU can never be prepared: its spec has two
  devices of one name, which the CDI library refuses.
- A config for request "req" is not matched with a result of its sub-request
  "req/sub".
- The numbers of HAMi limits say nothing about the GPU, and two groups of one claim
  both begin at 0.
- A checkpoint whose V2 object is gone is accepted, and its started claims are not
  there any more.
- `getConsumableCapacityMap` does not look at the driver of a result.
- Without `TimeSlicingSettings` nothing takes a GPU out of EXCLUSIVE_PROCESS.

Devices:
- The managers are commented out while their gates may be on.
- A claim that fails in the apply loop leaves its GPU bound to vfio-pci, or without
  a driver, and offered: the GPU can be granted as a GPU (`abandoned`,
  `Inventory!ApplyFails`).
- After a restart, siblings that a claim had hidden are offered again; a failed
  preparation leaves them hidden until one.
- A GPU that is rediscovered behind a bound one takes another GPU's name
  (`disturbed`).
- The CDI device node of a GPU, and the node fuser is asked about, are
  `/dev/dri/renderD<index>`; render nodes are usually numbered from 128.
- The standard CDI spec is written at start only, and
  `createStandardVfioDeviceSpecFile` is never called: ids of VFIO devices are in
  no spec.
- `verifyDisabledVFs` decodes PCI ids with other shifts than `getPCIBusID`.
- `isVfioPCIModuleLoaded` ends the process (`klog.Fatalf`) where its callers
  expect an error.

## 6. Assumptions

- A group has devices of one type, and a claim does not hold a GPU and its twin
  (`OneTypePerGroup`, `NoSiblingsInAClaim`).
- The scheduler gives a device to one claim at a time: `Exclusive` in the proofs,
  `Free` in `Inventory`. With adminAccess it does not.
- In `PrepareDevices` enumeration finds HAMi GPUs or the other types, not both
  (`EnumerationAssumption`).
- In `MpsDaemon` a claim is allocated once, a GPU to one claim at a time, a claim
  has one group, and MPSSupport is enabled.
- In `CheckpointFormat` different contents have different checksums, and at most
  one part of the file is damaged between two writes.
- The kernel, amdsmi, the CDI library, the plugin helper, the API server, the
  kubelet, the processes on the GPUs and the older plugin are modelled from how
  this code uses or describes them.

## 7. Not modelled, and what is left

Left out: device attributes and the text of manifests, specs and templates
(formatting without control of its own); parsing of versions, quantities and
flags; the container scripts (sequential shell outside the plugin); demo,
deployment and CI files; loading the vfio-pci module and probing the IOMMU at
start, of which only the outcome, a manager or none, is in `Builds`. MIG devices
have no enumeration in the code and appear only as results that are refused. The
probe of the health check reads nothing of the driver's state.

What is left, in order of weight:

1. An abstract specification of a GPU's owner that `VfioPci` and `Inventory`
   both implement; what `DeviceState` sees of a switch (made, half made or
   removed) is its refinement of the trace.
2. `DriverTypes`, `Current` and `TwinsWithdrawn` without `MayCrash`, from an
   invariant of `Driver` that does not go through `DriverImplements`.
3. `PciAddress`: the two decodings of PCI ids over bounded inputs.
