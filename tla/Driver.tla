---- MODULE Driver ----
(***************************************************************************)
(* The driver of cmd/hami-kubelet-plugin/driver.go around DeviceState:     *)
(* NewDriver, whose sockets serve before it is done, the RPC handlers,     *)
(* which take pulock for one claim after the other, and the list of        *)
(* devices each of them gives to the plugin helper for publishing.         *)
(*                                                                         *)
(* Every step of Prepare and Unprepare is a step of DeviceState; the       *)
(* variables added here are those of the driver and of the helper.         *)
(***************************************************************************)
EXTENDS DeviceState, Naturals, FiniteSets

CONSTANT MaxBatch   \* how many claims the kubelet puts in one call
ASSUME BatchAssumption == MaxBatch \in Nat \ {0}

VARIABLES
    phase,      \* how far NewDriver is: "down" without a process
    drawn,      \* the list NewDriver publishes, once it has read it
    pulock,     \* holder of pulock, or None
    at, op,     \* per handler: where it is in the driver, what it was called for
    batch,      \* per handler: the claims of the call still to be served
    serving,    \* per handler: the claim it serves
    list,       \* per handler: the list it is about to publish
    \* outside the process
    published,  \* the list the helper was given last
    \* history
    publisher,  \* who gave it: nobody, NewDriver, or a call
    behind,     \* a call failed since, and may have changed the devices
    fresh,      \* claims this process prepared itself, and did not begin to release
    granted     \* those of them that a call reported as prepared

start == <<phase, drawn>>
rpc == <<pulock, at, op, batch, serving, list>>
slice == <<published, publisher, behind>>
claims == <<fresh, granted>>
driverVars == <<start, rpc, slice, claims>>
allVars == <<vars, driverVars>>

Phases == {"down", "serving", "assigned", "probed", "reading", "drawn", "running"}

\* The types of the variables.
DriverTypeOK ==
    /\ TypeOK
    /\ phase \in Phases /\ drawn \subseteq Devices
    /\ pulock \in Handlers \cup {None}
    /\ at \in [Handlers -> {"idle", "queue", "state", "read", "publish"}]
    /\ op \in [Handlers -> {"none", "prepare", "unprepare"}]
    /\ batch \in [Handlers -> SUBSET Claims]
    /\ serving \in [Handlers -> Claims \cup {None}]
    /\ list \in [Handlers -> SUBSET Devices]
    /\ published \subseteq Devices
    /\ publisher \in {"nobody", "start", "call"} /\ behind \in BOOLEAN
    /\ fresh \subseteq Claims /\ granted \subseteq Claims

\* NewDeviceState is done and kubeletplugin.Start has opened the sockets.
DriverInit ==
    /\ Init
    /\ phase = "serving" /\ drawn = {}
    /\ pulock = None
    /\ at = [h \in Handlers |-> "idle"]
    /\ op = [h \in Handlers |-> "none"]
    /\ batch = [h \in Handlers |-> {}]
    /\ serving = [h \in Handlers |-> None]
    /\ list = [h \in Handlers |-> {}]
    /\ published = {} /\ publisher = "nobody" /\ behind = FALSE
    /\ fresh = {} /\ granted = {}

----------------------------------------------------------------------------
\* NewDriver.

Advance(from, to) == phase = from /\ phase' = to

\* driver.pluginhelper = helper, after the sockets serve.
AssignHelper ==
    /\ Advance("serving", "assigned")
    /\ UNCHANGED <<vars, drawn, rpc, slice, claims>>

\* startHealthcheck: it listens on a port and serves Check, which goes through the
\* plugin's own sockets, without a claim, and waits for no lock of the driver.
StartHealthcheck ==
    /\ Advance("assigned", "probed")
    /\ UNCHANGED <<vars, drawn, rpc, slice, claims>>

\* The first publishResources walks the map of devices without pulock.  A call may
\* change the map during the walk: what is drawn then lies between the two.
BeginDrawing ==
    /\ Advance("probed", "reading")
    /\ drawn' = allocatable
    /\ UNCHANGED <<vars, rpc, slice, claims>>

Between(a, b) == {l \in SUBSET (a \cup b) : a \cap b \subseteq l}

EndDrawing ==
    /\ Advance("reading", "drawn")
    /\ drawn' \in Between(drawn, allocatable)
    /\ UNCHANGED <<vars, rpc, slice, claims>>

FirstPublish ==
    /\ Advance("drawn", "running")
    /\ published' = drawn /\ drawn' = {}
    /\ publisher' = "start" /\ behind' = FALSE
    /\ UNCHANGED <<vars, rpc, claims>>

----------------------------------------------------------------------------
\* Calls.

\* PrepareResourceClaims or UnprepareResourceClaims arrives, with some claims.
Arrive(h) ==
    /\ phase # "down" /\ at[h] = "idle"
    /\ at' = [at EXCEPT ![h] = "queue"]
    /\ \E cs \in SUBSET Claims :
        /\ Cardinality(cs) \in 1..MaxBatch
        /\ batch' = [batch EXCEPT ![h] = cs]
    /\ \E what \in {"prepare", "unprepare"} : op' = [op EXCEPT ![h] = what]
    /\ UNCHANGED <<vars, start, pulock, serving, list, slice, claims>>

\* d.pulock.Lock(), and into DeviceState with the next claim.
Enter(h) ==
    /\ at[h] = "queue" /\ pulock = None
    /\ pulock' = h
    /\ at' = [at EXCEPT ![h] = "state"]
    /\ Call(h)
    /\ pc'[h] = IF op[h] = "prepare" THEN "pLock" ELSE "uLock"
    /\ claim'[h] \in batch[h]
    /\ serving' = [serving EXCEPT ![h] = claim'[h]]
    /\ batch' = [batch EXCEPT ![h] = @ \ {claim'[h]}]
    /\ IF op[h] = "prepare" THEN UNCHANGED claims
       ELSE fresh' = fresh \ {claim'[h]} /\ granted' = granted \ {claim'[h]}
    /\ UNCHANGED <<start, op, list, slice>>

\* Variant: a nil list is no set of devices.
ReleaseNil(h) ==
    /\ pulock' = None
    /\ at' = [at EXCEPT ![h] = IF batch[h] = {} THEN "idle" ELSE "queue"]
    /\ op' = [op EXCEPT ![h] = IF batch[h] = {} THEN "none" ELSE @]
    /\ serving' = [serving EXCEPT ![h] = None]
    /\ list' = [list EXCEPT ![h] = {None}]
    /\ UNCHANGED batch

\* Return from nodePrepareResource or nodeUnprepareResource: the deferred Unlock
\* runs; the next claim of the call is served, or the call is answered.
Release(h) ==
    /\ pulock' = None
    /\ at' = [at EXCEPT ![h] = IF batch[h] = {} THEN "idle" ELSE "queue"]
    /\ op' = [op EXCEPT ![h] = IF batch[h] = {} THEN "none" ELSE @]
    /\ serving' = [serving EXCEPT ![h] = None]
    /\ list' = [list EXCEPT ![h] = {}]
    /\ UNCHANGED batch

\* A step inside Prepare or Unprepare.
Work(h) ==
    /\ at[h] = "state"
    /\ Acquire(h) \/ Step(h)
    /\ pc'[h] # "idle"
    /\ UNCHANGED driverVars

Succeeds(h) ==
    \/ PrepareComplete(h) /\ fresh' = fresh \cup {claim[h]}
    \/ (PrepareRepeated(h) \/ UnprepareNoop(h) \/ UnprepareForget(h)) /\ UNCHANGED fresh

\* Variants: pulock covers Prepare and Unprepare only; only Prepare publishes.
SucceedUnlocked(h) ==
    /\ at[h] = "state"
    /\ Succeeds(h)
    /\ at' = [at EXCEPT ![h] = "read"] /\ pulock' = None
    /\ UNCHANGED <<start, op, batch, serving, list, slice, granted>>
SucceedUnpublished(h) ==
    /\ at[h] = "state"
    /\ Succeeds(h)
    /\ IF op[h] = "prepare" THEN /\ at' = [at EXCEPT ![h] = "read"]
                                /\ UNCHANGED <<pulock, op, batch, serving, list>>
                           ELSE Release(h)
    /\ UNCHANGED <<start, slice, granted>>

\* Prepare or Unprepare returns without an error.
Succeed(h) ==
    /\ at[h] = "state"
    /\ Succeeds(h)
    /\ at' = [at EXCEPT ![h] = "read"]
    /\ UNCHANGED <<start, pulock, op, batch, serving, list, slice, granted>>

Failure(h) ==
    \/ RejectClaim(h) \/ ApplyFails(h) \/ CleanFails(h) \/ DiscoverFails(h)
    \/ CheckpointFails(h) \/ SpecFails(h)

\* Variant: a claim that fails is tried again within the call.
FailCallRetried(h) ==
    /\ at[h] = "state"
    /\ Failure(h)
    /\ pulock' = None
    /\ at' = [at EXCEPT ![h] = "queue"]
    /\ serving' = [serving EXCEPT ![h] = None]
    /\ batch' = [batch EXCEPT ![h] = @ \cup {serving[h]}]
    /\ behind' = TRUE
    /\ UNCHANGED <<start, op, list, published, publisher, claims>>

\* Prepare or Unprepare returns an error: nothing is published.
FailCall(h) ==
    /\ at[h] = "state"
    /\ Failure(h)
    /\ Release(h)
    /\ behind' = TRUE
    /\ UNCHANGED <<start, published, publisher, claims>>

\* publishResources lists the devices ...
List(h) ==
    /\ at[h] = "read"
    /\ list' = [list EXCEPT ![h] = allocatable]
    /\ at' = [at EXCEPT ![h] = "publish"]
    /\ UNCHANGED <<vars, start, pulock, op, batch, serving, slice, claims>>

\* ... and hands the list to the helper.
Publish(h) ==
    /\ at[h] = "publish" /\ phase # "serving"
    /\ published' = list[h] /\ publisher' = "call" /\ behind' = FALSE
    /\ granted' = granted \cup (fresh \cap {serving[h]})
    /\ Release(h)
    /\ UNCHANGED <<vars, start, fresh>>

\* The helper refuses: the call fails although the claim is prepared, or released.
PublishFails(h) ==
    /\ at[h] = "publish" /\ phase # "serving" /\ Fault("publish")
    /\ behind' = TRUE
    /\ Release(h)
    /\ UNCHANGED <<vars, start, published, publisher, claims>>

----------------------------------------------------------------------------
\* The process ends and starts.

\* What the helper published outlives the process.
Stop ==
    /\ phase' = "down" /\ drawn' = {}
    /\ pulock' = None
    /\ at' = [h \in Handlers |-> "idle"]
    /\ op' = [h \in Handlers |-> "none"]
    /\ batch' = [h \in Handlers |-> {}]
    /\ serving' = [h \in Handlers |-> None]
    /\ list' = [h \in Handlers |-> {}]
    /\ publisher' = "nobody" /\ fresh' = {} /\ granted' = {}
    /\ UNCHANGED <<published, behind>>

\* Killed, or told to end: Shutdown does not wait for handlers.
Killed == Crash /\ Stop

\* A handler publishes through a helper that is still nil; or meets a nil manager.
PanicInCall(h) ==
    \/ at[h] = "publish" /\ phase = "serving" /\ Die /\ Stop
    \/ at[h] = "state" /\ Panic(h) /\ Stop

\* The health port is taken, the first publish fails, or the Go runtime notices a
\* map that is changed while NewDriver walks it.
StartFails ==
    /\ \/ phase = "assigned" /\ Fault("listen")
       \/ phase = "drawn" /\ Fault("publish")
       \/ phase = "reading" /\ drawn # allocatable
    /\ Die /\ Stop

Restart ==
    /\ Boot
    /\ phase' = "serving"
    /\ UNCHANGED <<drawn, rpc, slice, claims>>

----------------------------------------------------------------------------
Starting == AssignHelper \/ StartHealthcheck \/ BeginDrawing \/ EndDrawing \/ FirstPublish
Serve(h) == Work(h) \/ Succeed(h) \/ FailCall(h) \/ List(h) \/ Publish(h) \/ PublishFails(h)

DriverNext ==
    \/ Starting \/ StartFails \/ Killed \/ Restart
    \/ \E h \in Handlers : Arrive(h) \/ Enter(h) \/ Serve(h) \/ PanicInCall(h)

DriverSpec == DriverInit /\ [][DriverNext]_allVars

\* NewDriver runs on; a mutex is handed to a waiter in turn; its holder goes on.
FairDriverSpec ==
    /\ DriverSpec
    /\ WF_allVars(Starting)
    /\ WF_allVars(\E h \in Handlers : Serve(h) \/ PanicInCall(h))
    /\ \A h \in Handlers : SF_allVars(Enter(h))

----------------------------------------------------------------------------
\* Properties.

\* Between calls the helper has the devices the plugin would give now, once a call
\* has published and unless one failed since.  (Nothing of the kind is said of the
\* list NewDriver publishes: it is read without pulock.)
PublishedIsCurrent ==
    pulock = None /\ publisher = "call" /\ ~behind => published = allocatable

\* The twins of a claim's devices are not offered from the moment its call is
\* answered, whatever other calls publish or fail to publish, until its release.
TwinNotOffered ==
    publisher = "call" =>
        \A c \in granted : SiblingsOf(DevicesOfClaim(c)) \cap published = {}

\* Every call is answered, all its claims served, or ends with the process.
Answered == \A h \in Handlers : at[h] # "idle" ~> at[h] = "idle"
====
