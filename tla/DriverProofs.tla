---- MODULE DriverProofs ----
(***************************************************************************)
(* Proofs about Driver: it uses DeviceState as DeviceState is specified,   *)
(* so that what is proved of DeviceState holds of the plugin; and between  *)
(* calls the helper has the current list, with no twin of a device that a  *)
(* claim was given.                                                        *)
(***************************************************************************)
EXTENDS Driver, SiblingProofs

\* The process may end at any time.
MayCrash == "crash" \in Faults

\* The inductive invariant, part one: who is where.
Link ==
    /\ DriverTypeOK
    /\ phase = "down" <=> ~up
    /\ phase = "down" => publisher = "nobody" /\ fresh = {} /\ granted = {}
    /\ \A h \in Handlers : at[h] \in {"state", "read", "publish"} <=> pulock = h
    /\ \A h \in Handlers : at[h] = "state" <=> pc[h] # "idle"
    /\ \A h \in Handlers : phase = "down" => at[h] = "idle"
    /\ \A h \in Handlers : at[h] = "state" =>
            IF op[h] = "prepare" THEN pc[h] \in PreparePCs \cup {"pLock"}
                                 ELSE pc[h] \in UnpreparePCs \cup {"uLock"}

\* Part two: the lists.
Lists ==
    /\ \A h \in Handlers : at[h] = "publish" => list[h] = allocatable
    /\ PublishedIsCurrent

\* Part three: the claims this process prepared have their devices.
FreshHeld ==
    /\ granted \subseteq fresh
    /\ \A c \in fresh : Held(c)
    /\ \A h \in Handlers : at[h] = "state" /\ op[h] # "prepare" => claim[h] \notin fresh
    /\ TwinNotOffered

----------------------------------------------------------------------------
\* The steps of DeviceState that the driver takes inside a call.
LEMMA Inside ==
    ASSUME NEW h \in Handlers, Work(h) \/ Succeed(h) \/ FailCall(h)
    PROVE  at[h] = "state" /\ (Acquire(h) \/ Step(h))
BY DEF Work, Succeed, Succeeds, FailCall, Failure, Acquire, Step

\* How a call ends.
LEMMA Outcomes ==
    ASSUME Control, NEW h \in Handlers
    PROVE  /\ Work(h) => pc'[h] # "idle" /\ UNCHANGED driverVars
           /\ Succeed(h) \/ FailCall(h) => pc'[h] = "idle"
<1> USE DEF Control, TypeOK
<1>1. Succeed(h) => pc'[h] = "idle"
  BY DEF Succeed, Succeeds, PrepareComplete, PrepareRepeated, UnprepareNoop, UnprepareForget, Return
<1>2. FailCall(h) => pc'[h] = "idle"
  BY DEF FailCall, Failure, RejectClaim, ApplyFails, CleanFails, DiscoverFails, CheckpointFails, SpecFails,
         Return
<1> QED
  BY <1>1, <1>2 DEF Work

\* A step of one handler moves no other handler, keeps it on its path, and starts
\* no process.
LEMMA OwnPath ==
    ASSUME Control, NEW h \in Handlers, Acquire(h) \/ Step(h)
    PROVE  /\ \A k \in Handlers : k # h => pc'[k] = pc[k] /\ claim'[k] = claim[k]
           /\ pc[h] \in PreparePCs \cup {"pLock"} => pc'[h] \in PreparePCs \cup {"idle"}
           /\ pc[h] \in UnpreparePCs \cup {"uLock"} => pc'[h] \in UnpreparePCs \cup {"idle"}
           /\ pc'[h] # "idle" => claim'[h] = claim[h]
           /\ UNCHANGED up
<1> USE DEF Control, TypeOK, Goto, Return, PreparePCs, UnpreparePCs, memory
<1>1. CASE Acquire(h)
  BY <1>1 DEF Acquire, PrepareRead, UnprepareRead, UnprepareNoop
<1>2. CASE PrepareStart(h) \/ PrepareRepeated(h) \/ SelectConfigs(h) \/ RejectClaim(h)
  BY <1>2 DEF PrepareStart, PrepareRepeated, SelectConfigs, RejectClaim
<1>3. CASE ApplyGroup(h) \/ ApplyFails(h) \/ HideSiblings(h) \/ CreateSpec(h) \/ PrepareComplete(h)
  BY <1>3 DEF ApplyGroup, ApplyFails, HideSiblings, CreateSpec, PrepareComplete
<1>4. CASE CleanGroup(h) \/ CleanFails(h) \/ AllClean(h) \/ RediscoverSiblings(h) \/ DiscoverFails(h)
  BY <1>4 DEF CleanGroup, CleanFails, AllClean, RediscoverSiblings, DiscoverFails
<1>5. CASE DeleteSpec(h) \/ UnprepareForget(h) \/ CheckpointFails(h) \/ SpecFails(h)
  BY <1>5 DEF DeleteSpec, UnprepareForget, CheckpointFails, SpecFails
<1> QED
  BY <1>1, <1>2, <1>3, <1>4, <1>5 DEF Step

\* Every step of the driver is a step of DeviceState or leaves it alone.
LEMMA DriverStep == ASSUME MayCrash, Link, [DriverNext]_allVars PROVE [Next]_vars
<1>1. CASE UNCHANGED allVars
  BY <1>1 DEF allVars
<1>2. CASE Starting
  BY <1>2 DEF Starting, AssignHelper, StartHealthcheck, BeginDrawing, EndDrawing, FirstPublish
<1>3. ASSUME NEW h \in Handlers, Arrive(h) \/ List(h) \/ Publish(h) \/ PublishFails(h) PROVE UNCHANGED vars
  BY <1>3 DEF Arrive, List, Publish, PublishFails
<1>4. ASSUME NEW h \in Handlers, Enter(h) PROVE Next
  BY <1>4 DEF Enter, Next
<1>5. ASSUME NEW h \in Handlers, Work(h) \/ Succeed(h) \/ FailCall(h) PROVE Next
  BY <1>5, Inside DEF Next
<1>6. ASSUME NEW h \in Handlers, PanicInCall(h) PROVE Next
  <2>1. CASE Panic(h)
    BY <2>1 DEF Next
  <2>2. CASE at[h] = "publish" /\ Die
    BY <2>2 DEF Next, Crash, Link, MayCrash, Fault
  <2> QED
    BY <1>6, <2>1, <2>2 DEF PanicInCall
<1>7. CASE StartFails
  <2>1. phase # "down" /\ Die
    BY <1>7 DEF StartFails
  <2> QED
    BY <2>1 DEF Next, Crash, Link, MayCrash, Fault
<1>8. CASE Killed \/ Restart
  BY <1>8 DEF Killed, Restart, Next
<1> QED
  BY <1>1, <1>2, <1>3, <1>4, <1>5, <1>6, <1>7, <1>8 DEF DriverNext, Serve

\* The first state is one of DeviceState, and satisfies the invariant.
LEMMA DriverStart == DriverInit => Init /\ Control /\ Link
<1> SUFFICES ASSUME DriverInit PROVE Control /\ Link
  BY DEF DriverInit
<1>1. Control
  BY ControlInit DEF DriverInit
<1>2. \A h \in Handlers : h # None
  BY NoneAssumption
<1> QED
  BY <1>1, <1>2 DEF DriverInit, Init, Link, DriverTypeOK, Control, Phases

----------------------------------------------------------------------------
\* The end of the process.
LEMMA StopLinks ==
    ASSUME Control', Link, Die, Stop PROVE Link'
<1>1. \A h \in Handlers : h # None
  BY NoneAssumption
<1>2. TypeOK'
  BY DEF Control
<1>3. DriverTypeOK'
  BY <1>2 DEF Stop, Link, DriverTypeOK, Phases
<1> QED
  BY <1>1, <1>3 DEF Stop, Die, Link

\* The unlock at the end of a call.
LEMMA ReleaseLinks ==
    ASSUME Link, NEW h \in Handlers, at[h] \in {"state", "read", "publish"}, Release(h), pc'[h] = "idle",
           \A k \in Handlers : k # h => pc'[k] = pc[k] /\ claim'[k] = claim[k],
           UNCHANGED <<phase, up, drawn>>, TypeOK',
           published' \in SUBSET Devices, publisher' \in {"nobody", "call", "start"}, behind' \in BOOLEAN,
           fresh' \in SUBSET Claims, granted' \in SUBSET Claims, phase # "down"
    PROVE  Link'
<1>1. \A k \in Handlers : k # None
  BY NoneAssumption
<1>2. DriverTypeOK'
  BY DEF Release, Link, DriverTypeOK
<1>3. \A k \in Handlers : k # h => at'[k] = at[k] /\ op'[k] = op[k] /\ at[k] \notin {"state", "read", "publish"}
  BY DEF Release, Link, DriverTypeOK
<1>4. at'[h] \in {"idle", "queue"} /\ pulock' = None
  BY DEF Release, Link, DriverTypeOK
<1> QED
  BY <1>1, <1>2, <1>3, <1>4 DEF Link

\* Every step keeps Link.
LEMMA LinkNext == ASSUME MayCrash, Control, Control', Link, [DriverNext]_allVars PROVE Link'
<1>1. TypeOK' /\ \A k \in Handlers : k # None
  BY NoneAssumption DEF Control
<1>2. CASE UNCHANGED allVars
  BY <1>2 DEF allVars, driverVars, start, rpc, slice, claims, vars, memory, handler, host, history,
     Link, DriverTypeOK, TypeOK
<1>3. CASE Starting
  BY <1>1, <1>3 DEF Starting, AssignHelper, StartHealthcheck, BeginDrawing, EndDrawing, FirstPublish, Advance, Between, rpc, slice,
     claims, vars, memory, handler, Link, DriverTypeOK, Phases, Control, TypeOK
<1>4. ASSUME NEW h \in Handlers, Arrive(h) PROVE Link'
  BY <1>1, <1>4 DEF Arrive, start, slice, claims, vars, memory, handler, Link, DriverTypeOK
<1>5. ASSUME NEW h \in Handlers, Enter(h) PROVE Link'
  <2>1. up /\ pc[h] = "idle" /\ (\E label \in {"pLock", "uLock"} : pc' = [pc EXCEPT ![h] = label])
        /\ UNCHANGED memory
    BY <1>5 DEF Enter, Call
  <2>2. pc'[h] = IF op[h] = "prepare" THEN "pLock" ELSE "uLock"
    BY <1>5 DEF Enter
  <2>3. claim'[h] \in Claims
    BY <1>5 DEF Enter, Link, DriverTypeOK
  <2>4. DriverTypeOK'
    BY <1>1, <1>5, <2>3 DEF Enter, Link, DriverTypeOK, start, slice, claims
  <2>5. /\ pulock = None /\ pulock' = h /\ at' = [at EXCEPT ![h] = "state"] /\ at[h] = "queue"
        /\ fresh' \subseteq fresh /\ granted' \subseteq granted /\ UNCHANGED <<phase, op, publisher>>
    BY <1>5 DEF Enter, start, slice, claims
  <2>6. \A k \in Handlers : k # h => at'[k] = at[k] /\ pc'[k] = pc[k]
    BY <2>1, <2>5 DEF Link, DriverTypeOK, Control, TypeOK
  <2>7. at'[h] = "state" /\ pc'[h] # "idle"
    BY <2>2, <2>5 DEF Link, DriverTypeOK
  <2> QED
    BY <1>1, <2>1, <2>2, <2>4, <2>5, <2>6, <2>7 DEF Link, memory
<1>6. ASSUME NEW h \in Handlers, Work(h) PROVE Link'
  <2>1. at[h] = "state" /\ (Acquire(h) \/ Step(h)) /\ pc'[h] # "idle" /\ UNCHANGED driverVars
    BY <1>6, Inside, Outcomes
  <2>2. DriverTypeOK'
    BY <1>1, <2>1 DEF driverVars, start, rpc, slice, claims, Link, DriverTypeOK
  <2> QED
    BY <1>1, <2>1, <2>2, OwnPath DEF driverVars, start, rpc, slice, claims, Link
<1>7. ASSUME NEW h \in Handlers, Succeed(h) PROVE Link'
  <2>1. at[h] = "state" /\ (Acquire(h) \/ Step(h)) /\ pc'[h] = "idle"
    BY <1>7, Inside, Outcomes
  <2>2. fresh' \subseteq Claims
    BY <1>7, <2>1 DEF Succeed, Succeeds, Link, DriverTypeOK, Control, Serving
  <2>3. DriverTypeOK'
    BY <1>1, <1>7, <2>2 DEF Succeed, start, slice, Link, DriverTypeOK
  <2>4. phase # "down"
    BY <2>1 DEF Link
  <2> QED
    BY <1>1, <1>7, <2>1, <2>3, <2>4, OwnPath DEF Succeed, start, slice, Link, DriverTypeOK
<1>8. ASSUME NEW h \in Handlers, FailCall(h) PROVE Link'
  <2>1. at[h] = "state" /\ (Acquire(h) \/ Step(h)) /\ pc'[h] = "idle"
    BY <1>8, Inside, Outcomes
  <2>2. /\ \A k \in Handlers : k # h => pc'[k] = pc[k] /\ claim'[k] = claim[k]
        /\ UNCHANGED up
    BY <2>1, OwnPath
  <2>3. /\ Release(h) /\ UNCHANGED <<phase, drawn>> /\ phase # "down"
        /\ published' \in SUBSET Devices /\ publisher' \in {"nobody", "call", "start"} /\ behind' \in BOOLEAN
        /\ fresh' \in SUBSET Claims /\ granted' \in SUBSET Claims
    BY <1>8, <2>1 DEF FailCall, start, claims, Link, DriverTypeOK
  <2> QED
    BY <1>1, <2>1, <2>2, <2>3, ReleaseLinks
<1>9. ASSUME NEW h \in Handlers, List(h) PROVE Link'
  BY <1>1, <1>9 DEF List, start, slice, claims, vars, memory, handler, Link, DriverTypeOK, TypeOK
<1>10. ASSUME NEW h \in Handlers, Publish(h) \/ PublishFails(h) PROVE Link'
  <2>1. /\ at[h] = "publish" /\ Release(h) /\ UNCHANGED <<vars, phase, drawn>> /\ phase # "down"
        /\ published' \in SUBSET Devices /\ publisher' \in {"nobody", "call", "start"} /\ behind' \in BOOLEAN
        /\ fresh' \in SUBSET Claims /\ granted' \in SUBSET Claims
    BY <1>10 DEF Publish, PublishFails, start, claims, Link, DriverTypeOK
  <2>2. pc'[h] = "idle" /\ UNCHANGED up /\ \A k \in Handlers : pc'[k] = pc[k] /\ claim'[k] = claim[k]
    BY <2>1 DEF Link, vars, memory, handler
  <2> QED
    BY <1>1, <2>1, <2>2, ReleaseLinks
<1>11. ASSUME NEW h \in Handlers, PanicInCall(h) PROVE Link'
  BY <1>11, StopLinks DEF PanicInCall, Panic
<1>12. CASE StartFails \/ Killed
  BY <1>12, StopLinks DEF StartFails, Killed, Crash
<1>13. CASE Restart
  BY <1>1, <1>13 DEF Restart, Boot, rpc, slice, claims, handler, Link, DriverTypeOK, Phases
<1> QED
  BY <1>2, <1>3, <1>4, <1>5, <1>6, <1>7, <1>8, <1>9, <1>10, <1>11, <1>12, <1>13 DEF DriverNext, Serve

\* Control and Link hold in every state.
LEMMA LinkInvariant == ASSUME MayCrash PROVE DriverSpec => [](Control /\ Link)
<1>1. Control /\ Link /\ [DriverNext]_allVars => Control' /\ Link'
  BY MayCrash, DriverStep, ControlNext, LinkNext
<1> QED
  BY <1>1, DriverStart, PTL DEF DriverSpec

\* The plugin uses DeviceState as its specification says, deaths included: what is
\* proved of DeviceState holds of the plugin.
THEOREM DriverImplements == ASSUME MayCrash PROVE DriverSpec => Spec
<1>1. Link /\ [DriverNext]_allVars => [Next]_vars
  BY MayCrash, DriverStep
<1> QED
  BY <1>1, LinkInvariant, MayCrash, DriverStart, PTL DEF DriverSpec, Spec

\* Every variable of the driver keeps its type.
THEOREM DriverTypes == ASSUME MayCrash PROVE DriverSpec => []DriverTypeOK
<1>1. Link => DriverTypeOK
  BY DEF Link
<1> QED
  BY <1>1, LinkInvariant, MayCrash, PTL

----------------------------------------------------------------------------
\* The lists.

\* The steps that leave the devices and everything published alone.
LEMMA QuietDriver ==
    ASSUME MayCrash, Control, Link,
           \/ UNCHANGED allVars
           \/ AssignHelper \/ StartHealthcheck \/ BeginDrawing \/ EndDrawing
           \/ \E h \in Handlers : Arrive(h)
    PROVE  /\ UNCHANGED <<vars, pulock, slice, claims, serving, list>>
           /\ \A h \in Handlers : at'[h] = at[h] \/ (at[h] = "idle" /\ at'[h] = "queue")
           /\ \A h \in Handlers : at[h] = "state" => op'[h] = op[h]
<1>1. ASSUME NEW h \in Handlers, Arrive(h)
      PROVE  /\ UNCHANGED <<vars, pulock, slice, claims, serving, list>>
             /\ \A k \in Handlers : at'[k] = at[k] \/ (at[k] = "idle" /\ at'[k] = "queue")
             /\ \A k \in Handlers : at[k] = "state" => op'[k] = op[k]
  <2>1. \A k \in Handlers : at[k] = "state" => k # h
    BY <1>1 DEF Arrive
  <2>2. \E what \in {"prepare", "unprepare"} : op' = [op EXCEPT ![h] = what]
    BY <1>1 DEF Arrive
  <2> QED
    BY <1>1, <2>1, <2>2 DEF Arrive, Link, DriverTypeOK
<1>2. CASE UNCHANGED allVars
  BY <1>2 DEF allVars, driverVars, rpc
<1>3. CASE AssignHelper \/ StartHealthcheck \/ BeginDrawing \/ EndDrawing
  BY <1>3 DEF rpc, AssignHelper, StartHealthcheck, BeginDrawing, EndDrawing
<1> QED
  BY <1>1, <1>2, <1>3

\* Every step keeps Lists.
LEMMA ListsNext == ASSUME MayCrash, Control, Link, Lists, [DriverNext]_allVars PROVE Lists'
<1> USE DEF Lists, PublishedIsCurrent
<1> USE NoneAssumption
<1>1. CASE \/ UNCHANGED allVars
           \/ AssignHelper \/ StartHealthcheck \/ BeginDrawing \/ EndDrawing
           \/ \E h \in Handlers : Arrive(h)
  BY <1>1, QuietDriver DEF vars, memory, slice
<1>2. CASE FirstPublish
  BY <1>2 DEF FirstPublish, vars, memory, rpc
<1>3. ASSUME NEW h \in Handlers, Enter(h) PROVE Lists'
  BY <1>3 DEF Enter, Call, memory, Link, DriverTypeOK
<1>4. ASSUME NEW h \in Handlers, Work(h) PROVE Lists'
  BY <1>4, Inside DEF Work, driverVars, rpc, slice, Link
<1>5. ASSUME NEW h \in Handlers, Succeed(h) PROVE Lists'
  <2>1. at[h] = "state" /\ pulock' = h /\ at' = [at EXCEPT ![h] = "read"]
    BY <1>5 DEF Succeed, Link
  <2> QED
    BY <2>1 DEF Link, DriverTypeOK
<1>6. ASSUME NEW h \in Handlers, FailCall(h) PROVE Lists'
  BY <1>6 DEF FailCall, Release, Link, DriverTypeOK
<1>7. ASSUME NEW h \in Handlers, List(h) PROVE Lists'
  BY <1>7 DEF List, vars, memory, Link, DriverTypeOK
<1>8. ASSUME NEW h \in Handlers, Publish(h) \/ PublishFails(h) PROVE Lists'
  BY <1>8 DEF Publish, PublishFails, Release, vars, memory, Link, DriverTypeOK
<1>9. CASE StartFails \/ Killed \/ \E h \in Handlers : PanicInCall(h)
  BY <1>9 DEF StartFails, Killed, PanicInCall, Stop
<1>10. CASE Restart
  BY <1>10 DEF Restart, Boot, rpc, slice, Link
<1> QED
  BY <1>1, <1>2, <1>3, <1>4, <1>5, <1>6, <1>7, <1>8, <1>9, <1>10 DEF DriverNext, Serve, Starting

\* Between calls the helper has the current list, unless a call failed.
THEOREM Current == ASSUME MayCrash PROVE DriverSpec => []PublishedIsCurrent
<1>1. DriverInit => Lists
  BY DEF DriverInit, Lists, PublishedIsCurrent
<1>2. Control /\ Link /\ Lists /\ [DriverNext]_allVars => Lists'
  BY MayCrash, ListsNext
<1>3. Lists => PublishedIsCurrent
  BY DEF Lists
<1> QED
  BY <1>1, <1>2, <1>3, LinkInvariant, MayCrash, PTL DEF DriverSpec

----------------------------------------------------------------------------
\* The twins.

\* Every step keeps FreshHeld.
LEMMA FreshHeldNext ==
    ASSUME MayCrash, Exclusive, Control, Link, Twins, Lists, FreshHeld, [DriverNext]_allVars
    PROVE  FreshHeld'
<1> USE DEF FreshHeld, TwinNotOffered
<1>1. ASSUME UNCHANGED allocatable PROVE \A c : Held(c)' <=> Held(c)
  BY <1>1 DEF Held, DevicesOfClaim, SiblingsOf
<1>2. CASE \/ UNCHANGED allVars
           \/ AssignHelper \/ StartHealthcheck \/ BeginDrawing \/ EndDrawing
           \/ \E h \in Handlers : Arrive(h)
  <2>1. UNCHANGED <<allocatable, claim, fresh, granted, published, publisher>>
    BY <1>2, QuietDriver DEF vars, memory, handler, slice, claims
  <2>2. \A h \in Handlers : at'[h] = "state" => at[h] = "state" /\ op'[h] = op[h]
    BY <1>2, QuietDriver
  <2> QED
    BY <1>1, <2>1, <2>2 DEF DevicesOfClaim, SiblingsOf
<1>3. CASE FirstPublish
  <2>1. UNCHANGED <<allocatable, claim, at, op, fresh, granted>> /\ publisher' = "start"
    BY <1>3 DEF FirstPublish, vars, memory, handler, rpc, claims
  <2> QED
    BY <1>1, <2>1
<1>4. ASSUME NEW h \in Handlers, Enter(h) PROVE FreshHeld'
  <2>1. UNCHANGED <<allocatable, op, published, publisher>> /\ pulock = None
    BY <1>4 DEF Enter, Call, memory, slice
  <2>2. at' = [at EXCEPT ![h] = "state"] /\ \E c \in Claims : claim' = [claim EXCEPT ![h] = c]
    BY <1>4 DEF Enter, Call
  <2>3. IF op[h] = "prepare" THEN UNCHANGED <<fresh, granted>>
        ELSE fresh' = fresh \ {claim'[h]} /\ granted' = granted \ {claim'[h]}
    BY <1>4 DEF Enter, claims
  <2>4. \A k \in Handlers : k # h => at'[k] # "state"
    BY <2>1, <2>2, NoneAssumption DEF Link, DriverTypeOK
  <2>5. fresh' \subseteq fresh /\ granted' \subseteq granted /\ granted' \subseteq fresh'
    BY <2>3
  <2>6. \A c \in fresh' : Held(c)'
    BY <1>1, <2>1, <2>5
  <2>7. op'[h] # "prepare" => claim'[h] \notin fresh'
    BY <2>1, <2>3
  <2>8. TwinNotOffered'
    BY <2>1, <2>5 DEF DevicesOfClaim, SiblingsOf
  <2> QED
    BY <2>4, <2>5, <2>6, <2>7, <2>8
<1>5. ASSUME NEW h \in Handlers, Work(h) \/ Succeed(h) \/ FailCall(h),
             NEW c \in fresh
      PROVE  Held(c)'
  <2>1. at[h] = "state" /\ pulock = h /\ (Acquire(h) \/ Step(h)) /\ up /\ up'
    BY <1>5, Inside, OwnPath DEF Link
  <2>2. \A k \in Handlers : pc[k] = "uDiscover" => claim[k] # c
    <3> SUFFICES ASSUME NEW k \in Handlers, pc[k] = "uDiscover" PROVE claim[k] # c
      OBVIOUS
    <3>1. at[k] = "state" /\ op[k] # "prepare"
      BY DEF Link, PreparePCs
    <3> QED
      BY <3>1
  <2>3. Next /\ c \in Claims
    BY <2>1 DEF Next, Link, DriverTypeOK
  <2> QED
    BY <2>1, <2>2, <2>3, HeldStays
<1>6. ASSUME NEW h \in Handlers, Work(h) \/ Succeed(h) \/ FailCall(h)
      PROVE  \A k \in Handlers : at'[k] = "state" => k = h /\ Work(h) /\ claim'[k] = claim[k] /\ op'[k] = op[k]
  <2>1. at[h] = "state" /\ (Acquire(h) \/ Step(h))
    BY <1>6, Inside
  <2>2. \A k \in Handlers : k # h => at[k] # "state"
    BY <2>1 DEF Link
  <2>3. CASE Work(h)
    BY <2>1, <2>2, <2>3, Outcomes, OwnPath DEF driverVars, rpc
  <2>4. CASE Succeed(h)
    BY <2>2, <2>4 DEF Succeed, Link, DriverTypeOK
  <2>5. CASE FailCall(h)
    BY <2>2, <2>5 DEF FailCall, Release, Link, DriverTypeOK
  <2> QED
    BY <1>6, <2>3, <2>4, <2>5
<1>7. ASSUME NEW h \in Handlers, Work(h) \/ FailCall(h) PROVE FreshHeld'
  <2>1. UNCHANGED <<fresh, granted, published, publisher>>
    BY <1>7 DEF Work, FailCall, driverVars, slice, claims
  <2>2. \A c \in fresh' : Held(c)'
    BY <1>5, <1>7, <2>1
  <2>3. \A k \in Handlers : at'[k] = "state" => claim'[k] = claim[k] /\ op'[k] = op[k] /\ at[k] = "state"
    BY <1>6, <1>7, Inside
  <2>4. TwinNotOffered'
    BY <2>1 DEF DevicesOfClaim, SiblingsOf
  <2> QED
    BY <2>1, <2>2, <2>3, <2>4
<1>8. ASSUME NEW h \in Handlers, Succeed(h) PROVE FreshHeld'
  <2>1. UNCHANGED <<granted, published, publisher>>
    BY <1>8 DEF Succeed, slice
  <2>2. ASSUME NEW c \in fresh' \ fresh PROVE Held(c)'
    <3>1. PrepareComplete(h) /\ c = claim[h]
      BY <1>8, <2>2 DEF Succeed, Succeeds
    <3>2. Held(c) /\ UNCHANGED allocatable
      BY <3>1 DEF PrepareComplete, Twins, memory
    <3> QED
      BY <1>1, <3>2
  <2>3. fresh \subseteq fresh'
    BY <1>8 DEF Succeed, Succeeds
  <2>4. ~Work(h)
    BY <1>8, Outcomes DEF Work
  <2> QED
    BY <1>5, <1>6, <1>8, <2>1, <2>2, <2>3, <2>4 DEF DevicesOfClaim, SiblingsOf
<1>9. ASSUME NEW h \in Handlers, List(h) \/ Publish(h) \/ PublishFails(h) PROVE FreshHeld'
  <2>1. UNCHANGED <<allocatable, claim, fresh>> /\ granted \subseteq granted' /\ granted' \subseteq fresh
    BY <1>9 DEF List, Publish, PublishFails, vars, memory, handler, claims
  <2>2. \A k \in Handlers : at'[k] # "state"
    BY <1>9 DEF List, Publish, PublishFails, Release, Link, DriverTypeOK
  <2>3. TwinNotOffered'
    <3>1. CASE Publish(h)
      <4>1. published' = allocatable
        BY <3>1 DEF Publish, Lists
      <4>2. \A c \in granted' : Held(c)
        BY <2>1
      <4> QED
        BY <4>1, <4>2 DEF Held, DevicesOfClaim, SiblingsOf
    <3>2. CASE List(h) \/ PublishFails(h)
      <4>1. UNCHANGED <<granted, published, publisher>>
        BY <3>2 DEF List, PublishFails, slice, claims
      <4> QED
        BY <4>1 DEF DevicesOfClaim, SiblingsOf
    <3> QED
      BY <1>9, <3>1, <3>2
  <2> QED
    BY <1>1, <2>1, <2>2, <2>3
<1>10. CASE StartFails \/ Killed \/ \E h \in Handlers : PanicInCall(h)
  BY <1>10 DEF StartFails, Killed, PanicInCall, Stop
<1>11. CASE Restart
  BY <1>11 DEF Restart, Boot, rpc, slice, claims, handler, Link
<1> QED
  BY <1>2, <1>3, <1>4, <1>7, <1>8, <1>9, <1>10, <1>11 DEF DriverNext, Serve, Starting

\* The twins of a claim's devices are not offered from the answer to its call on.
THEOREM TwinsWithdrawn == ASSUME MayCrash, Exclusive PROVE DriverSpec => []TwinNotOffered
<1>1. DriverInit => Lists /\ FreshHeld
  BY DEF DriverInit, Lists, FreshHeld, PublishedIsCurrent, TwinNotOffered
<1>2. /\ Control /\ Link /\ Twins /\ Lists /\ FreshHeld /\ [DriverNext]_allVars
      => Lists' /\ FreshHeld'
  BY MayCrash, Exclusive, ListsNext, FreshHeldNext
<1>3. FreshHeld => TwinNotOffered
  BY DEF FreshHeld
<1> QED
  BY <1>1, <1>2, <1>3, LinkInvariant, DriverImplements, TwinsInvariant, MayCrash, PTL DEF DriverSpec

----------------------------------------------------------------------------
\* The calls of the kubelet, through the driver and with the deaths it adds, keep
\* the journal of claims: written ahead, no update lost, and true of the host.
THEOREM PluginKeepsJournal ==
    ASSUME MayCrash, NoHostdir
    PROVE  DriverSpec => /\ ImplementsJournal /\ OtherEntriesUntouched
                         /\ [](WriteAhead /\ ReleasedIsClean /\ GrantedIsReal)
BY MayCrash, NoHostdir, DriverImplements, Refinement, NoLostUpdate, WriteAheadHolds, ReleaseIsClean,
   GrantHolds, PTL
====
