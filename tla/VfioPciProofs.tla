---- MODULE VfioPciProofs ----
(***************************************************************************)
(* What switching drivers keeps, for any GPUs, callers and faults.  The    *)
(* mutex gives every step a GPU to itself (Exclusive); the rest says what  *)
(* each place in the scripts has written so far.                           *)
(***************************************************************************)
EXTENDS VfioPci, TLAPS

\* A caller that is past Lock holds the mutex of its GPU.
Exclusive == \A c \in Callers : pc[c] \in Inside => gpuLock[gpu[c]] = c

\* A GPU that amdgpu will lose next is locked for unbinding, and no one has it open.
Pinning ==
    /\ users \cap pinned = {}
    /\ \A c \in Callers :
          pc[c] = "writeUnbind" /\ driver[gpu[c]] = "amdgpu" => gpu[c] \in pinned

\* An override that names another driver than the GPU's own, and no reason for it.
Astray(g) ==
    /\ g \notin orphaned
    /\ driver[g] # "none" /\ override[g] \notin {"", driver[g]}

\* Only a caller that is about to bind the GPU leaves an override like that.
Overriding ==
    /\ \A c \in Callers : pc[c] = "writeBind" => override[gpu[c]] = want[c]
    /\ \A g \in Gpus :
          Astray(g) => \E c \in Callers : pc[c] = "writeBind" /\ gpu[c] = g

\* A caller goes on to wait or unbind, or is done.
LEMMA VerdictIs ==
    \A d \in Drivers, w \in Switchable :
        /\ Verdict(d, w) \in {"wait", "unbind", "ok", "failed"}
        /\ Verdict(d, w) = "ok" <=> d = w
  BY DEF Verdict, Drivers, Switchable

LEMMA BreakLeaves == ASSUME TypeOK, NEW f, Break(f) PROVE left' \in 0..MaxFaults
<1>1. left \in 0..MaxFaults /\ left > 0 /\ left' = left - 1
  BY DEF TypeOK, Break
<1> QED BY <1>1, BoundAssumption

LEMMA TypeInit == Init => TypeOK
<1> SUFFICES ASSUME Init PROVE TypeOK
  OBVIOUS
<1>1. driver \in [Gpus -> Drivers] /\ want \in [Callers -> Switchable]
  BY VfioAssumption DEF Init
<1>2. left = MaxFaults
  BY DEF Init
<1>3. left \in 0..MaxFaults
  BY <1>2, BoundAssumption
<1> QED BY <1>1, <1>3 DEF Init, TypeOK

LEMMA TypeNext == TypeOK /\ [Next]_vars => TypeOK'
<1> SUFFICES ASSUME TypeOK, [Next]_vars PROVE TypeOK'
  OBVIOUS
<1> USE BreakLeaves DEF TypeOK, Goto, Inside, kernel, plugin
<1>1. ASSUME NEW c \in Callers, Call(c) \/ Lock(c) PROVE TypeOK'
  <2>1. CASE Call(c)
    BY <2>1, VfioAssumption DEF Call
  <2>2. CASE Lock(c)
    BY <2>2 DEF Lock
  <2> QED BY <1>1, <2>1, <2>2
<1>2. ASSUME NEW c \in Callers, Look(c) PROVE TypeOK'
  BY <1>2, VerdictIs DEF Look
<1>3. ASSUME NEW c \in Callers, FoundFree(c) PROVE TypeOK'
  BY <1>3 DEF FoundFree
<1>4. ASSUME NEW c \in Callers, TimedOut(c) PROVE TypeOK'
  BY <1>4 DEF TimedOut
<1>5. ASSUME NEW c \in Callers, VerifyDisabledVFs(c) PROVE TypeOK'
  BY <1>5 DEF VerifyDisabledVFs
<1>6. ASSUME NEW c \in Callers, AcquireUnbindLock(c) PROVE TypeOK'
  <2>1. /\ Goto(c, "writeUnbind") \/ Goto(c, "failed")
        /\ pinned' \subseteq Gpus /\ UNCHANGED <<driver, override, users, left, orphaned>>
    BY <1>6, Zenon DEF AcquireUnbindLock
  <2> QED BY <2>1
<1>7. ASSUME NEW c \in Callers, WriteUnbind(c) PROVE TypeOK'
  BY <1>7 DEF WriteUnbind, Drivers
<1>8. ASSUME NEW c \in Callers, WriteOverride(c) PROVE TypeOK'
  <2> DEFINE g == gpu[c]
  <2>1. g \in Gpus /\ want[c] \in Switchable
    OBVIOUS
  <2>4. /\ override' \in {override, [override EXCEPT ![g] = want[c]]}
        /\ orphaned' \in {orphaned, orphaned \ {g}, orphaned \cup {g}}
    BY <1>8, Zenon DEF WriteOverride
  <2>5. orphaned' \subseteq Gpus
    BY <2>1, <2>4
  <2>6. override' \in [Gpus -> Switchable \cup {""}]
    BY <2>1, <2>4
  <2>2. /\ left' = left \/ \E f \in Faults : Break(f)
        /\ Goto(c, "writeBind") \/ Goto(c, "failed")
    BY <1>8, Zenon DEF WriteOverride, Break
  <2>3. UNCHANGED <<driver, users, pinned>>
    BY <1>8 DEF WriteOverride
  <2>7. left' \in 0..MaxFaults
    BY <2>2
  <2>8. pc' \in [Callers -> {"idle", "lock"} \cup Inside] /\ UNCHANGED <<gpuLock, gpu, want>>
    BY <2>2
  <2> QED BY <2>3, <2>5, <2>6, <2>7, <2>8
<1>9. ASSUME NEW c \in Callers, WriteBind(c) PROVE TypeOK'
  BY <1>9 DEF WriteBind, Drivers
<1>10. ASSUME NEW c \in Callers, BindFails(c) PROVE TypeOK'
  BY <1>10 DEF BindFails, BindRefused
<1>11. ASSUME NEW c \in Callers, Unlock(c) PROVE TypeOK'
  BY <1>11 DEF Unlock
<1>12. ASSUME NEW g \in Gpus, OpenGpu(g) \/ CloseGpu(g) PROVE TypeOK'
  BY <1>12 DEF OpenGpu, CloseGpu
<1>13. ASSUME Crash PROVE TypeOK'
  BY <1>13 DEF Crash
<1>14. CASE UNCHANGED vars
  BY <1>14 DEF vars
<1> QED BY <1>1, <1>2, <1>3, <1>4, <1>5, <1>6, <1>7, <1>8, <1>9, <1>10, <1>11, <1>12, <1>13, <1>14 DEF Next, Step

\* The types hold: every step of the plugin and of the scripts keeps them.
THEOREM TypeCorrect == Spec => []TypeOK
  BY TypeInit, TypeNext, PTL DEF Spec

----------------------------------------------------------------------------
\* A step of a caller, seen from the others: it is inside, and touches its own GPU.
Frame(c) ==
    /\ pc[c] \in Inside
    /\ pc'[c] \in Inside => gpuLock' = gpuLock
    /\ \A d \in Callers \ {c} : pc'[d] = pc[d]
    /\ \A g \in Gpus \ {gpu[c]} :
          /\ driver'[g] = driver[g] /\ override'[g] = override[g]
          /\ gpuLock'[g] = gpuLock[g]
          /\ g \in pinned => g \in pinned'
          /\ g \in orphaned' <=> g \in orphaned
    /\ UNCHANGED <<gpu, want, users>>

LEMMA StepFrame == ASSUME TypeOK, NEW c \in Callers, Step(c) PROVE Frame(c)
<1> USE DEF TypeOK, Goto, Inside, kernel, Frame
<1>1. CASE Look(c)
  BY <1>1 DEF Look
<1>2. CASE FoundFree(c)
  BY <1>2 DEF FoundFree
<1>3. CASE TimedOut(c)
  BY <1>3 DEF TimedOut
<1>4. CASE VerifyDisabledVFs(c)
  BY <1>4 DEF VerifyDisabledVFs
<1>5. CASE AcquireUnbindLock(c)
  BY <1>5 DEF AcquireUnbindLock
<1>6. CASE WriteUnbind(c)
  BY <1>6 DEF WriteUnbind
<1>7. CASE WriteOverride(c)
  BY <1>7 DEF WriteOverride
<1>8. CASE WriteBind(c)
  BY <1>8 DEF WriteBind
<1>9. CASE BindFails(c)
  BY <1>9 DEF BindFails
<1>10. CASE Unlock(c)
  BY <1>10 DEF Unlock
<1> QED BY <1>1, <1>2, <1>3, <1>4, <1>5, <1>6, <1>7, <1>8, <1>9, <1>10 DEF Step

\* The mutex of vfio-device.go:231 and :262 keeps all other callers off the GPU.
LEMMA ExclusiveNext == TypeOK /\ Exclusive /\ [Next]_vars => Exclusive'
<1> SUFFICES ASSUME TypeOK, Exclusive, [Next]_vars PROVE Exclusive'
  OBVIOUS
<1>1. ASSUME NEW c \in Callers, Call(c) PROVE Exclusive'
  BY <1>1 DEF Call, TypeOK, Exclusive, Inside
<1>2. ASSUME NEW c \in Callers, Lock(c) PROVE Exclusive'
  BY <1>2, CallerAssumption DEF Lock, TypeOK, Exclusive, Inside
<1>3. ASSUME NEW c \in Callers, Step(c) PROVE Exclusive'
  <2>1. Frame(c)
    BY <1>3, StepFrame
  <2>2. \A d \in Callers \ {c} : pc'[d] \in Inside => gpu[d] # gpu[c]
    BY <2>1 DEF Frame, Exclusive
  <2>3. \A d \in Callers : gpu[d] \in Gpus
    BY DEF TypeOK
  <2>4. \A d \in Callers \ {c} : pc'[d] \in Inside => gpuLock'[gpu'[d]] = d
    BY <2>1, <2>2, <2>3 DEF Frame, Exclusive
  <2>5. pc'[c] \in Inside => gpuLock'[gpu'[c]] = c
    BY <2>1 DEF Frame, Exclusive
  <2> QED BY <2>4, <2>5 DEF Exclusive
<1>4. ASSUME NEW g \in Gpus, OpenGpu(g) \/ CloseGpu(g) PROVE Exclusive'
  BY <1>4 DEF OpenGpu, CloseGpu, plugin, Exclusive
<1>5. ASSUME Crash PROVE Exclusive'
  BY <1>5 DEF Crash, Exclusive, Inside
<1>6. CASE UNCHANGED vars
  BY <1>6 DEF vars, plugin, Exclusive
<1> QED BY <1>1, <1>2, <1>3, <1>4, <1>5, <1>6 DEF Next

LEMMA ExclusiveInvariant == Spec => [](TypeOK /\ Exclusive)
<1>1. Init => Exclusive
  BY DEF Init, Exclusive, Inside
<1> QED BY <1>1, TypeInit, TypeNext, ExclusiveNext, PTL DEF Spec

----------------------------------------------------------------------------
\* What no other caller has touched, and the step has: the properties, GPU by GPU.

\* A caller that succeeds has the driver it asked for: it has seen it or bound it
\* itself, and no other caller had the GPU since (vfio-device.go:230-282).
LEMMA BoundNext == TypeOK /\ Exclusive /\ BoundAsAsked /\ [Next]_vars => BoundAsAsked'
<1> SUFFICES ASSUME TypeOK, Exclusive, BoundAsAsked, [Next]_vars PROVE BoundAsAsked'
  OBVIOUS
<1>1. ASSUME NEW c \in Callers, Call(c) \/ Lock(c) PROVE BoundAsAsked'
  BY <1>1 DEF Call, Lock, BoundAsAsked, TypeOK, kernel
<1>2. ASSUME NEW c \in Callers, Step(c) PROVE BoundAsAsked'
  <2>1. Frame(c) /\ \A d \in Callers : gpu[d] \in Gpus
    BY <1>2, StepFrame DEF TypeOK
  <2>2. ASSUME NEW d \in Callers \ {c}, pc'[d] = "ok" PROVE driver'[gpu'[d]] = want'[d]
    <3>1. gpu[d] # gpu[c] /\ pc[d] = "ok"
      BY <2>1, <2>2 DEF Frame, Exclusive, Inside
    <3> QED BY <2>1, <3>1 DEF Frame, BoundAsAsked
  <2>3. pc'[c] = "ok" => Look(c) \/ WriteBind(c)
    BY <1>2 DEF Step, FoundFree, TimedOut, VerifyDisabledVFs, AcquireUnbindLock, WriteUnbind,
       WriteOverride, BindFails, Unlock, Goto, TypeOK
  <2>4. pc'[c] = "ok" => driver'[gpu'[c]] = want'[c]
    <3>1. CASE Look(c)
      BY <3>1, VerdictIs DEF Look, Goto, TypeOK, kernel
    <3>2. CASE WriteBind(c)
      BY <3>2 DEF WriteBind, Goto, TypeOK
    <3> QED BY <2>3, <3>1, <3>2
  <2> QED BY <2>2, <2>4 DEF BoundAsAsked
<1>3. ASSUME NEW g \in Gpus, OpenGpu(g) \/ CloseGpu(g) PROVE BoundAsAsked'
  BY <1>3 DEF OpenGpu, CloseGpu, plugin, BoundAsAsked
<1>4. ASSUME Crash PROVE BoundAsAsked'
  BY <1>4 DEF Crash, BoundAsAsked
<1>5. CASE UNCHANGED vars
  BY <1>5 DEF vars, kernel, plugin, BoundAsAsked
<1> QED BY <1>1, <1>2, <1>3, <1>4, <1>5 DEF Next

\* Configure and Unconfigure that succeed have bound the GPU as asked, for any
\* number of GPUs and callers and any faults of the scripts.
THEOREM SuccessBinds == Spec => []BoundAsAsked
<1>1. Init => BoundAsAsked
  BY DEF Init, BoundAsAsked
<1> QED BY <1>1, ExclusiveInvariant, BoundNext, PTL DEF Spec

----------------------------------------------------------------------------
\* The unbindLock closes the gap between the answer of fuser and the unbind.
LEMMA PinningNext ==
    ASSUME UnbindLock, TypeOK, Exclusive, Pinning, [Next]_vars
    PROVE  Pinning'
<1>1. ASSUME NEW c \in Callers, Call(c) \/ Lock(c) PROVE Pinning'
  BY <1>1 DEF Call, Lock, Pinning, TypeOK, kernel
<1>2. ASSUME NEW c \in Callers, Step(c) PROVE Pinning'
  <2>1. Frame(c) /\ \A d \in Callers : gpu[d] \in Gpus
    BY <1>2, StepFrame DEF TypeOK
  <2>2. ASSUME NEW d \in Callers \ {c}, pc'[d] = "writeUnbind", driver'[gpu'[d]] = "amdgpu"
        PROVE  gpu'[d] \in pinned'
    <3>1. gpu[d] # gpu[c] /\ pc[d] = "writeUnbind"
      BY <2>1, <2>2 DEF Frame, Exclusive, Inside
    <3> QED BY <2>1, <2>2, <3>1 DEF Frame, Pinning
  <2>3. CASE AcquireUnbindLock(c)
    <3>1. users' \cap pinned' = {}
      BY <2>3 DEF AcquireUnbindLock, Pinning
    <3>2. pc'[c] = "writeUnbind" /\ driver'[gpu'[c]] = "amdgpu" => gpu'[c] \in pinned'
      BY <2>3 DEF AcquireUnbindLock, NeedsUnbindLock, Goto, TypeOK
    <3> QED BY <2>2, <3>1, <3>2 DEF Pinning
  <2>4. CASE ~AcquireUnbindLock(c)
    <3>1. pc'[c] # "writeUnbind" /\ pinned' \subseteq pinned
      <4>1. CASE Look(c)
        BY <4>1, VerdictIs DEF Look, Goto, TypeOK, kernel
      <4>2. CASE FoundFree(c) \/ TimedOut(c) \/ VerifyDisabledVFs(c)
        BY <4>2 DEF FoundFree, TimedOut, VerifyDisabledVFs, Goto, TypeOK, kernel
      <4>3. CASE WriteUnbind(c) \/ WriteOverride(c)
        BY <4>3 DEF WriteUnbind, WriteOverride, Goto, TypeOK
      <4>4. CASE WriteBind(c) \/ BindFails(c) \/ Unlock(c)
        BY <4>4 DEF WriteBind, BindFails, Unlock, Goto, TypeOK, kernel
      <4> QED BY <1>2, <2>4, <4>1, <4>2, <4>3, <4>4 DEF Step
    <3> QED BY <2>1, <2>2, <3>1 DEF Pinning, Frame
  <2> QED BY <2>3, <2>4
<1>3. ASSUME NEW g \in Gpus, OpenGpu(g) \/ CloseGpu(g) PROVE Pinning'
  BY <1>3 DEF OpenGpu, CloseGpu, plugin, Pinning
<1>4. ASSUME Crash PROVE Pinning'
  BY <1>4 DEF Crash, Pinning, kernel
<1>5. CASE UNCHANGED vars
  BY <1>5 DEF vars, kernel, plugin, Pinning
<1> QED BY <1>1, <1>2, <1>3, <1>4, <1>5 DEF Next

\* With an unbindLock file amdgpu never loses a GPU that is open, for any number of
\* processes, whatever fuser said a moment ago (unbind_from_driver.sh:46-49).
THEOREM UsersKeepGpus == ASSUME UnbindLock PROVE Spec => NoUserLosesGpu
<1> DEFINE Kept == \A g \in Gpus : driver[g] = "amdgpu" /\ driver'[g] # "amdgpu" => g \notin users
<1>1. Init => Pinning
  BY DEF Init, Pinning
<1>2. TypeOK /\ Exclusive /\ Pinning /\ [Next]_vars => Pinning'
  BY PinningNext
<1>3. TypeOK /\ Pinning /\ [Next]_vars => [Kept]_vars
  <2> SUFFICES ASSUME TypeOK, Pinning, Next PROVE Kept
    OBVIOUS
  <2>1. CASE driver' = driver
    BY <2>1
  <2>2. ASSUME NEW c \in Callers, WriteUnbind(c) PROVE Kept
    <3>1. gpu[c] \in Gpus /\ \A g \in Gpus \ {gpu[c]} : driver'[g] = driver[g]
      BY <2>2 DEF WriteUnbind, TypeOK
    <3>2. driver[gpu[c]] = "amdgpu" => gpu[c] \notin users
      BY <2>2 DEF WriteUnbind, Pinning
    <3> QED BY <3>1, <3>2
  <2>3. ASSUME NEW c \in Callers, WriteBind(c) PROVE Kept
    BY <2>3 DEF WriteBind, TypeOK
  <2> QED
    BY <2>1, <2>2, <2>3 DEF Next, Step, Call, Lock, Look, FoundFree, TimedOut,
       VerifyDisabledVFs, AcquireUnbindLock, WriteOverride, BindFails, Unlock, OpenGpu,
       CloseGpu, Crash, kernel
<1> QED BY <1>1, <1>2, <1>3, ExclusiveInvariant, PTL DEF Spec, NoUserLosesGpu

----------------------------------------------------------------------------
\* The override is cleared by whoever fails to bind, or the GPU is orphaned.
LEMMA OverridingNext ==
    ASSUME TypeOK, Exclusive, Overriding, [Next]_vars
    PROVE  Overriding'
<1>1. ASSUME NEW c \in Callers, Call(c) \/ Lock(c) PROVE Overriding'
  <2>1. pc[c] # "writeBind" /\ pc'[c] # "writeBind" /\ UNCHANGED <<driver, override, orphaned>>
    BY <1>1 DEF Call, Lock, TypeOK, kernel
  <2>2. \A d \in Callers \ {c} : pc'[d] = pc[d] /\ gpu'[d] = gpu[d] /\ want'[d] = want[d]
    BY <1>1 DEF Call, Lock, TypeOK
  <2>3. \A d \in Callers : pc'[d] = "writeBind" => override'[gpu'[d]] = want'[d]
    BY <2>1, <2>2 DEF Overriding
  <2>4. \A d \in Callers, g \in Gpus :
            pc[d] = "writeBind" /\ gpu[d] = g => pc'[d] = "writeBind" /\ gpu'[d] = g
    BY <2>1, <2>2
  <2>5. \A g \in Gpus : Astray(g)' => Astray(g)
    BY <2>1 DEF Astray
  <2> QED BY <2>3, <2>4, <2>5 DEF Overriding
<1>2. ASSUME NEW c \in Callers, Step(c) PROVE Overriding'
  <2>1. Frame(c) /\ \A d \in Callers : gpu[d] \in Gpus
    BY <1>2, StepFrame DEF TypeOK
  <2>2. ASSUME NEW d \in Callers \ {c}, pc'[d] = "writeBind"
        PROVE  override'[gpu'[d]] = want'[d]
    <3>1. gpu[d] # gpu[c] /\ pc[d] = "writeBind"
      BY <2>1, <2>2 DEF Frame, Exclusive, Inside
    <3> QED BY <2>1, <3>1 DEF Frame, Overriding
  <2>3. ASSUME NEW g \in Gpus \ {gpu[c]}, Astray(g)'
        PROVE  \E d \in Callers : pc'[d] = "writeBind" /\ gpu'[d] = g
    <3>1. Astray(g)
      BY <2>1, <2>3 DEF Frame, Astray
    <3> PICK d \in Callers : pc[d] = "writeBind" /\ gpu[d] = g
      BY <3>1 DEF Overriding
    <3> QED BY <2>1, <2>3 DEF Frame
  <2>4. ASSUME pc'[c] # "writeBind", ~Astray(gpu[c])' PROVE Overriding'
    BY <2>1, <2>2, <2>3, <2>4 DEF Overriding, Frame
  <2>5. pc[c] # "writeBind" => ~Astray(gpu[c])
    <3> SUFFICES ASSUME pc[c] # "writeBind", Astray(gpu[c]) PROVE FALSE
      OBVIOUS
    <3>1. PICK d \in Callers : pc[d] = "writeBind" /\ gpu[d] = gpu[c]
      BY <2>1 DEF Overriding
    <3>2. gpuLock[gpu[d]] = d /\ gpuLock[gpu[c]] = c
      BY <2>1, <3>1 DEF Exclusive, Frame, Inside
    <3> QED BY <3>1, <3>2
  <2>6. CASE WriteOverride(c)
    <3>1. CASE pc'[c] = "writeBind"
      <4>1. override'[gpu'[c]] = want'[c]
        BY <2>6, <3>1 DEF WriteOverride, Goto, TypeOK
      <4> QED BY <2>1, <2>2, <2>3, <3>1, <4>1 DEF Overriding, Frame
    <3>2. CASE pc'[c] # "writeBind"
      <4>1. gpu[c] \in orphaned' \/ UNCHANGED <<driver, override, orphaned>>
        BY <2>6, <3>2 DEF WriteOverride, Goto, TypeOK
      <4>2. pc[c] # "writeBind"
        BY <2>6 DEF WriteOverride
      <4>3. gpu'[c] = gpu[c]
        BY <2>1 DEF Frame
      <4>4. ~Astray(gpu[c])'
        <5>1. CASE gpu[c] \in orphaned'
          BY <4>3, <5>1 DEF Astray
        <5>2. CASE UNCHANGED <<driver, override, orphaned>>
          BY <2>5, <4>2, <4>3, <5>2 DEF Astray
        <5> QED BY <4>1, <5>1, <5>2
      <4> QED BY <2>4, <3>2, <4>4
    <3> QED BY <3>1, <3>2
  <2>7. CASE WriteBind(c)
    BY <2>1, <2>4, <2>7 DEF WriteBind, Goto, TypeOK, Overriding, Astray
  <2>8. CASE BindFails(c)
    BY <2>1, <2>4, <2>8 DEF BindFails, Goto, TypeOK, Astray
  <2>9. CASE WriteUnbind(c)
    <3>1. pc[c] # "writeBind" /\ pc'[c] # "writeBind" /\ UNCHANGED <<override, orphaned, gpu>>
      BY <2>9 DEF WriteUnbind, Goto, TypeOK
    <3>2. driver'[gpu[c]] \in {"none", driver[gpu[c]]}
      BY <2>1, <2>9 DEF WriteUnbind, TypeOK
    <3> QED BY <2>4, <2>5, <3>1, <3>2 DEF Astray
  <2>10. CASE Look(c)
    BY <2>4, <2>5, <2>10, VerdictIs DEF Look, Goto, TypeOK, kernel, Astray
  <2>11. CASE FoundFree(c) \/ TimedOut(c) \/ VerifyDisabledVFs(c) \/ AcquireUnbindLock(c) \/ Unlock(c)
    <3>1. /\ pc[c] # "writeBind" /\ pc'[c] # "writeBind"
          /\ UNCHANGED <<driver, override, orphaned, gpu>>
      BY <2>11 DEF FoundFree, TimedOut, VerifyDisabledVFs, AcquireUnbindLock, Unlock, Goto, TypeOK, kernel
    <3> QED BY <2>4, <2>5, <3>1 DEF Astray
  <2> QED BY <1>2, <2>6, <2>7, <2>8, <2>9, <2>10, <2>11 DEF Step
<1>3. ASSUME NEW g \in Gpus, OpenGpu(g) \/ CloseGpu(g) PROVE Overriding'
  BY <1>3 DEF OpenGpu, CloseGpu, plugin, Overriding, Astray
<1>4. ASSUME Crash PROVE Overriding'
  <2>1. \A c \in Callers : pc'[c] = "idle"
    BY <1>4 DEF Crash
  <2>2. ASSUME NEW g \in Gpus, Astray(g)' PROVE FALSE
    <3>1. Astray(g)
      BY <1>4, <2>2 DEF Crash, Astray, kernel
    <3>2. PICK c \in Callers : pc[c] = "writeBind" /\ gpu[c] = g
      BY <3>1 DEF Overriding
    <3>3. g \in orphaned'
      BY <1>4, <3>2 DEF Crash
    <3> QED BY <2>2, <3>3 DEF Astray
  <2> QED BY <2>1, <2>2 DEF Overriding
<1>5. CASE UNCHANGED vars
  BY <1>5 DEF vars, kernel, plugin, Overriding, Astray
<1> QED BY <1>1, <1>2, <1>3, <1>4, <1>5 DEF Next

\* A GPU no call is at work on keeps its driver at the next probe, whatever writes
\* the kernel refused (bind_to_driver.sh:32-35).
THEOREM OverrideStaysBehind == Spec => []OverrideFollows
<1>1. Init => Overriding
  BY DEF Init, Overriding, Astray
<1>2. TypeOK /\ Exclusive /\ Overriding /\ [Next]_vars => Overriding'
  BY OverridingNext
<1>3. TypeOK /\ Exclusive /\ Overriding => OverrideFollows
  <2> SUFFICES ASSUME Exclusive, Overriding, NEW g \in Gpus, gpuLock[g] = None, Astray(g)
               PROVE  FALSE
    BY DEF OverrideFollows, Astray
  <2>1. PICK c \in Callers : pc[c] = "writeBind" /\ gpu[c] = g
    BY DEF Overriding
  <2> QED BY <2>1, CallerAssumption DEF Exclusive, Inside
<1> QED BY <1>1, <1>2, <1>3, ExclusiveInvariant, PTL DEF Spec
====
