---- MODULE MpsDaemonProofs ----
(***************************************************************************)
(* What starting and stopping MPS daemons keeps, for any claims, GPUs and  *)
(* faults.  Stage says what each step of Start and Stop finds from those   *)
(* before it; Allocation says what the kubelet's allocations add.          *)
(***************************************************************************)
EXTENDS MpsDaemon, TLAPS

\* A call is for an allocated claim with an entry, and has done what its step
\* relies on.
Stage ==
    /\ pc # "idle" =>
          /\ alloc[serving] \in {"held", "dying"}
          /\ told[serving] # "unprepared" /\ entry[serving] # "Absent"
    /\ pc \in StartPCs \ {"complete"} => SharingOf[serving] = "mps"
    /\ pc = "slice" => SharingOf[serving] = "timeSlicing"
    /\ pc \in {"mount", "exclusive", "create"} => serving \in root
    /\ pc \in {"exclusive", "create"} => mounts[serving] > 0
    /\ pc \in {"mkdir", "mount", "unmount", "remove"} => deployment[serving] # "running"
    /\ pc = "remove" => mounts[serving] = 0
    /\ pc \in {"reset", "forget"} => serving \notin root

\* A claim has nothing before it is allocated, only an MPS claim has a daemon,
\* and no two claims are allocated the same GPU at once.
Allocation ==
    /\ \A c \in Claims :
          /\ alloc[c] = "new" => entry[c] = "Absent"
          /\ SharingOf[c] = "timeSlicing" => deployment[c] = "none"
    /\ \A c, d \in Claims :
          c # d /\ {alloc[c], alloc[d]} \subseteq {"held", "dying"}
              => GpusOf[c] \cap GpusOf[d] = {}

\* A GPU is set to EXCLUSIVE_PROCESS before its daemon is created, and back to
\* the default before the entry goes away.
Switched ==
    /\ pc = "create" => \A g \in GpusOf[serving] : mode[g] = "EXCLUSIVE_PROCESS"
    /\ pc = "forget" /\ TimeSlicing =>
          \A g \in GpusOf[serving] : mode[g] = "DEFAULT" /\ slice[g] = "Default"

\* Each tmpfs but the one a running daemon uses, or Start has just mounted and
\* Stop is about to unmount, stands for a failed step.
Stacks ==
    /\ StackBounded
    /\ \A c \in Claims :
          \/ deployment[c] = "running"
          \/ serving = c /\ pc \in {"exclusive", "create", "unmount"}
          \/ mounts[c] + left <= MaxFaults

Inv ==
    /\ TypeOK /\ Stage /\ Accounted /\ SetUp /\ Allocation
    /\ Switched /\ DaemonExclusive /\ FreeGpuDefault /\ Stacks

\* A step takes at most one of the faults that are left.
LEMMA FaultLeaves == ASSUME TypeOK, left > 0, left' = left - 1 PROVE left' \in 0..MaxFaults
  BY BoundAssumption DEF TypeOK

\* What a call does, without the choice between the managers.
LEMMA PrepareDoes ==
    ASSUME NEW c \in Claims, CallPrepare(c)
    PROVE  /\ pc = "idle" /\ alloc[c] = "held"
           /\ entry' = [entry EXCEPT ![c] = "PrepareStarted"]
           /\ \/ UNCHANGED plugin
              \/ serving' = c /\ SharingOf[c] = "mps" /\ pc' = "check"
              \/ serving' = c /\ SharingOf[c] # "mps" /\ pc' \in {"slice", "complete"}
           /\ \/ told' = [told EXCEPT ![c] = "prepared"]
              \/ told' = [told EXCEPT ![c] = IF @ = "unprepared" THEN "nothing" ELSE @]
           /\ UNCHANGED <<cluster, root, mounts, gpus, alloc, left, torn>>
  BY Zenon DEF CallPrepare

LEMMA TypeInit == Init => TypeOK
  BY BoundAssumption DEF Init, TypeOK, PCs, Modes, Slices

LEMMA TypeNext == TypeOK /\ [Next]_vars => TypeOK'
<1> SUFFICES ASSUME TypeOK, [Next]_vars PROVE TypeOK'
  OBVIOUS
<1> USE DEF TypeOK, PCs, StartPCs, StopPCs, Modes, Slices, At, Return, cluster, gpus,
        plugin, kubelet
<1>1. ASSUME SetTimeSlice PROVE TypeOK'
  BY <1>1 DEF SetTimeSlice, SetModes, SetSlices
<1>2. ASSUME IsStarted PROVE TypeOK'
  BY <1>2 DEF IsStarted
<1>3. ASSUME MakeDirs PROVE TypeOK'
  BY <1>3 DEF MakeDirs
<1>4. ASSUME Mount PROVE TypeOK'
  BY <1>4 DEF Mount
<1>5. ASSUME SetExclusive PROVE TypeOK'
  BY <1>5 DEF SetExclusive, SetModes
<1>6. ASSUME Create PROVE TypeOK'
  BY <1>6 DEF Create
<1>7. ASSUME AssertReady PROVE TypeOK'
  BY <1>7 DEF AssertReady
<1>8. ASSUME NotReady PROVE TypeOK'
  BY <1>8 DEF NotReady
<1>9. ASSUME Complete PROVE TypeOK'
  BY <1>9 DEF Complete
<1>10. ASSUME FindRoot PROVE TypeOK'
  BY <1>10 DEF FindRoot
<1>11. ASSUME Delete PROVE TypeOK'
  BY <1>11 DEF Delete, MarkDeleted
<1>12. ASSUME Unmount PROVE TypeOK'
  BY <1>12 DEF Unmount
<1>13. ASSUME RemoveRoot PROVE TypeOK'
  BY <1>13 DEF RemoveRoot
<1>14. ASSUME Reset PROVE TypeOK'
  BY <1>14 DEF Reset, SetModes, SetSlices
<1>15. ASSUME Forget PROVE TypeOK'
  BY <1>15 DEF Forget
<1>16. ASSUME Fail PROVE TypeOK'
  <2>1. left' \in 0..MaxFaults
    BY <1>16, FaultLeaves DEF Fail
  <2>2. /\ deployment' \in [Claims -> {"none", "running", "deleting"}]
        /\ ready' \subseteq Claims /\ root' \subseteq Claims
    BY <1>16 DEF Fail, InPart, MarkDeleted
  <2>3. mode' \in [Gpus -> Modes] /\ slice' \in [Gpus -> Slices]
    BY <1>16 DEF Fail, InPart, SliceInPart, SetModes, SomeModes, SomeSlices
  <2> QED BY <1>16, <2>1, <2>2, <2>3 DEF Fail
<1>17. ASSUME Crash PROVE TypeOK'
  BY <1>17, FaultLeaves DEF Crash
<1>18. ASSUME NEW c \in Claims, CallPrepare(c) PROVE TypeOK'
  <2>1. pc' \in PCs /\ serving' \in Claims \cup {None} /\ (pc' # "idle" => serving' # None)
    BY <1>18, PrepareDoes, ClaimAssumption
  <2>2. told' \in [Claims -> {"nothing", "prepared", "unprepared"}]
    <3>1. CASE told' = [told EXCEPT ![c] = "prepared"]
      BY <3>1
    <3>2. CASE told' = [told EXCEPT ![c] = IF @ = "unprepared" THEN "nothing" ELSE @]
      BY <3>2
    <3> QED BY <1>18, PrepareDoes, <3>1, <3>2
  <2> QED BY <1>18, PrepareDoes, <2>1, <2>2
<1>19. ASSUME NEW c \in Claims, CallUnprepare(c) PROVE TypeOK'
  <2>1. c # None
    BY ClaimAssumption
  <2> QED BY <1>19, <2>1 DEF CallUnprepare
<1>20. ASSUME NEW c \in Claims, BecomeReady(c) PROVE TypeOK'
  BY <1>20 DEF BecomeReady
<1>21. ASSUME NEW c \in Claims, LoseReady(c) PROVE TypeOK'
  BY <1>21 DEF LoseReady
<1>22. ASSUME NEW c \in Claims, Deleted(c) PROVE TypeOK'
  BY <1>22 DEF Deleted
<1>23. ASSUME NEW c \in Claims, Allocate(c) PROVE TypeOK'
  BY <1>23 DEF Allocate
<1>24. ASSUME NEW c \in Claims, GiveUp(c) PROVE TypeOK'
  BY <1>24 DEF GiveUp
<1>25. ASSUME NEW c \in Claims, Release(c) PROVE TypeOK'
  BY <1>25 DEF Release
<1>26. CASE UNCHANGED vars
  BY <1>26 DEF vars
<1> QED BY <1>1, <1>2, <1>3, <1>4, <1>5, <1>6, <1>7, <1>8, <1>9, <1>10, <1>11, <1>12, <1>13,
        <1>14, <1>15, <1>16, <1>17, <1>18, <1>19, <1>20, <1>21, <1>22, <1>23, <1>24, <1>25,
        <1>26, Zenon DEF Next, StartStep, StopStep

\* Every variable of MpsDaemon keeps its type.
THEOREM TypeCorrect == Spec => []TypeOK
<1>1. Init => TypeOK
  BY TypeInit
<1>2. TypeOK /\ [Next]_vars => TypeOK'
  BY TypeNext
<1> QED BY <1>1, <1>2, PTL DEF Spec

----------------------------------------------------------------------------
\* Every step finds what the steps before it left, and no call is left half way.
LEMMA StageNext ==
    TypeOK /\ Stage /\ Accounted /\ SetUp /\ [Next]_vars => Stage'
<1> SUFFICES ASSUME TypeOK, Stage, Accounted, SetUp, [Next]_vars PROVE Stage'
  OBVIOUS
<1> USE DEF TypeOK, Stage, Accounted, PCs, StartPCs, StopPCs, At, Return, cluster, gpus,
        plugin, kubelet
<1>1. ASSUME SetTimeSlice PROVE Stage'
  BY <1>1 DEF SetTimeSlice, SetModes, SetSlices
<1>2. ASSUME IsStarted PROVE Stage'
  BY <1>2 DEF IsStarted
<1>3. ASSUME MakeDirs PROVE Stage'
  BY <1>3 DEF MakeDirs
<1>4. ASSUME Mount PROVE Stage'
  BY <1>4 DEF Mount
<1>5. ASSUME SetExclusive PROVE Stage'
  BY <1>5 DEF SetExclusive, SetModes
<1>6. ASSUME Create PROVE Stage'
  BY <1>6 DEF Create
<1>7. ASSUME AssertReady PROVE Stage'
  BY <1>7 DEF AssertReady
<1>8. ASSUME NotReady PROVE Stage'
  BY <1>8 DEF NotReady
<1>9. ASSUME Complete PROVE Stage'
  BY <1>9 DEF Complete
<1>10. ASSUME FindRoot PROVE Stage'
  BY <1>10 DEF FindRoot
<1>11. ASSUME Delete PROVE Stage'
  BY <1>11 DEF Delete, MarkDeleted
<1>12. ASSUME Unmount PROVE Stage'
  BY <1>12 DEF Unmount
<1>13. ASSUME RemoveRoot PROVE Stage'
  BY <1>13 DEF RemoveRoot
<1>14. ASSUME Reset PROVE Stage'
  BY <1>14 DEF Reset, SetModes, SetSlices
<1>15. ASSUME Forget PROVE Stage'
  BY <1>15 DEF Forget
<1>16. ASSUME Fail PROVE Stage'
  BY <1>16 DEF Fail, InPart, MarkDeleted
<1>17. ASSUME Crash PROVE Stage'
  BY <1>17 DEF Crash
<1>18. ASSUME NEW c \in Claims, CallPrepare(c) PROVE Stage'
  BY <1>18, PrepareDoes, SharingAssumption
<1>19. ASSUME NEW c \in Claims, CallUnprepare(c) PROVE Stage'
  BY <1>19 DEF CallUnprepare
<1>20. ASSUME NEW c \in Claims, BecomeReady(c) PROVE Stage'
  BY <1>20 DEF BecomeReady
<1>21. ASSUME NEW c \in Claims, LoseReady(c) PROVE Stage'
  BY <1>21 DEF LoseReady
<1>22. ASSUME NEW c \in Claims, Deleted(c) PROVE Stage'
  BY <1>22 DEF Deleted
<1>23. ASSUME NEW c \in Claims, Allocate(c) PROVE Stage'
  BY <1>23 DEF Allocate
<1>24. ASSUME NEW c \in Claims, GiveUp(c) PROVE Stage'
  BY <1>24 DEF GiveUp
<1>25. ASSUME NEW c \in Claims, Release(c) PROVE Stage'
  BY <1>25 DEF Release
<1>26. CASE UNCHANGED vars
  BY <1>26 DEF vars
<1> QED BY <1>1, <1>2, <1>3, <1>4, <1>5, <1>6, <1>7, <1>8, <1>9, <1>10, <1>11, <1>12, <1>13,
        <1>14, <1>15, <1>16, <1>17, <1>18, <1>19, <1>20, <1>21, <1>22, <1>23, <1>24, <1>25,
        <1>26, Zenon DEF Next, StartStep, StopStep

\* Directories outlive mounts and the daemon, and the entry outlives the directories.
LEMMA HostNext ==
    TypeOK /\ Stage /\ Accounted /\ SetUp /\ [Next]_vars => Accounted' /\ SetUp'
<1> SUFFICES ASSUME TypeOK, Stage, Accounted, SetUp, [Next]_vars PROVE Accounted' /\ SetUp'
  OBVIOUS
<1> USE DEF TypeOK, Stage, Accounted, SetUp, PCs, StartPCs, StopPCs, At, Return, cluster,
        gpus, plugin, kubelet
<1>1. ASSUME SetTimeSlice PROVE Accounted' /\ SetUp'
  BY <1>1 DEF SetTimeSlice, SetModes, SetSlices
<1>2. ASSUME IsStarted PROVE Accounted' /\ SetUp'
  BY <1>2 DEF IsStarted
<1>3. ASSUME MakeDirs PROVE Accounted' /\ SetUp'
  BY <1>3 DEF MakeDirs
<1>4. ASSUME Mount PROVE Accounted' /\ SetUp'
  BY <1>4 DEF Mount
<1>5. ASSUME SetExclusive PROVE Accounted' /\ SetUp'
  BY <1>5 DEF SetExclusive, SetModes
<1>6. ASSUME Create PROVE Accounted' /\ SetUp'
  BY <1>6 DEF Create
<1>7. ASSUME AssertReady PROVE Accounted' /\ SetUp'
  BY <1>7 DEF AssertReady
<1>8. ASSUME NotReady PROVE Accounted' /\ SetUp'
  BY <1>8 DEF NotReady
<1>9. ASSUME Complete PROVE Accounted' /\ SetUp'
  BY <1>9 DEF Complete
<1>10. ASSUME FindRoot PROVE Accounted' /\ SetUp'
  BY <1>10 DEF FindRoot
<1>11. ASSUME Delete PROVE Accounted' /\ SetUp'
  BY <1>11 DEF Delete, MarkDeleted
<1>12. ASSUME Unmount PROVE Accounted' /\ SetUp'
  BY <1>12 DEF Unmount
<1>13. ASSUME RemoveRoot PROVE Accounted' /\ SetUp'
  BY <1>13 DEF RemoveRoot
<1>14. ASSUME Reset PROVE Accounted' /\ SetUp'
  BY <1>14 DEF Reset, SetModes, SetSlices
<1>15. ASSUME Forget PROVE Accounted' /\ SetUp'
  BY <1>15 DEF Forget
<1>16. ASSUME Fail PROVE Accounted' /\ SetUp'
  BY <1>16 DEF Fail, InPart, MarkDeleted
<1>17. ASSUME Crash PROVE Accounted' /\ SetUp'
  BY <1>17 DEF Crash
<1>18. ASSUME NEW c \in Claims, CallPrepare(c) PROVE Accounted' /\ SetUp'
  BY <1>18 DEF CallPrepare
<1>19. ASSUME NEW c \in Claims, CallUnprepare(c) PROVE Accounted' /\ SetUp'
  BY <1>19 DEF CallUnprepare
<1>20. ASSUME NEW c \in Claims, BecomeReady(c) PROVE Accounted' /\ SetUp'
  BY <1>20 DEF BecomeReady
<1>21. ASSUME NEW c \in Claims, LoseReady(c) PROVE Accounted' /\ SetUp'
  BY <1>21 DEF LoseReady
<1>22. ASSUME NEW c \in Claims, Deleted(c) PROVE Accounted' /\ SetUp'
  BY <1>22 DEF Deleted
<1>23. ASSUME NEW c \in Claims, Allocate(c) PROVE Accounted' /\ SetUp'
  BY <1>23 DEF Allocate
<1>24. ASSUME NEW c \in Claims, GiveUp(c) PROVE Accounted' /\ SetUp'
  BY <1>24 DEF GiveUp
<1>25. ASSUME NEW c \in Claims, Release(c) PROVE Accounted' /\ SetUp'
  BY <1>25 DEF Release
<1>26. CASE UNCHANGED vars
  BY <1>26 DEF vars
<1> QED BY <1>1, <1>2, <1>3, <1>4, <1>5, <1>6, <1>7, <1>8, <1>9, <1>10, <1>11, <1>12, <1>13,
        <1>14, <1>15, <1>16, <1>17, <1>18, <1>19, <1>20, <1>21, <1>22, <1>23, <1>24, <1>25,
        <1>26, Zenon DEF Next, StartStep, StopStep

\* The kubelet allocates only GPUs that are free, and only MPS claims get a daemon.
LEMMA AllocationNext ==
    TypeOK /\ Stage /\ Allocation /\ [Next]_vars => Allocation'
<1> SUFFICES ASSUME TypeOK, Stage, Allocation, [Next]_vars PROVE Allocation'
  OBVIOUS
<1> USE DEF TypeOK, Stage, Allocation, PCs, StartPCs, StopPCs, At, Return, cluster, gpus,
        plugin, kubelet
<1>1. ASSUME SetTimeSlice PROVE Allocation'
  BY <1>1 DEF SetTimeSlice, SetModes, SetSlices
<1>2. ASSUME IsStarted PROVE Allocation'
  BY <1>2 DEF IsStarted
<1>3. ASSUME MakeDirs PROVE Allocation'
  BY <1>3 DEF MakeDirs
<1>4. ASSUME Mount PROVE Allocation'
  BY <1>4 DEF Mount
<1>5. ASSUME SetExclusive PROVE Allocation'
  BY <1>5 DEF SetExclusive, SetModes
<1>6. ASSUME Create PROVE Allocation'
  BY <1>6 DEF Create
<1>7. ASSUME AssertReady PROVE Allocation'
  BY <1>7 DEF AssertReady
<1>8. ASSUME NotReady PROVE Allocation'
  BY <1>8 DEF NotReady
<1>9. ASSUME Complete PROVE Allocation'
  BY <1>9 DEF Complete
<1>10. ASSUME FindRoot PROVE Allocation'
  BY <1>10 DEF FindRoot
<1>11. ASSUME Delete PROVE Allocation'
  BY <1>11 DEF Delete, MarkDeleted
<1>12. ASSUME Unmount PROVE Allocation'
  BY <1>12 DEF Unmount
<1>13. ASSUME RemoveRoot PROVE Allocation'
  BY <1>13 DEF RemoveRoot
<1>14. ASSUME Reset PROVE Allocation'
  BY <1>14 DEF Reset, SetModes, SetSlices
<1>15. ASSUME Forget PROVE Allocation'
  BY <1>15 DEF Forget
<1>16. ASSUME Fail PROVE Allocation'
  BY <1>16 DEF Fail, InPart, MarkDeleted
<1>17. ASSUME Crash PROVE Allocation'
  BY <1>17 DEF Crash
<1>18. ASSUME NEW c \in Claims, CallPrepare(c) PROVE Allocation'
  BY <1>18 DEF CallPrepare
<1>19. ASSUME NEW c \in Claims, CallUnprepare(c) PROVE Allocation'
  BY <1>19 DEF CallUnprepare
<1>20. ASSUME NEW c \in Claims, BecomeReady(c) PROVE Allocation'
  BY <1>20 DEF BecomeReady
<1>21. ASSUME NEW c \in Claims, LoseReady(c) PROVE Allocation'
  BY <1>21 DEF LoseReady
<1>22. ASSUME NEW c \in Claims, Deleted(c) PROVE Allocation'
  BY <1>22 DEF Deleted
<1>23. ASSUME NEW c \in Claims, Allocate(c) PROVE Allocation'
  BY <1>23 DEF Allocate
<1>24. ASSUME NEW c \in Claims, GiveUp(c) PROVE Allocation'
  BY <1>24 DEF GiveUp
<1>25. ASSUME NEW c \in Claims, Release(c) PROVE Allocation'
  BY <1>25 DEF Release
<1>26. CASE UNCHANGED vars
  BY <1>26 DEF vars
<1> QED BY <1>1, <1>2, <1>3, <1>4, <1>5, <1>6, <1>7, <1>8, <1>9, <1>10, <1>11, <1>12, <1>13,
        <1>14, <1>15, <1>16, <1>17, <1>18, <1>19, <1>20, <1>21, <1>22, <1>23, <1>24, <1>25,
        <1>26, Zenon DEF Next, StartStep, StopStep

\* The compute mode is switched before the steps that rely on it.
LEMMA SwitchedNext ==
    TypeOK /\ Stage /\ Switched /\ [Next]_vars => Switched'
<1> SUFFICES ASSUME TypeOK, Stage, Switched, [Next]_vars PROVE Switched'
  OBVIOUS
<1> USE SharingAssumption DEF TypeOK, Stage, Switched, PCs, StartPCs, StopPCs, At, Return,
        cluster, gpus, plugin, kubelet
<1>1. ASSUME SetTimeSlice PROVE Switched'
  BY <1>1 DEF SetTimeSlice, SetModes, SetSlices
<1>2. ASSUME IsStarted PROVE Switched'
  BY <1>2 DEF IsStarted
<1>3. ASSUME MakeDirs PROVE Switched'
  BY <1>3 DEF MakeDirs
<1>4. ASSUME Mount PROVE Switched'
  BY <1>4 DEF Mount
<1>5. ASSUME SetExclusive PROVE Switched'
  BY <1>5 DEF SetExclusive, SetModes
<1>6. ASSUME Create PROVE Switched'
  BY <1>6 DEF Create
<1>7. ASSUME AssertReady PROVE Switched'
  BY <1>7 DEF AssertReady
<1>8. ASSUME NotReady PROVE Switched'
  BY <1>8 DEF NotReady
<1>9. ASSUME Complete PROVE Switched'
  BY <1>9 DEF Complete
<1>10. ASSUME FindRoot PROVE Switched'
  BY <1>10 DEF FindRoot
<1>11. ASSUME Delete PROVE Switched'
  BY <1>11 DEF Delete, MarkDeleted
<1>12. ASSUME Unmount PROVE Switched'
  BY <1>12 DEF Unmount
<1>13. ASSUME RemoveRoot PROVE Switched'
  BY <1>13 DEF RemoveRoot
<1>14. ASSUME Reset PROVE Switched'
  BY <1>14 DEF Reset, SetModes, SetSlices
<1>15. ASSUME Forget PROVE Switched'
  BY <1>15 DEF Forget
<1>16. ASSUME Fail PROVE Switched'
  BY <1>16 DEF Fail, InPart, MarkDeleted
<1>17. ASSUME Crash PROVE Switched'
  BY <1>17 DEF Crash
<1>18. ASSUME NEW c \in Claims, CallPrepare(c) PROVE Switched'
  BY <1>18, PrepareDoes
<1>19. ASSUME NEW c \in Claims, CallUnprepare(c) PROVE Switched'
  BY <1>19 DEF CallUnprepare
<1>20. ASSUME NEW c \in Claims, BecomeReady(c) PROVE Switched'
  BY <1>20 DEF BecomeReady
<1>21. ASSUME NEW c \in Claims, LoseReady(c) PROVE Switched'
  BY <1>21 DEF LoseReady
<1>22. ASSUME NEW c \in Claims, Deleted(c) PROVE Switched'
  BY <1>22 DEF Deleted
<1>23. ASSUME NEW c \in Claims, Allocate(c) PROVE Switched'
  BY <1>23 DEF Allocate
<1>24. ASSUME NEW c \in Claims, GiveUp(c) PROVE Switched'
  BY <1>24 DEF GiveUp
<1>25. ASSUME NEW c \in Claims, Release(c) PROVE Switched'
  BY <1>25 DEF Release
<1>26. CASE UNCHANGED vars
  BY <1>26 DEF vars
<1> QED BY <1>1, <1>2, <1>3, <1>4, <1>5, <1>6, <1>7, <1>8, <1>9, <1>10, <1>11, <1>12, <1>13,
        <1>14, <1>15, <1>16, <1>17, <1>18, <1>19, <1>20, <1>21, <1>22, <1>23, <1>24, <1>25,
        <1>26, Zenon DEF Next, StartStep, StopStep

\* Steps that leave EXCLUSIVE_PROCESS are for a claim without a running daemon.
LEMMA ExclusiveNext ==
    TypeOK /\ Stage /\ Accounted /\ Allocation /\ Switched /\ DaemonExclusive /\ [Next]_vars
        => DaemonExclusive'
<1> SUFFICES ASSUME TypeOK, Stage, Accounted, Allocation, Switched, DaemonExclusive, [Next]_vars
             PROVE  DaemonExclusive'
  OBVIOUS
<1> USE SharingAssumption DEF TypeOK, Stage, Accounted, Allocation, Switched,
        DaemonExclusive, PCs, StartPCs, StopPCs, At, Return, cluster, gpus, plugin, kubelet
<1>1. ASSUME SetTimeSlice PROVE DaemonExclusive'
  BY <1>1 DEF SetTimeSlice, SetModes, SetSlices
<1>2. ASSUME IsStarted PROVE DaemonExclusive'
  BY <1>2 DEF IsStarted
<1>3. ASSUME MakeDirs PROVE DaemonExclusive'
  BY <1>3 DEF MakeDirs
<1>4. ASSUME Mount PROVE DaemonExclusive'
  BY <1>4 DEF Mount
<1>5. ASSUME SetExclusive PROVE DaemonExclusive'
  BY <1>5 DEF SetExclusive, SetModes
<1>6. ASSUME Create PROVE DaemonExclusive'
  BY <1>6 DEF Create
<1>7. ASSUME AssertReady PROVE DaemonExclusive'
  BY <1>7 DEF AssertReady
<1>8. ASSUME NotReady PROVE DaemonExclusive'
  BY <1>8 DEF NotReady
<1>9. ASSUME Complete PROVE DaemonExclusive'
  BY <1>9 DEF Complete
<1>10. ASSUME FindRoot PROVE DaemonExclusive'
  BY <1>10 DEF FindRoot
<1>11. ASSUME Delete PROVE DaemonExclusive'
  BY <1>11 DEF Delete, MarkDeleted
<1>12. ASSUME Unmount PROVE DaemonExclusive'
  BY <1>12 DEF Unmount
<1>13. ASSUME RemoveRoot PROVE DaemonExclusive'
  BY <1>13 DEF RemoveRoot
<1>14. ASSUME Reset PROVE DaemonExclusive'
  BY <1>14 DEF Reset, SetModes, SetSlices
<1>15. ASSUME Forget PROVE DaemonExclusive'
  BY <1>15 DEF Forget
<1>16. ASSUME Fail PROVE DaemonExclusive'
  <2>1. CASE pc \in {"slice", "reset"}
    <3>1. UNCHANGED deployment /\ \A g \in Gpus \ GpusOf[serving] : mode'[g] = mode[g]
      BY <1>16, <2>1 DEF Fail, InPart, SliceInPart, SetModes, SomeModes
    <3>2. deployment[serving] # "running"
      BY <2>1
    <3> QED BY <1>16, <2>1, <3>1, <3>2 DEF Fail
  <2>2. CASE pc = "exclusive"
    <3>1. UNCHANGED deployment /\ \A g \in Gpus : mode'[g] \in {mode[g], "EXCLUSIVE_PROCESS"}
      BY <1>16, <2>2 DEF Fail, InPart, SomeModes
    <3> QED BY <1>16, <3>1 DEF Fail
  <2>3. CASE pc = "create"
    BY <1>16, <2>3 DEF Fail, InPart
  <2>4. CASE pc \notin {"slice", "reset", "exclusive", "create"}
    BY <1>16, <2>4 DEF Fail, InPart, MarkDeleted
  <2> QED BY <2>1, <2>2, <2>3, <2>4
<1>17. ASSUME Crash PROVE DaemonExclusive'
  BY <1>17 DEF Crash
<1>18. ASSUME NEW c \in Claims, CallPrepare(c) PROVE DaemonExclusive'
  BY <1>18, PrepareDoes
<1>19. ASSUME NEW c \in Claims, CallUnprepare(c) PROVE DaemonExclusive'
  BY <1>19 DEF CallUnprepare
<1>20. ASSUME NEW c \in Claims, BecomeReady(c) PROVE DaemonExclusive'
  BY <1>20 DEF BecomeReady
<1>21. ASSUME NEW c \in Claims, LoseReady(c) PROVE DaemonExclusive'
  BY <1>21 DEF LoseReady
<1>22. ASSUME NEW c \in Claims, Deleted(c) PROVE DaemonExclusive'
  BY <1>22 DEF Deleted
<1>23. ASSUME NEW c \in Claims, Allocate(c) PROVE DaemonExclusive'
  BY <1>23 DEF Allocate
<1>24. ASSUME NEW c \in Claims, GiveUp(c) PROVE DaemonExclusive'
  BY <1>24 DEF GiveUp
<1>25. ASSUME NEW c \in Claims, Release(c) PROVE DaemonExclusive'
  BY <1>25 DEF Release
<1>26. CASE UNCHANGED vars
  BY <1>26 DEF vars
<1> QED BY <1>1, <1>2, <1>3, <1>4, <1>5, <1>6, <1>7, <1>8, <1>9, <1>10, <1>11, <1>12, <1>13,
        <1>14, <1>15, <1>16, <1>17, <1>18, <1>19, <1>20, <1>21, <1>22, <1>23, <1>24, <1>25,
        <1>26, Zenon DEF Next, StartStep, StopStep

\* Steps that leave the defaults are for a claim with an entry.
LEMMA FreeNext ==
    TypeOK /\ Stage /\ Switched /\ FreeGpuDefault /\ [Next]_vars => FreeGpuDefault'
<1> SUFFICES ASSUME TypeOK, Stage, Switched, FreeGpuDefault, [Next]_vars, TimeSlicing
             PROVE  FreeGpuDefault'
  BY DEF FreeGpuDefault
<1> USE SharingAssumption DEF TypeOK, Stage, Switched, FreeGpuDefault, PCs, StartPCs,
        StopPCs, At, Return, cluster, gpus, plugin, kubelet
<1>1. ASSUME SetTimeSlice PROVE FreeGpuDefault'
  BY <1>1 DEF SetTimeSlice, SetModes, SetSlices
<1>2. ASSUME IsStarted PROVE FreeGpuDefault'
  BY <1>2 DEF IsStarted
<1>3. ASSUME MakeDirs PROVE FreeGpuDefault'
  BY <1>3 DEF MakeDirs
<1>4. ASSUME Mount PROVE FreeGpuDefault'
  BY <1>4 DEF Mount
<1>5. ASSUME SetExclusive PROVE FreeGpuDefault'
  BY <1>5 DEF SetExclusive, SetModes
<1>6. ASSUME Create PROVE FreeGpuDefault'
  BY <1>6 DEF Create
<1>7. ASSUME AssertReady PROVE FreeGpuDefault'
  BY <1>7 DEF AssertReady
<1>8. ASSUME NotReady PROVE FreeGpuDefault'
  BY <1>8 DEF NotReady
<1>9. ASSUME Complete PROVE FreeGpuDefault'
  BY <1>9 DEF Complete
<1>10. ASSUME FindRoot PROVE FreeGpuDefault'
  BY <1>10 DEF FindRoot
<1>11. ASSUME Delete PROVE FreeGpuDefault'
  BY <1>11 DEF Delete, MarkDeleted
<1>12. ASSUME Unmount PROVE FreeGpuDefault'
  BY <1>12 DEF Unmount
<1>13. ASSUME RemoveRoot PROVE FreeGpuDefault'
  BY <1>13 DEF RemoveRoot
<1>14. ASSUME Reset PROVE FreeGpuDefault'
  BY <1>14 DEF Reset, SetModes, SetSlices
<1>15. ASSUME Forget PROVE FreeGpuDefault'
  BY <1>15 DEF Forget
<1>16. ASSUME Fail PROVE FreeGpuDefault'
  <2>1. \A g \in Gpus \ GpusOf[serving] : mode'[g] = mode[g] /\ slice'[g] = slice[g]
    <3>1. CASE pc \in {"slice", "reset"}
      BY <1>16, <3>1 DEF Fail, InPart, SliceInPart, SetModes, SomeModes, SetSlices, SomeSlices
    <3>2. CASE pc = "exclusive"
      BY <1>16, <3>2 DEF Fail, InPart, SomeModes
    <3>3. CASE pc \notin {"slice", "reset", "exclusive"}
      BY <1>16, <3>3 DEF Fail, InPart
    <3> QED BY <3>1, <3>2, <3>3
  <2>2. UNCHANGED entry /\ serving \in Claims /\ entry[serving] # "Absent"
    BY <1>16 DEF Fail, InPart
  <2> QED BY <2>1, <2>2
<1>17. ASSUME Crash PROVE FreeGpuDefault'
  BY <1>17 DEF Crash
<1>18. ASSUME NEW c \in Claims, CallPrepare(c) PROVE FreeGpuDefault'
  BY <1>18, PrepareDoes
<1>19. ASSUME NEW c \in Claims, CallUnprepare(c) PROVE FreeGpuDefault'
  BY <1>19 DEF CallUnprepare
<1>20. ASSUME NEW c \in Claims, BecomeReady(c) PROVE FreeGpuDefault'
  BY <1>20 DEF BecomeReady
<1>21. ASSUME NEW c \in Claims, LoseReady(c) PROVE FreeGpuDefault'
  BY <1>21 DEF LoseReady
<1>22. ASSUME NEW c \in Claims, Deleted(c) PROVE FreeGpuDefault'
  BY <1>22 DEF Deleted
<1>23. ASSUME NEW c \in Claims, Allocate(c) PROVE FreeGpuDefault'
  BY <1>23 DEF Allocate
<1>24. ASSUME NEW c \in Claims, GiveUp(c) PROVE FreeGpuDefault'
  BY <1>24 DEF GiveUp
<1>25. ASSUME NEW c \in Claims, Release(c) PROVE FreeGpuDefault'
  BY <1>25 DEF Release
<1>26. CASE UNCHANGED vars
  BY <1>26 DEF vars
<1> QED BY <1>1, <1>2, <1>3, <1>4, <1>5, <1>6, <1>7, <1>8, <1>9, <1>10, <1>11, <1>12, <1>13,
        <1>14, <1>15, <1>16, <1>17, <1>18, <1>19, <1>20, <1>21, <1>22, <1>23, <1>24, <1>25,
        <1>26, Zenon DEF Next, StartStep, StopStep

\* Start and Stop that run to their end mount and unmount one tmpfs.
LEMMA StacksNext ==
    TypeOK /\ Stage /\ SetUp /\ Stacks /\ [Next]_vars => Stacks'
<1> SUFFICES ASSUME TypeOK, Stage, SetUp, Stacks, [Next]_vars PROVE Stacks'
  OBVIOUS
<1> USE BoundAssumption DEF TypeOK, Stage, SetUp, Stacks, StackBounded, PCs, StartPCs,
        StopPCs, At, Return, cluster, gpus, plugin, kubelet
<1>1. ASSUME SetTimeSlice PROVE Stacks'
  BY <1>1 DEF SetTimeSlice, SetModes, SetSlices
<1>2. ASSUME IsStarted PROVE Stacks'
  BY <1>2 DEF IsStarted
<1>3. ASSUME MakeDirs PROVE Stacks'
  BY <1>3 DEF MakeDirs
<1>4. ASSUME Mount PROVE Stacks'
  BY <1>4 DEF Mount
<1>5. ASSUME SetExclusive PROVE Stacks'
  BY <1>5 DEF SetExclusive, SetModes
<1>6. ASSUME Create PROVE Stacks'
  BY <1>6 DEF Create
<1>7. ASSUME AssertReady PROVE Stacks'
  BY <1>7 DEF AssertReady
<1>8. ASSUME NotReady PROVE Stacks'
  BY <1>8 DEF NotReady
<1>9. ASSUME Complete PROVE Stacks'
  BY <1>9 DEF Complete
<1>10. ASSUME FindRoot PROVE Stacks'
  BY <1>10 DEF FindRoot
<1>11. ASSUME Delete PROVE Stacks'
  BY <1>11 DEF Delete, MarkDeleted
<1>12. ASSUME Unmount PROVE Stacks'
  BY <1>12 DEF Unmount
<1>13. ASSUME RemoveRoot PROVE Stacks'
  BY <1>13 DEF RemoveRoot
<1>14. ASSUME Reset PROVE Stacks'
  BY <1>14 DEF Reset, SetModes, SetSlices
<1>15. ASSUME Forget PROVE Stacks'
  BY <1>15 DEF Forget
<1>16. ASSUME Fail PROVE Stacks'
  BY <1>16 DEF Fail, InPart, MarkDeleted
<1>17. ASSUME Crash PROVE Stacks'
  BY <1>17 DEF Crash
<1>18. ASSUME NEW c \in Claims, CallPrepare(c) PROVE Stacks'
  BY <1>18, PrepareDoes
<1>19. ASSUME NEW c \in Claims, CallUnprepare(c) PROVE Stacks'
  BY <1>19 DEF CallUnprepare
<1>20. ASSUME NEW c \in Claims, BecomeReady(c) PROVE Stacks'
  BY <1>20 DEF BecomeReady
<1>21. ASSUME NEW c \in Claims, LoseReady(c) PROVE Stacks'
  BY <1>21 DEF LoseReady
<1>22. ASSUME NEW c \in Claims, Deleted(c) PROVE Stacks'
  BY <1>22 DEF Deleted
<1>23. ASSUME NEW c \in Claims, Allocate(c) PROVE Stacks'
  BY <1>23 DEF Allocate
<1>24. ASSUME NEW c \in Claims, GiveUp(c) PROVE Stacks'
  BY <1>24 DEF GiveUp
<1>25. ASSUME NEW c \in Claims, Release(c) PROVE Stacks'
  BY <1>25 DEF Release
<1>26. CASE UNCHANGED vars
  BY <1>26 DEF vars
<1> QED BY <1>1, <1>2, <1>3, <1>4, <1>5, <1>6, <1>7, <1>8, <1>9, <1>10, <1>11, <1>12, <1>13,
        <1>14, <1>15, <1>16, <1>17, <1>18, <1>19, <1>20, <1>21, <1>22, <1>23, <1>24, <1>25,
        <1>26, Zenon DEF Next, StartStep, StopStep

LEMMA InvInit == Init => Inv
<1> SUFFICES ASSUME Init PROVE Inv
  OBVIOUS
<1>1. TypeOK
  BY TypeInit
<1>2. Stage /\ Accounted /\ SetUp /\ Allocation
  BY DEF Init, Stage, Accounted, SetUp, Allocation, StartPCs
<1>3. Switched /\ DaemonExclusive /\ FreeGpuDefault
  BY DEF Init, Switched, DaemonExclusive, FreeGpuDefault
<1>4. Stacks
  BY BoundAssumption DEF Init, Stacks, StackBounded
<1> QED BY <1>1, <1>2, <1>3, <1>4 DEF Inv

LEMMA InvNext == Inv /\ [Next]_vars => Inv'
<1> SUFFICES ASSUME Inv, [Next]_vars PROVE Inv'
  OBVIOUS
<1>1. TypeOK' /\ Stage'
  BY TypeNext, StageNext DEF Inv
<1>2. Accounted' /\ SetUp' /\ Allocation'
  BY HostNext, AllocationNext DEF Inv
<1>3. Switched' /\ DaemonExclusive' /\ FreeGpuDefault'
  BY SwitchedNext, ExclusiveNext, FreeNext DEF Inv
<1>4. Stacks'
  BY StacksNext DEF Inv
<1> QED BY <1>1, <1>2, <1>3, <1>4 DEF Inv

LEMMA Invariance == Spec => []Inv
  BY InvInit, InvNext, PTL DEF Spec

\* A running daemon has its directories and its tmpfs, so the early return of Start
\* leaves nothing out.
THEOREM RunningIsSetUp == Spec => []SetUp
<1>1. Inv => SetUp
  BY DEF Inv
<1> QED BY <1>1, Invariance, PTL

\* What Stop and Unprepare skip, for want of a rootDir or an entry, is not there.
THEOREM NothingUnaccounted == Spec => []Accounted
<1>1. Inv => Accounted
  BY DEF Inv
<1> QED BY <1>1, Invariance, PTL

\* With TimeSlicingSettings, a GPU no entry stands for is back in the default mode.
THEOREM FreeGpusAreDefault == Spec => []FreeGpuDefault
<1>1. Inv => FreeGpuDefault
  BY DEF Inv
<1> QED BY <1>1, Invariance, PTL

\* The GPUs of a running daemon's claim are in EXCLUSIVE_PROCESS while it is allocated.
THEOREM DaemonsExclusive == Spec => []DaemonExclusive
<1>1. Inv => DaemonExclusive
  BY DEF Inv
<1> QED BY <1>1, Invariance, PTL

\* A tmpfs is mounted over another only after a failed step.
THEOREM StacksBounded == Spec => []StackBounded
<1>1. Inv => StackBounded
  BY DEF Inv, Stacks
<1> QED BY <1>1, Invariance, PTL

----------------------------------------------------------------------------
\* Start runs under a started entry, Stop under a completed one.
Entered ==
    /\ pc \in StartPCs \cup {"slice"} => entry[serving] = "PrepareStarted"
    /\ pc \in StopPCs => entry[serving] = "PrepareCompleted"

LEMMA EnteredNext == TypeOK /\ Entered /\ [Next]_vars => Entered'
<1> SUFFICES ASSUME TypeOK, Entered, [Next]_vars PROVE Entered'
  OBVIOUS
<1> USE DEF TypeOK, Entered, PCs, StartPCs, StopPCs, At, Return, plugin, kubelet
<1>1. CASE StartStep
  BY <1>1 DEF StartStep, SetTimeSlice, IsStarted, MakeDirs, Mount, SetExclusive, Create, AssertReady,
              NotReady, Complete
<1>2. CASE StopStep
  BY <1>2 DEF StopStep, FindRoot, Delete, Unmount, RemoveRoot, Reset, Forget
<1>3. CASE Fail \/ Crash
  BY <1>3 DEF Fail, Crash
<1>4. ASSUME NEW c \in Claims, CallPrepare(c) PROVE Entered'
  BY <1>4, PrepareDoes
<1>5. ASSUME NEW c \in Claims, CallUnprepare(c) PROVE Entered'
  BY <1>5 DEF CallUnprepare
<1>6. ASSUME NEW c \in Claims,
             BecomeReady(c) \/ LoseReady(c) \/ Deleted(c) \/ Allocate(c) \/ GiveUp(c) \/ Release(c)
      PROVE  Entered'
  BY <1>6 DEF BecomeReady, LoseReady, Deleted, Allocate, GiveUp, Release
<1>7. CASE UNCHANGED vars
  BY <1>7 DEF vars
<1> QED BY <1>1, <1>2, <1>3, <1>4, <1>5, <1>6, <1>7 DEF Next

Traces == {c \in Claims : HasTraces(c)}

\* Where Stop finds no rootDir there is nothing else.
LEMMA TracesAreRoots == Inv => Traces = root
  BY DEF Inv, TypeOK, Accounted, SetUp, Traces, HasTraces

\* Every step is a step of the journal or leaves it alone.
LEMMA JournalNext ==
    ASSUME Inv, Inv', Entered, [Next]_vars PROVE [Journal!Next]_(Journal!vars)
<1>1. Traces = root /\ Traces' = root'
  <2>1. Traces = root
    BY TracesAreRoots
  <2>2. Traces' = root'
    BY DEF Inv, TypeOK, Accounted, SetUp, Traces, HasTraces
  <2> QED BY <2>1, <2>2
<1> SUFFICES UNCHANGED <<entry, root>> \/ Journal!Next
  BY <1>1 DEF Journal!vars, Traces
<1>2. TypeOK /\ Stage
  BY DEF Inv
<1>3. ASSUME MakeDirs \/ (Fail /\ pc = "mkdir") PROVE UNCHANGED <<entry, root>> \/ Journal!Next
  <2>1. /\ entry' = entry /\ entry[serving] = "PrepareStarted" /\ serving \in Claims
        /\ root' \in {root, root \cup {serving}}
    BY <1>2, <1>3 DEF MakeDirs, Fail, InPart, At, Entered, StartPCs, TypeOK
  <2>2. CASE root' = root \cup {serving}
    <3>1. Journal!Touch(serving)
      BY <1>1, <2>1, <2>2 DEF Journal!Touch, Traces
    <3> QED BY <2>1, <3>1 DEF Journal!Next
  <2> QED BY <2>1, <2>2
<1>4. ASSUME RemoveRoot PROVE Journal!Next
  <2>1. /\ entry' = entry /\ entry[serving] = "PrepareCompleted" /\ serving \in Claims
        /\ root' = root \ {serving}
    BY <1>2, <1>4 DEF RemoveRoot, At, Entered, StopPCs, TypeOK
  <2>2. Journal!Clear(serving)
    BY <1>1, <2>1 DEF Journal!Clear, Traces
  <2> QED BY <2>1, <2>2 DEF Journal!Next
<1>5. ASSUME Complete PROVE Journal!Next
  <2>1. /\ entry' = [entry EXCEPT ![serving] = "PrepareCompleted"] /\ root' = root
        /\ entry[serving] = "PrepareStarted" /\ serving \in Claims
    BY <1>2, <1>5 DEF Complete, Entered, StartPCs, TypeOK
  <2>2. Journal!Complete(serving)
    BY <1>1, <2>1 DEF Journal!Complete, Traces
  <2> QED BY <2>1, <2>2 DEF Journal!Next
<1>6. ASSUME Forget PROVE Journal!Next
  <2>1. /\ entry' = [entry EXCEPT ![serving] = "Absent"] /\ root' = root /\ serving \notin root
        /\ entry[serving] = "PrepareCompleted" /\ serving \in Claims
    BY <1>2, <1>6 DEF Forget, Entered, StopPCs, Stage, TypeOK
  <2>2. Journal!Forget(serving)
    BY <1>1, <2>1 DEF Journal!Forget, Traces
  <2> QED BY <2>1, <2>2 DEF Journal!Next
<1>7. ASSUME NEW c \in Claims, CallPrepare(c) PROVE Journal!Next
  <2>1. entry' = [entry EXCEPT ![c] = "PrepareStarted"] /\ root' = root
    BY <1>7, PrepareDoes
  <2>2. Journal!Begin(c)
    BY <1>1, <2>1 DEF Journal!Begin, Traces
  <2> QED BY <2>2 DEF Journal!Next
<1>8. CASE \/ SetTimeSlice \/ IsStarted \/ Mount \/ SetExclusive \/ Create \/ AssertReady \/ NotReady
  BY <1>8 DEF SetTimeSlice, IsStarted, Mount, SetExclusive, Create, AssertReady, NotReady
<1>9. CASE FindRoot \/ Delete \/ Unmount \/ Reset
  BY <1>9 DEF FindRoot, Delete, Unmount, Reset
<1>10. CASE (Fail /\ pc # "mkdir") \/ Crash
  BY <1>10 DEF Fail, InPart, Crash
<1>11. ASSUME NEW c \in Claims,
              \/ CallUnprepare(c) \/ BecomeReady(c) \/ LoseReady(c) \/ Deleted(c)
              \/ Allocate(c) \/ GiveUp(c) \/ Release(c)
       PROVE  UNCHANGED <<entry, root>>
  BY <1>11 DEF CallUnprepare, BecomeReady, LoseReady, Deleted, Allocate, GiveUp, Release
<1>12. CASE UNCHANGED vars
  BY <1>12 DEF vars
<1> QED BY <1>3, <1>4, <1>5, <1>6, <1>7, <1>8, <1>9, <1>10, <1>11, <1>12 DEF Next, StartStep, StopStep

\* Start and Stop implement the write-ahead journal, for any claims, GPUs and faults:
\* what their early returns skip is nothing that outlives the entry.
THEOREM DaemonsJournalled == Spec => ImplementsJournal
<1>1. Init => Journal!Init
  BY DEF Init, Journal!Init, HasTraces
<1>2. Init => Entered
  BY DEF Init, Entered, StartPCs, StopPCs
<1>3. Inv => TypeOK
  BY DEF Inv
<1> QED
  BY <1>1, <1>2, <1>3, Invariance, EnteredNext, JournalNext, PTL DEF Spec, ImplementsJournal, Journal!Spec
====
