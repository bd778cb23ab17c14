---- MODULE DeviceStateProofs ----
(***************************************************************************)
(* Proofs about DeviceState, for any claims, groups, devices, gates and    *)
(* faults.  The control part (who holds the mutex, what a handler's copy   *)
(* of the checkpoint says) comes first and needs no assumption; the        *)
(* properties of the traces on the host assume that no error of the file   *)
(* system is swallowed, "hostdir" \notin Faults.                           *)
(***************************************************************************)
EXTENDS DeviceState, TLAPS

----------------------------------------------------------------------------
\* The inductive invariant, part one: control.

\* The holder of the mutex is the handler that is between Lock and Unlock.
Holding == \A h \in Handlers : pc[h] \in Critical <=> lock = h

Serving == \A h \in Handlers : pc[h] # "idle" => claim[h] \in Claims

\* While the mutex is held no one else writes the checkpoint.
Fresh ==
    /\ \A h \in Handlers : pc[h] \in UnpreparePCs \cup {"pStart"} => seen[h] = checkpoint
    /\ \A h \in Handlers : pc[h] \in UnpreparePCs => checkpoint[claim[h]] = "PrepareCompleted"
    /\ \A h \in Handlers : pc[h] \in PreparePCs \ {"pStart"} =>
            checkpoint[claim[h]] = "PrepareStarted"

\* A handler applies and cleans groups of its own claim.
OwnGroups == \A h \in Handlers : pc[h] \in {"pApply", "uClean"} =>
                todo[h] \subseteq GroupsOf[claim[h]]

Control == TypeOK /\ Holding /\ Serving /\ Fresh /\ OwnGroups

\* Part two: what is on the host.

OwnTraces == \A c \in Claims, u \in Units : <<c, u>> \in applied =>
                <<c, u>> \in Footprints(c, GroupsOf[c])

\* Unprepare works its way from the groups to the spec file.
Cleaning == \A h \in Handlers :
    /\ pc[h] = "uClean" =>
        \A u \in Units : <<claim[h], u>> \in applied =>
            <<claim[h], u>> \in Footprints(claim[h], todo[h])
    /\ pc[h] \in {"uDiscover", "uSpec", "uForget"} =>
        \A u \in Units : <<claim[h], u>> \notin applied
    /\ pc[h] = "uForget" => claim[h] \notin specs

Clean == Control /\ OwnTraces /\ Cleaning /\ WriteAhead /\ ReleasedIsClean

\* Part three: what is complete.

Applying == \A h \in Handlers :
    /\ pc[h] = "pApply" => Footprints(claim[h], GroupsOf[claim[h]] \ todo[h]) \subseteq applied
    /\ pc[h] = "pSpec" => Footprints(claim[h], GroupsOf[claim[h]]) \subseteq applied
    /\ pc[h] = "pDone" => Real(claim[h])

CompletedIsReal ==
    \A c \in Claims : checkpoint[c] = "PrepareCompleted" /\ c \notin torn => Real(c)

Whole == Control /\ Applying /\ CompletedIsReal /\ GrantedIsReal

----------------------------------------------------------------------------
\* The process starts with the control part of the invariant.
LEMMA ControlInit == Init => Control
BY NoneAssumption, GroupAssumption, SettingAssumption DEF Init, Control, TypeOK, Holding, Serving, Fresh, OwnGroups, Enumerated, Blank,
   States, PCs, Critical, PreparePCs, UnpreparePCs

\* Every action keeps the control part.
LEMMA ControlNext == Control /\ [Next]_vars => Control'
<1> SUFFICES ASSUME Control, [Next]_vars PROVE Control'
  OBVIOUS
<1> USE NoneAssumption, GroupAssumption
<1> USE DEF Control, TypeOK, Holding, Serving, Fresh, OwnGroups, States, PCs, Critical,
            PreparePCs, UnpreparePCs, host, memory, handler, history, Goto, Return, Tell, Blank
<1>1. ASSUME NEW h \in Handlers, Call(h) PROVE Control'
  BY <1>1 DEF Call
<1>2. ASSUME NEW h \in Handlers, PrepareRead(h) PROVE Control'
  BY <1>2 DEF PrepareRead, LockAndRead
<1>3. ASSUME NEW h \in Handlers, UnprepareRead(h) PROVE Control'
  BY <1>3 DEF UnprepareRead, LockAndRead
<1>4. ASSUME NEW h \in Handlers, UnprepareNoop(h) PROVE Control'
  BY <1>4 DEF UnprepareNoop
<1>5. ASSUME NEW h \in Handlers, PrepareStart(h) PROVE Control'
  BY <1>5 DEF PrepareStart, WriteStarted
<1>6. ASSUME NEW h \in Handlers, PrepareRepeated(h) PROVE Control'
  BY <1>6 DEF PrepareRepeated, WriteStarted
<1>7. ASSUME NEW h \in Handlers, SelectConfigs(h) PROVE Control'
  BY <1>7 DEF SelectConfigs
<1>8. ASSUME NEW h \in Handlers, RejectClaim(h) PROVE Control'
  BY <1>8 DEF RejectClaim
<1>9. ASSUME NEW h \in Handlers, ApplyGroup(h) PROVE Control'
  BY <1>9 DEF ApplyGroup, Footprint, Trace, Units
<1>10. ASSUME NEW h \in Handlers, ApplyFails(h) PROVE Control'
  BY <1>10 DEF ApplyFails, Footprint, Trace, Units
<1>11. ASSUME NEW h \in Handlers, HideSiblings(h) PROVE Control'
  BY <1>11 DEF HideSiblings, TwinsOf, SiblingsOf
<1>12. ASSUME NEW h \in Handlers, CreateSpec(h) PROVE Control'
  BY <1>12 DEF CreateSpec
<1>13. ASSUME NEW h \in Handlers, PrepareComplete(h) PROVE Control'
  BY <1>13 DEF PrepareComplete
<1>14. ASSUME NEW h \in Handlers, CleanGroup(h) PROVE Control'
  BY <1>14 DEF CleanGroup
<1>15. ASSUME NEW h \in Handlers, CleanFails(h) PROVE Control'
  BY <1>15 DEF CleanFails
<1>16. ASSUME NEW h \in Handlers, AllClean(h) PROVE Control'
  BY <1>16 DEF AllClean
<1>17. ASSUME NEW h \in Handlers, RediscoverSiblings(h) PROVE Control'
  BY <1>17 DEF RediscoverSiblings, TwinsOf, SiblingsOf
<1>18. ASSUME NEW h \in Handlers, DiscoverFails(h) PROVE Control'
  BY <1>18 DEF DiscoverFails, SiblingsOf
<1>19. ASSUME NEW h \in Handlers, DeleteSpec(h) PROVE Control'
  BY <1>19 DEF DeleteSpec
<1>20. ASSUME NEW h \in Handlers, UnprepareForget(h) PROVE Control'
  BY <1>20 DEF UnprepareForget
<1>21. ASSUME NEW h \in Handlers, CheckpointFails(h) PROVE Control'
  BY <1>21 DEF CheckpointFails
<1>22. ASSUME NEW h \in Handlers, SpecFails(h) PROVE Control'
  BY <1>22 DEF SpecFails
<1>23. ASSUME NEW h \in Handlers, Panic(h) PROVE Control'
  BY <1>23 DEF Panic, Die
<1>24. CASE Crash
  <2>1. Die
    BY <1>24 DEF Crash
  <2>2. TypeOK'
    <3> HIDE DEF Holding, Serving, Fresh, OwnGroups
    <3> QED
      BY <2>1 DEF Die
  <2>3. Holding' /\ Serving' /\ Fresh' /\ OwnGroups'
    BY <2>1 DEF Die
  <2> QED
    BY <2>2, <2>3
<1>25. CASE Boot
  BY <1>25, SettingAssumption DEF Boot, Enumerated
<1>26. CASE UNCHANGED vars
  BY <1>26 DEF vars
<1> QED
  BY <1>1, <1>2, <1>3, <1>4, <1>5, <1>6, <1>7, <1>8, <1>9, <1>10, <1>11, <1>12, <1>13, <1>14, <1>15, <1>16, <1>17, <1>18, <1>19, <1>20, <1>21, <1>22, <1>23, <1>24, <1>25, <1>26 DEF Next, Acquire, Step

\* The control part holds in every state.
LEMMA ControlInvariant == Spec => []Control
<1> QED
  BY ControlInit, ControlNext, PTL DEF Spec

\* Every variable keeps its type, for any number of claims and handlers.
THEOREM TypeCorrect == Spec => []TypeOK
<1>1. Control => TypeOK
  BY DEF Control
<1> QED
  BY <1>1, ControlInvariant, PTL

\* No update of the checkpoint is lost: whole copies of the file are written back,
\* and still only the entry of the claim being served changes.
THEOREM NoLostUpdate == Spec => OtherEntriesUntouched
<1> DEFINE Own == \A c \in Claims : checkpoint'[c] # checkpoint[c] =>
                    \E h \in Handlers : claim[h] = c /\ pc'[h] # pc[h]
<1>1. Control /\ [Next]_vars => [Own]_vars
  <2> SUFFICES ASSUME Control, Next PROVE Own
    OBVIOUS
  <2> USE DEF Control, TypeOK, Fresh, UnpreparePCs, host, memory, handler, history
  <2>1. CASE UNCHANGED checkpoint
    BY <2>1
  <2>2. ASSUME NEW h \in Handlers, PrepareStart(h) \/ PrepareRepeated(h) PROVE Own
    BY <2>2 DEF PrepareStart, PrepareRepeated, WriteStarted, Goto, Return
  <2>3. ASSUME NEW h \in Handlers, PrepareComplete(h) PROVE Own
    BY <2>3 DEF PrepareComplete, Return
  <2>4. ASSUME NEW h \in Handlers, UnprepareForget(h) PROVE Own
    BY <2>4 DEF UnprepareForget, Return
  <2> QED
    BY <2>1, <2>2, <2>3, <2>4 DEF Next, Acquire, Step, Call, PrepareRead, UnprepareRead,
       UnprepareNoop, SelectConfigs, RejectClaim, ApplyGroup, ApplyFails, HideSiblings,
       CreateSpec, CleanGroup, CleanFails, AllClean, RediscoverSiblings, DiscoverFails,
       DeleteSpec, CheckpointFails, SpecFails, Panic, Crash, Die, Boot
<1> QED
  BY <1>1, ControlInvariant, PTL DEF Spec, OtherEntriesUntouched

----------------------------------------------------------------------------
\* What is on the host.

\* Making and removing claim directories, which HAMi alone does, does not fail.
NoHostdir == Hami => "hostdir" \notin Faults

\* Which actions touch applied, and how.
LEMMA ApplyEffect ==
    ASSUME NoHostdir, Control, NEW h \in Handlers, ApplyGroup(h) \/ ApplyFails(h)
    PROVE  /\ pc[h] = "pApply" /\ claim[h] \in Claims
           /\ \E g \in GroupsOf[claim[h]] : applied' \in {applied, applied \cup Footprint(claim[h], g)}
           /\ UNCHANGED <<checkpoint, specs>>
BY DEF NoHostdir, Control, TypeOK, Serving, OwnGroups, ApplyGroup, ApplyFails, Fault

\* Cleaning removes at most the footprint of a group of the claim being served.
LEMMA CleanEffect ==
    ASSUME NoHostdir, Control, NEW h \in Handlers, CleanGroup(h) \/ CleanFails(h)
    PROVE  /\ pc[h] = "uClean" /\ claim[h] \in Claims
           /\ \E g \in GroupsOf[claim[h]] : applied' \in {applied, applied \ Footprint(claim[h], g)}
           /\ UNCHANGED <<checkpoint, specs>>
BY DEF NoHostdir, Control, TypeOK, Serving, OwnGroups, CleanGroup, CleanFails, Fault

\* No other action touches applied.
LEMMA AppliedFrame ==
    ASSUME Next, \A h \in Handlers : ~(ApplyGroup(h) \/ ApplyFails(h) \/ CleanGroup(h) \/ CleanFails(h))
    PROVE  UNCHANGED applied
BY DEF Next, Acquire, Step, Call, PrepareRead, UnprepareRead,
   UnprepareNoop, PrepareStart, PrepareRepeated, SelectConfigs, RejectClaim, HideSiblings,
   CreateSpec, PrepareComplete, AllClean, RediscoverSiblings, DiscoverFails,
   DeleteSpec, UnprepareForget, CheckpointFails, SpecFails, Panic, Crash, Die, Boot, host

\* A footprint names the claim it was made for.
LEMMA FootprintOwn ==
    ASSUME NEW c \in Claims, NEW d \in Claims, NEW g, NEW u, <<d, u>> \in Footprint(c, g)
    PROVE  c = d
BY DEF Footprint, Trace

\* A trace among the footprints of some groups is the footprint of one of them.
LEMMA FootprintsAre ==
    ASSUME NEW c, NEW gs, NEW t
    PROVE  t \in Footprints(c, gs) <=> \E g \in gs : t \in Footprint(c, g)
BY DEF Footprints

\* A claim has only traces of its own groups.
LEMMA OwnTracesNext == ASSUME NoHostdir, Control, OwnTraces, [Next]_vars PROVE OwnTraces'
<1> USE DEF OwnTraces
<1>1. CASE UNCHANGED applied
  BY <1>1
<1>2. ASSUME NEW h \in Handlers, ApplyGroup(h) \/ ApplyFails(h) PROVE OwnTraces'
  <2>1. PICK g \in GroupsOf[claim[h]] : applied' \in {applied, applied \cup Footprint(claim[h], g)}
    BY <1>2, ApplyEffect
  <2>2. claim[h] \in Claims
    BY <1>2, ApplyEffect
  <2> QED
    BY <2>1, <2>2, FootprintOwn DEF Footprints
<1>3. ASSUME NEW h \in Handlers, CleanGroup(h) \/ CleanFails(h) PROVE OwnTraces'
  BY <1>3, CleanEffect
<1> QED
  BY <1>1, <1>2, <1>3, AppliedFrame DEF vars, host

\* The holder of the mutex moves on by itself, or nothing it looks at moves.
LEMMA Undisturbed ==
    ASSUME Control, Next, NEW k \in Handlers, pc'[k] \in Critical
    PROVE  \/ PrepareRead(k) \/ PrepareStart(k) \/ SelectConfigs(k) \/ ApplyGroup(k)
           \/ HideSiblings(k) \/ CreateSpec(k)
           \/ UnprepareRead(k) \/ CleanGroup(k) \/ AllClean(k) \/ RediscoverSiblings(k) \/ DeleteSpec(k)
           \/ UNCHANGED <<applied, specs, pc[k], claim[k], todo[k]>>
<1> USE NoneAssumption
<1> USE DEF Control, TypeOK, Holding, PCs, Critical, PreparePCs, UnpreparePCs, host, memory, handler,
            Goto, Return
<1>1. ASSUME NEW h \in Handlers, Call(h) PROVE UNCHANGED <<applied, specs, pc[k], claim[k], todo[k]>>
  BY <1>1 DEF Call
<1>2. ASSUME NEW h \in Handlers, PrepareRead(h), h # k PROVE UNCHANGED <<applied, specs, pc[k], claim[k], todo[k]>>
  BY <1>2 DEF PrepareRead, LockAndRead
<1>3. ASSUME NEW h \in Handlers, UnprepareRead(h), h # k PROVE UNCHANGED <<applied, specs, pc[k], claim[k], todo[k]>>
  BY <1>3 DEF UnprepareRead, LockAndRead
<1>4. ASSUME NEW h \in Handlers, UnprepareNoop(h) PROVE UNCHANGED <<applied, specs, pc[k], claim[k], todo[k]>>
  BY <1>4 DEF UnprepareNoop
<1>5. ASSUME NEW h \in Handlers, PrepareStart(h), h # k PROVE UNCHANGED <<applied, specs, pc[k], claim[k], todo[k]>>
  BY <1>5 DEF PrepareStart
<1>6. ASSUME NEW h \in Handlers, PrepareRepeated(h) PROVE UNCHANGED <<applied, specs, pc[k], claim[k], todo[k]>>
  BY <1>6 DEF PrepareRepeated
<1>7. ASSUME NEW h \in Handlers, SelectConfigs(h), h # k PROVE UNCHANGED <<applied, specs, pc[k], claim[k], todo[k]>>
  BY <1>7 DEF SelectConfigs
<1>8. ASSUME NEW h \in Handlers, RejectClaim(h) PROVE UNCHANGED <<applied, specs, pc[k], claim[k], todo[k]>>
  BY <1>8 DEF RejectClaim
<1>9. ASSUME NEW h \in Handlers, ApplyGroup(h), h # k PROVE UNCHANGED <<applied, specs, pc[k], claim[k], todo[k]>>
  BY <1>9 DEF ApplyGroup
<1>10. ASSUME NEW h \in Handlers, ApplyFails(h) PROVE UNCHANGED <<applied, specs, pc[k], claim[k], todo[k]>>
  BY <1>10 DEF ApplyFails
<1>11. ASSUME NEW h \in Handlers, HideSiblings(h), h # k PROVE UNCHANGED <<applied, specs, pc[k], claim[k], todo[k]>>
  BY <1>11 DEF HideSiblings
<1>12. ASSUME NEW h \in Handlers, CreateSpec(h), h # k PROVE UNCHANGED <<applied, specs, pc[k], claim[k], todo[k]>>
  BY <1>12 DEF CreateSpec
<1>13. ASSUME NEW h \in Handlers, PrepareComplete(h) PROVE UNCHANGED <<applied, specs, pc[k], claim[k], todo[k]>>
  BY <1>13 DEF PrepareComplete
<1>14. ASSUME NEW h \in Handlers, CleanGroup(h), h # k PROVE UNCHANGED <<applied, specs, pc[k], claim[k], todo[k]>>
  BY <1>14 DEF CleanGroup
<1>15. ASSUME NEW h \in Handlers, CleanFails(h) PROVE UNCHANGED <<applied, specs, pc[k], claim[k], todo[k]>>
  BY <1>15 DEF CleanFails
<1>16. ASSUME NEW h \in Handlers, AllClean(h), h # k PROVE UNCHANGED <<applied, specs, pc[k], claim[k], todo[k]>>
  BY <1>16 DEF AllClean
<1>17. ASSUME NEW h \in Handlers, RediscoverSiblings(h), h # k PROVE UNCHANGED <<applied, specs, pc[k], claim[k], todo[k]>>
  BY <1>17 DEF RediscoverSiblings
<1>18. ASSUME NEW h \in Handlers, DiscoverFails(h) PROVE UNCHANGED <<applied, specs, pc[k], claim[k], todo[k]>>
  BY <1>18 DEF DiscoverFails
<1>19. ASSUME NEW h \in Handlers, DeleteSpec(h), h # k PROVE UNCHANGED <<applied, specs, pc[k], claim[k], todo[k]>>
  BY <1>19 DEF DeleteSpec
<1>20. ASSUME NEW h \in Handlers, UnprepareForget(h) PROVE UNCHANGED <<applied, specs, pc[k], claim[k], todo[k]>>
  BY <1>20 DEF UnprepareForget
<1>21. ASSUME NEW h \in Handlers, CheckpointFails(h) PROVE UNCHANGED <<applied, specs, pc[k], claim[k], todo[k]>>
  BY <1>21 DEF CheckpointFails
<1>22. ASSUME NEW h \in Handlers, SpecFails(h) PROVE UNCHANGED <<applied, specs, pc[k], claim[k], todo[k]>>
  BY <1>22 DEF SpecFails
<1>23. ASSUME NEW h \in Handlers, Panic(h) PROVE UNCHANGED <<applied, specs, pc[k], claim[k], todo[k]>>
  BY <1>23 DEF Panic, Die
<1>24. ~Crash
  BY DEF Crash, Die
<1>25. CASE Boot
  BY <1>25 DEF Boot
<1> QED
  BY <1>1, <1>2, <1>3, <1>4, <1>5, <1>6, <1>7, <1>8, <1>9, <1>10, <1>11, <1>12, <1>13, <1>14, <1>15, <1>16, <1>17, <1>18, <1>19, <1>20, <1>21, <1>22, <1>23, <1>24, <1>25 DEF Next, Acquire, Step

\* Unprepare removes the traces of the groups, then the spec file, and nobody
\* puts one back meanwhile.
LEMMA CleaningNext == ASSUME NoHostdir, Control, OwnTraces, Cleaning, [Next]_vars PROVE Cleaning'
<1> USE DEF Control, TypeOK, Serving, Fresh, UnpreparePCs
<1>1. CASE UNCHANGED vars
  BY <1>1 DEF Cleaning, vars, host, handler
<1> SUFFICES ASSUME Next, NEW k \in Handlers, pc'[k] \in UnpreparePCs
             PROVE  /\ pc'[k] = "uClean" =>
                        \A u \in Units : <<claim'[k], u>> \in applied' =>
                            <<claim'[k], u>> \in Footprints(claim'[k], todo'[k])
                    /\ pc'[k] \in {"uDiscover", "uSpec", "uForget"} =>
                        \A u \in Units : <<claim'[k], u>> \notin applied'
                    /\ pc'[k] = "uForget" => claim'[k] \notin specs'
  BY <1>1 DEF Cleaning
<1>2. CASE UNCHANGED <<applied, specs, pc[k], claim[k], todo[k]>>
  BY <1>2 DEF Cleaning
<1>3. CASE UnprepareRead(k)
  BY <1>3 DEF UnprepareRead, LockAndRead, OwnTraces, host
<1>4. CASE CleanGroup(k)
  <2>1. PICK g \in todo[k] : /\ applied' = applied \ Footprint(claim[k], g)
                             /\ todo'[k] = todo[k] \ {g}
    BY <1>4 DEF CleanGroup, Fault, NoHostdir
  <2>2. pc[k] = "uClean" /\ pc'[k] = "uClean" /\ claim' = claim
    BY <1>4 DEF CleanGroup, Goto
  <2>3. ASSUME NEW u \in Units, <<claim[k], u>> \in applied'
        PROVE  <<claim[k], u>> \in Footprints(claim[k], todo[k] \ {g})
    <3>1. <<claim[k], u>> \in Footprints(claim[k], todo[k]) /\ <<claim[k], u>> \notin Footprint(claim[k], g)
      BY <2>1, <2>2, <2>3 DEF Cleaning
    <3>2. PICK f \in todo[k] : <<claim[k], u>> \in Footprint(claim[k], f)
      BY <3>1, FootprintsAre
    <3>3. f \in todo[k] \ {g}
      BY <3>1, <3>2
    <3> QED
      BY <3>2, <3>3, FootprintsAre
  <2> QED
    BY <2>1, <2>2, <2>3
<1>5. CASE AllClean(k)
  BY <1>5 DEF AllClean, Goto, Cleaning, Footprints, host
<1>6. CASE RediscoverSiblings(k)
  BY <1>6 DEF RediscoverSiblings, Goto, Cleaning, host
<1>7. CASE DeleteSpec(k)
  BY <1>7 DEF DeleteSpec, Goto, Cleaning
<1> QED
  <2>1. ~(PrepareRead(k) \/ PrepareStart(k) \/ SelectConfigs(k) \/ ApplyGroup(k) \/ HideSiblings(k) \/ CreateSpec(k))
    BY DEF PrepareRead, PrepareStart, SelectConfigs, ApplyGroup, HideSiblings, CreateSpec, Goto
  <2> QED
    BY <1>2, <1>3, <1>4, <1>5, <1>6, <1>7, <2>1, Undisturbed DEF Critical

\* The actions that write to the host or answer the kubelet, and the rest.
Quiet(h) ==
    \/ Call(h) \/ PrepareRead(h) \/ SelectConfigs(h) \/ RejectClaim(h) \/ HideSiblings(h)
    \/ AllClean(h) \/ RediscoverSiblings(h) \/ DiscoverFails(h) \/ CheckpointFails(h)
    \/ SpecFails(h) \/ Panic(h)

\* A quiet action leaves the host and the answers as they are.
LEMMA QuietFrame ==
    ASSUME NEW h \in Handlers, Quiet(h)
    PROVE  UNCHANGED <<host, told>>
BY DEF Quiet, Call, PrepareRead, SelectConfigs, RejectClaim, HideSiblings, AllClean, RediscoverSiblings,
   DiscoverFails, CheckpointFails, SpecFails, Panic, Die, history

\* No step leaves a trace without an entry.
LEMMA WriteAheadNext ==
    ASSUME NoHostdir, Control, Cleaning, WriteAhead, [Next]_vars PROVE WriteAhead'
<1> USE DEF Control, TypeOK, Serving, Fresh, UnpreparePCs, PreparePCs, WriteAhead, HasTraces, States
<1>1. CASE UNCHANGED host
  BY <1>1 DEF host
<1>2. ASSUME NEW h \in Handlers, PrepareStart(h) \/ PrepareRepeated(h) \/ PrepareComplete(h)
      PROVE WriteAhead'
  BY <1>2 DEF PrepareStart, PrepareRepeated, PrepareComplete, WriteStarted
<1>3. ASSUME NEW h \in Handlers, ApplyGroup(h) \/ ApplyFails(h) PROVE WriteAhead'
  <2>1. PICK g \in GroupsOf[claim[h]] : applied' \in {applied, applied \cup Footprint(claim[h], g)}
    BY <1>3, ApplyEffect
  <2>2. claim[h] \in Claims /\ pc[h] = "pApply" /\ UNCHANGED <<checkpoint, specs>>
    BY <1>3, ApplyEffect
  <2> QED
    BY <2>1, <2>2, FootprintOwn
<1>4. ASSUME NEW h \in Handlers, CreateSpec(h) PROVE WriteAhead'
  BY <1>4 DEF CreateSpec
<1>5. ASSUME NEW h \in Handlers, CleanGroup(h) \/ CleanFails(h) PROVE WriteAhead'
  BY <1>5, CleanEffect
<1>6. ASSUME NEW h \in Handlers, DeleteSpec(h) PROVE WriteAhead'
  BY <1>6 DEF DeleteSpec
<1>7. ASSUME NEW h \in Handlers, UnprepareForget(h) PROVE WriteAhead'
  BY <1>7 DEF UnprepareForget, Cleaning
<1>8. ASSUME NEW h \in Handlers, UnprepareRead(h) \/ UnprepareNoop(h) PROVE UNCHANGED host
  BY <1>8 DEF UnprepareRead, UnprepareNoop
<1> QED
  BY <1>1, <1>2, <1>3, <1>4, <1>5, <1>6, <1>7, <1>8, QuietFrame
     DEF Next, Acquire, Step, Quiet, vars, Crash, Die, Boot

\* No step leaves a released claim with traces and no started entry.
LEMMA ReleasedNext ==
    ASSUME NoHostdir, Control, Cleaning, WriteAhead, ReleasedIsClean, [Next]_vars PROVE ReleasedIsClean'
<1> USE DEF Control, TypeOK, Serving, Fresh, UnpreparePCs, PreparePCs, ReleasedIsClean, HasTraces, States
<1>1. CASE UNCHANGED <<host, told>>
  BY <1>1 DEF host
<1>2. ASSUME NEW h \in Handlers, PrepareStart(h) \/ PrepareRepeated(h) \/ PrepareComplete(h)
      PROVE ReleasedIsClean'
  <2>1. claim[h] \in Claims /\ UNCHANGED <<specs, applied>>
    BY <1>2 DEF PrepareStart, PrepareRepeated, PrepareComplete
  <2>2. told'[claim[h]] # "unprepared"
    BY <1>2, <2>1 DEF PrepareStart, PrepareRepeated, PrepareComplete, Tell
  <2>3. ASSUME NEW c \in Claims, c # claim[h] PROVE told'[c] = told[c] /\ checkpoint'[c] = checkpoint[c]
    BY <1>2, <2>3 DEF PrepareStart, PrepareRepeated, PrepareComplete, Tell, WriteStarted
  <2> QED
    BY <2>1, <2>2, <2>3
<1>3. ASSUME NEW h \in Handlers, ApplyGroup(h) \/ ApplyFails(h) PROVE ReleasedIsClean'
  <2>1. PICK g \in GroupsOf[claim[h]] : applied' \in {applied, applied \cup Footprint(claim[h], g)}
    BY <1>3, ApplyEffect
  <2>2. claim[h] \in Claims /\ pc[h] = "pApply" /\ UNCHANGED <<checkpoint, specs>>
    BY <1>3, ApplyEffect
  <2>3. UNCHANGED told
    BY <1>3 DEF ApplyGroup, ApplyFails, history
  <2> QED
    BY <2>1, <2>2, <2>3, FootprintOwn
<1>4. ASSUME NEW h \in Handlers, CreateSpec(h) PROVE ReleasedIsClean'
  BY <1>4 DEF CreateSpec, history
<1>5. ASSUME NEW h \in Handlers, CleanGroup(h) \/ CleanFails(h) PROVE ReleasedIsClean'
  <2>1. UNCHANGED told
    BY <1>5 DEF CleanGroup, CleanFails
  <2>2. UNCHANGED <<checkpoint, specs>> /\ applied' \subseteq applied
    BY <1>5, CleanEffect
  <2>3. ASSUME NEW c \in Claims PROVE HasTraces(c)' => HasTraces(c)
    BY <2>2
  <2> HIDE DEF HasTraces
  <2> QED
    BY <2>1, <2>2, <2>3
<1>6. ASSUME NEW h \in Handlers, DeleteSpec(h) PROVE ReleasedIsClean'
  BY <1>6 DEF DeleteSpec
<1>7. ASSUME NEW h \in Handlers, UnprepareForget(h) PROVE ReleasedIsClean'
  BY <1>7 DEF UnprepareForget, Cleaning, Tell
<1>8. ASSUME NEW h \in Handlers, UnprepareRead(h) PROVE ReleasedIsClean'
  BY <1>8 DEF UnprepareRead, Tell, host
<1>9. ASSUME NEW h \in Handlers, UnprepareNoop(h) PROVE ReleasedIsClean'
  <2>1. claim[h] \in Claims /\ checkpoint[claim[h]] # "PrepareCompleted" /\ UNCHANGED host
    BY <1>9 DEF UnprepareNoop
  <2>2. ~HasTraces(claim[h]) \/ checkpoint[claim[h]] = "PrepareStarted"
    <3> HIDE DEF HasTraces
    <3> QED
      BY <2>1 DEF WriteAhead
  <2>3. ASSUME NEW c \in Claims, c # claim[h] PROVE told'[c] = told[c]
    BY <1>9, <2>3 DEF UnprepareNoop, Tell
  <2>4. ASSUME NEW c \in Claims PROVE HasTraces(c)' <=> HasTraces(c)
    BY <2>1 DEF host
  <2>5. UNCHANGED checkpoint
    BY <2>1 DEF host
  <2> HIDE DEF HasTraces
  <2> QED
    BY <2>2, <2>3, <2>4, <2>5
<1> QED
  BY <1>1, <1>2, <1>3, <1>4, <1>5, <1>6, <1>7, <1>8, <1>9, QuietFrame
     DEF Next, Acquire, Step, Quiet, vars, history, Crash, Die, Boot

\* The invariant about the host.
LEMMA CleanInvariant == ASSUME NoHostdir PROVE Spec => []Clean
<1>1. Init => Clean
  BY ControlInit DEF Init, Clean, OwnTraces, Cleaning, WriteAhead, ReleasedIsClean, HasTraces, Blank
<1>2. Clean /\ [Next]_vars => Clean'
  BY NoHostdir, ControlNext, OwnTracesNext, CleaningNext, WriteAheadNext, ReleasedNext DEF Clean
<1> QED
  BY <1>1, <1>2, PTL DEF Spec

\* Nothing of a claim is on the host without an entry in the checkpoint.
THEOREM WriteAheadHolds == ASSUME NoHostdir PROVE Spec => []WriteAhead
<1>1. Clean => WriteAhead
  BY DEF Clean
<1> QED
  BY NoHostdir, <1>1, CleanInvariant, PTL

\* An Unprepare that succeeds leaves nothing, or an entry that is only started.
THEOREM ReleaseIsClean == ASSUME NoHostdir PROVE Spec => []ReleasedIsClean
<1>1. Clean => ReleasedIsClean
  BY DEF Clean
<1> QED
  BY NoHostdir, <1>1, CleanInvariant, PTL

----------------------------------------------------------------------------
\* What is complete.

\* What a claim needs stays until an Unprepare of that claim takes it apart.
LEMMA RealStays ==
    ASSUME NoHostdir, Control, [Next]_vars, NEW c \in Claims, Real(c), c \notin torn'
    PROVE  Real(c)'
<1> USE DEF Control, TypeOK, Serving
<1>1. CASE UNCHANGED host
  BY <1>1 DEF Real, host
<1>2. ASSUME NEW h \in Handlers, PrepareStart(h) \/ PrepareRepeated(h) \/ PrepareComplete(h) \/ UnprepareForget(h)
      PROVE Real(c)'
  <2>1. UNCHANGED <<specs, applied>>
    BY <1>2 DEF PrepareStart, PrepareRepeated, PrepareComplete, UnprepareForget
  <2> QED
    BY <2>1 DEF Real
<1>3. ASSUME NEW h \in Handlers, ApplyGroup(h) \/ ApplyFails(h) PROVE Real(c)'
  BY <1>3, ApplyEffect DEF Real
<1>4. ASSUME NEW h \in Handlers, CreateSpec(h) PROVE Real(c)'
  BY <1>4 DEF CreateSpec, Real
<1>5. ASSUME NEW h \in Handlers, CleanGroup(h) \/ CleanFails(h) PROVE Real(c)'
  <2>1. c # claim[h]
    BY <1>5 DEF CleanGroup, CleanFails
  <2>2. PICK g \in GroupsOf[claim[h]] : applied' \in {applied, applied \ Footprint(claim[h], g)}
    BY <1>5, CleanEffect
  <2>3. claim[h] \in Claims /\ UNCHANGED specs
    BY <1>5, CleanEffect
  <2>4. ASSUME NEW t \in Footprints(c, GroupsOf[c]) PROVE t \notin Footprint(claim[h], g)
    <3>1. PICK f \in GroupsOf[c] : t \in Footprint(c, f)
      BY FootprintsAre
    <3> QED
      BY <2>1, <3>1 DEF Footprint, Trace
  <2> QED
    BY <2>2, <2>3, <2>4 DEF Real
<1>6. ASSUME NEW h \in Handlers, DeleteSpec(h) PROVE Real(c)'
  <2>1. c # claim[h] /\ UNCHANGED applied /\ specs' = specs \ {claim[h]}
    BY <1>6 DEF DeleteSpec
  <2> QED
    BY <2>1 DEF Real
<1>7. ASSUME NEW h \in Handlers, UnprepareRead(h) \/ UnprepareNoop(h) PROVE UNCHANGED host
  BY <1>7 DEF UnprepareRead, UnprepareNoop
<1> QED
  BY <1>1, <1>2, <1>3, <1>4, <1>5, <1>6, <1>7, QuietFrame
     DEF Next, Acquire, Step, Quiet, vars, Crash, Die, Boot

\* Prepare makes the traces of the groups, then the spec file, and nobody removes
\* one meanwhile.
LEMMA ApplyingNext == ASSUME NoHostdir, Control, Applying, [Next]_vars PROVE Applying'
<1>1. CASE UNCHANGED vars
  BY <1>1 DEF Applying, Real, vars, host, handler
<1> DEFINE At(k) ==
      /\ pc[k] = "pApply" => Footprints(claim[k], GroupsOf[claim[k]] \ todo[k]) \subseteq applied
      /\ pc[k] = "pSpec" => Footprints(claim[k], GroupsOf[claim[k]]) \subseteq applied
      /\ pc[k] = "pDone" => Real(claim[k])
<1> SUFFICES ASSUME Next, NEW k \in Handlers PROVE At(k)'
  BY <1>1 DEF Applying
<1> USE DEF Control, TypeOK, Serving
<1>2. CASE UNCHANGED <<applied, specs, pc[k], claim[k], todo[k]>>
  BY <1>2 DEF Applying, Real
<1>3. CASE SelectConfigs(k)
  <2>1. pc'[k] = "pApply" /\ claim' = claim /\ todo'[k] = GroupsOf[claim[k]]
    BY <1>3 DEF SelectConfigs, Goto
  <2>2. Footprints(claim'[k], GroupsOf[claim'[k]] \ todo'[k]) = {}
    BY <2>1 DEF Footprints
  <2> QED
    BY <2>1, <2>2
<1>4. CASE ApplyGroup(k)
  <2>1. PICK g \in todo[k] : /\ applied' = applied \cup Footprint(claim[k], g)
                             /\ todo'[k] = todo[k] \ {g}
    BY <1>4 DEF ApplyGroup, Fault, NoHostdir
  <2>2. pc[k] = "pApply" /\ pc'[k] = "pApply" /\ claim' = claim
    BY <1>4 DEF ApplyGroup, Goto
  <2>3. ASSUME NEW t \in Footprints(claim[k], GroupsOf[claim[k]] \ (todo[k] \ {g})) PROVE t \in applied'
    <3>1. PICK f \in GroupsOf[claim[k]] \ (todo[k] \ {g}) : t \in Footprint(claim[k], f)
      BY <2>3, FootprintsAre
    <3>2. CASE f = g
      BY <2>1, <3>1, <3>2
    <3>3. CASE f # g
      <4>1. t \in Footprints(claim[k], GroupsOf[claim[k]] \ todo[k])
        BY <3>1, <3>3, FootprintsAre
      <4> QED
        BY <2>1, <2>2, <4>1 DEF Applying
    <3> QED
      BY <3>2, <3>3
  <2> QED
    BY <2>1, <2>2, <2>3
<1>5. CASE HideSiblings(k)
  <2>1. /\ pc[k] = "pApply" /\ todo[k] = {} /\ pc'[k] = "pSpec"
        /\ UNCHANGED <<claim, applied>>
    BY <1>5 DEF HideSiblings, Goto, host
  <2>2. GroupsOf[claim[k]] \ todo[k] = GroupsOf[claim[k]]
    BY <2>1
  <2> QED
    BY <2>1, <2>2 DEF Applying
<1>6. CASE CreateSpec(k)
  <2>1. /\ pc[k] = "pSpec" /\ pc'[k] = "pDone" /\ UNCHANGED <<claim, applied>>
        /\ HasEdits(claim[k]) => claim[k] \in specs'
    BY <1>6 DEF CreateSpec, Goto
  <2> QED
    BY <2>1 DEF Applying, Real
<1>7. CASE pc'[k] \notin {"pApply", "pSpec", "pDone"}
  BY <1>7
<1>8. pc'[k] \in {"pApply", "pSpec", "pDone"} =>
          ~(PrepareRead(k) \/ PrepareStart(k) \/ UnprepareRead(k) \/ CleanGroup(k) \/ AllClean(k) \/ RediscoverSiblings(k) \/ DeleteSpec(k))
  BY DEF PrepareRead, PrepareStart, UnprepareRead, CleanGroup, AllClean, RediscoverSiblings, DeleteSpec, Goto
<1> QED
  BY <1>2, <1>3, <1>4, <1>5, <1>6, <1>7, <1>8, Undisturbed DEF Critical, PreparePCs

\* How a claim comes to be completed.
LEMMA Completes ==
    ASSUME Control, Next, NEW c \in Claims, checkpoint'[c] = "PrepareCompleted", c \notin torn'
    PROVE  \/ checkpoint[c] = "PrepareCompleted" /\ c \notin torn
           \/ \E h \in Handlers : PrepareComplete(h) /\ claim[h] = c
<1> USE DEF Control, TypeOK, Serving, Fresh, UnpreparePCs
<1>1. CASE checkpoint' = checkpoint /\ torn \subseteq torn'
  BY <1>1
<1>2. ASSUME NEW h \in Handlers, PrepareStart(h) \/ PrepareRepeated(h) PROVE checkpoint[c] = "PrepareCompleted" /\ c \notin torn
  BY <1>2 DEF PrepareStart, PrepareRepeated, WriteStarted
<1>3. ASSUME NEW h \in Handlers, PrepareComplete(h), claim[h] # c PROVE checkpoint[c] = "PrepareCompleted" /\ c \notin torn
  BY <1>3 DEF PrepareComplete
<1>4. ASSUME NEW h \in Handlers, UnprepareForget(h) PROVE checkpoint[c] = "PrepareCompleted" /\ c \notin torn
  BY <1>4 DEF UnprepareForget
<1> QED
  BY <1>1, <1>2, <1>3, <1>4 DEF Next, Acquire, Step, Call, PrepareRead, UnprepareRead,
     UnprepareNoop, SelectConfigs, RejectClaim, ApplyGroup, ApplyFails, HideSiblings,
     CreateSpec, CleanGroup, CleanFails, AllClean, RediscoverSiblings, DiscoverFails,
     DeleteSpec, CheckpointFails, SpecFails, Panic, Crash, Die, Boot, host, history

\* How a claim comes to be reported as prepared.
LEMMA Grants ==
    ASSUME Control, Next, NEW c \in Claims, told'[c] = "prepared", c \notin torn'
    PROVE  \/ told[c] = "prepared" /\ c \notin torn
           \/ checkpoint[c] = "PrepareCompleted" /\ c \notin torn
           \/ \E h \in Handlers : PrepareComplete(h) /\ claim[h] = c
<1> USE DEF Control, TypeOK, Serving, Fresh
<1>1. CASE told' = told /\ torn \subseteq torn'
  BY <1>1
<1>2. ASSUME NEW h \in Handlers, PrepareStart(h) PROVE told[c] = "prepared" /\ c \notin torn
  <2>1. torn' = torn /\ told' = [told EXCEPT ![claim[h]] = IF @ = "prepared" THEN @ ELSE "nothing"]
    BY <1>2 DEF PrepareStart
  <2> QED
    BY <2>1
<1>3. ASSUME NEW h \in Handlers, PrepareRepeated(h)
      PROVE (told[c] = "prepared" \/ checkpoint[c] = "PrepareCompleted") /\ c \notin torn
  BY <1>3 DEF PrepareRepeated, Tell
<1>4. ASSUME NEW h \in Handlers, PrepareComplete(h), claim[h] # c PROVE told[c] = "prepared" /\ c \notin torn
  BY <1>4 DEF PrepareComplete, Tell
<1>5. ASSUME NEW h \in Handlers, UnprepareRead(h) \/ UnprepareNoop(h) \/ UnprepareForget(h)
      PROVE told[c] = "prepared" /\ c \notin torn
  BY <1>5 DEF UnprepareRead, UnprepareNoop, UnprepareForget, Tell
<1> QED
  BY <1>1, <1>2, <1>3, <1>4, <1>5 DEF Next, Acquire, Step, Call, PrepareRead,
     SelectConfigs, RejectClaim, ApplyGroup, ApplyFails, HideSiblings,
     CreateSpec, CleanGroup, CleanFails, AllClean, RediscoverSiblings, DiscoverFails,
     DeleteSpec, CheckpointFails, SpecFails, Panic, Crash, Die, Boot, host, history

\* The invariant about prepared claims.
LEMMA WholeInvariant == ASSUME NoHostdir PROVE Spec => []Whole
<1>1. Init => Whole
  BY ControlInit DEF Init, Whole, Applying, CompletedIsReal, GrantedIsReal, Blank
<1>2. Whole /\ [Next]_vars => Whole'
  <2> SUFFICES ASSUME Whole, [Next]_vars PROVE Whole'
    OBVIOUS
  <2>1. Control /\ Applying /\ CompletedIsReal /\ GrantedIsReal
    BY DEF Whole
  <2>2. Control' /\ Applying'
    BY NoHostdir, <2>1, ControlNext, ApplyingNext
  <2>3. CASE UNCHANGED vars
    BY <2>1, <2>2, <2>3 DEF Whole, CompletedIsReal, GrantedIsReal, Real, vars, host, history
  <2>4. CASE Next
    <3>1. ASSUME NEW h \in Handlers, PrepareComplete(h) PROVE Real(claim[h])
      BY <2>1, <3>1 DEF Applying, PrepareComplete
    <3>2. CompletedIsReal'
      BY NoHostdir, <2>1, <2>4, <3>1, Completes, RealStays DEF CompletedIsReal
    <3>3. GrantedIsReal'
      BY NoHostdir, <2>1, <2>4, <3>1, Grants, RealStays DEF CompletedIsReal, GrantedIsReal
    <3> QED
      BY <2>2, <3>2, <3>3 DEF Whole
  <2> QED
    BY <2>3, <2>4
<1> QED
  BY <1>1, <1>2, PTL DEF Spec

\* A claim reported as prepared has every trace of its configs and its CDI spec
\* file until an Unprepare takes it apart, whatever else is called or fails.
THEOREM GrantHolds == ASSUME NoHostdir PROVE Spec => []GrantedIsReal
<1>1. Whole => GrantedIsReal
  BY DEF Whole
<1> QED
  BY NoHostdir, <1>1, WholeInvariant, PTL

----------------------------------------------------------------------------
\* The journal view.

Traces == {c \in Claims : HasTraces(c)}

\* A step that makes traces for one claim only.
LEMMA TracesMade ==
    ASSUME NEW d \in Claims, \A c \in Claims : HasTraces(c) => HasTraces(c)',
           \A c \in Claims \ {d} : HasTraces(c)' => HasTraces(c)
    PROVE  Traces' \in {Traces, Traces \cup {d}}
<1>1. CASE HasTraces(d) <=> HasTraces(d)'
  <2>1. \A c \in Claims : HasTraces(c) <=> HasTraces(c)'
    BY <1>1
  <2> QED
    BY <2>1 DEF Traces
<1>2. CASE ~HasTraces(d) /\ HasTraces(d)'
  BY <1>2 DEF Traces
<1> QED
  BY <1>1, <1>2

\* A step that removes traces of one claim only.
LEMMA TracesRemoved ==
    ASSUME NEW d \in Claims, \A c \in Claims : HasTraces(c)' => HasTraces(c),
           \A c \in Claims \ {d} : HasTraces(c) => HasTraces(c)'
    PROVE  Traces' \in {Traces, Traces \ {d}}
<1>1. CASE HasTraces(d) <=> HasTraces(d)'
  <2>1. \A c \in Claims : HasTraces(c) <=> HasTraces(c)'
    BY <1>1
  <2> QED
    BY <2>1 DEF Traces
<1>2. CASE HasTraces(d) /\ ~HasTraces(d)'
  BY <1>2 DEF Traces
<1> QED
  BY <1>1, <1>2

\* Every step is a step of the journal or leaves it alone.
LEMMA JournalNext == ASSUME NoHostdir, Clean, [Next]_vars PROVE [Journal!Next]_(Journal!vars)
<1> USE DEF Clean, Control, TypeOK, Serving, Fresh, UnpreparePCs, PreparePCs
<1> SUFFICES UNCHANGED <<checkpoint, Traces>> \/ Journal!Next
  BY DEF Journal!vars, Traces
<1>1. CASE UNCHANGED host
  BY <1>1 DEF host, Traces, HasTraces
<1>2. ASSUME NEW h \in Handlers, PrepareStart(h) \/ PrepareRepeated(h) PROVE Journal!Next
  <2>1. claim[h] \in Claims /\ WriteStarted(h) /\ UNCHANGED <<specs, applied>>
    BY <1>2 DEF PrepareStart, PrepareRepeated
  <2>2. UNCHANGED Traces
    BY <2>1 DEF Traces, HasTraces
  <2>3. Journal!Begin(claim[h])
    BY <2>1, <2>2 DEF Journal!Begin, WriteStarted, Traces
  <2> QED
    BY <2>1, <2>3 DEF Journal!Next
<1>3. ASSUME NEW h \in Handlers, PrepareComplete(h) PROVE Journal!Next
  <2>1. /\ claim[h] \in Claims /\ UNCHANGED <<specs, applied>>
        /\ checkpoint[claim[h]] = "PrepareStarted"
        /\ checkpoint' = [checkpoint EXCEPT ![claim[h]] = "PrepareCompleted"]
    BY <1>3 DEF PrepareComplete
  <2>2. UNCHANGED Traces
    BY <2>1 DEF Traces, HasTraces
  <2>3. Journal!Complete(claim[h])
    BY <2>1, <2>2 DEF Journal!Complete, Traces
  <2> QED
    BY <2>1, <2>3 DEF Journal!Next
<1>4. ASSUME NEW h \in Handlers, ApplyGroup(h) \/ ApplyFails(h) \/ CreateSpec(h)
      PROVE UNCHANGED <<checkpoint, Traces>> \/ Journal!Next
  <2>1. /\ claim[h] \in Claims /\ UNCHANGED checkpoint
        /\ checkpoint[claim[h]] = "PrepareStarted"
    BY <1>4 DEF ApplyGroup, ApplyFails, CreateSpec
  <2>2. ASSUME ApplyGroup(h) \/ ApplyFails(h) PROVE Traces' \in {Traces, Traces \cup {claim[h]}}
    <3>1. PICK g \in GroupsOf[claim[h]] : applied' \in {applied, applied \cup Footprint(claim[h], g)}
      BY <2>2, ApplyEffect
    <3>2. UNCHANGED specs
      BY <2>2, ApplyEffect
    <3>3. \A c \in Claims : HasTraces(c) => HasTraces(c)'
      BY <3>1, <3>2 DEF HasTraces
    <3>4. \A c \in Claims \ {claim[h]}, u \in Units : <<c, u>> \notin Footprint(claim[h], g)
      BY <2>1, FootprintOwn
    <3>5. \A c \in Claims \ {claim[h]} : HasTraces(c)' => HasTraces(c)
      BY <3>1, <3>2, <3>4 DEF HasTraces
    <3> QED
      BY <2>1, <3>3, <3>5, TracesMade
  <2>3. ASSUME CreateSpec(h) PROVE Traces' \in {Traces, Traces \cup {claim[h]}}
    <3>1. specs' \in {specs, specs \cup {claim[h]}} /\ UNCHANGED applied
      BY <2>3 DEF CreateSpec
    <3>2. \A c \in Claims : HasTraces(c) => HasTraces(c)'
      BY <3>1 DEF HasTraces
    <3>3. \A c \in Claims \ {claim[h]} : HasTraces(c)' => HasTraces(c)
      BY <2>1, <3>1 DEF HasTraces
    <3> QED
      BY <2>1, <3>2, <3>3, TracesMade
  <2>4. Traces' \in {Traces, Traces \cup {claim[h]}}
    BY <1>4, <2>2, <2>3
  <2>5. CASE Traces' = Traces \cup {claim[h]}
    BY <2>1, <2>5 DEF Journal!Next, Journal!Touch, Traces
  <2> QED
    BY <2>1, <2>4, <2>5
<1>5. ASSUME NEW h \in Handlers, CleanGroup(h) \/ CleanFails(h) \/ DeleteSpec(h)
      PROVE UNCHANGED <<checkpoint, Traces>> \/ Journal!Next
  <2>1. /\ claim[h] \in Claims /\ UNCHANGED checkpoint
        /\ checkpoint[claim[h]] = "PrepareCompleted"
    BY <1>5 DEF CleanGroup, CleanFails, DeleteSpec
  <2>2. ASSUME CleanGroup(h) \/ CleanFails(h) PROVE Traces' \in {Traces, Traces \ {claim[h]}}
    <3>1. PICK g \in GroupsOf[claim[h]] : applied' \in {applied, applied \ Footprint(claim[h], g)}
      BY <2>2, CleanEffect
    <3>2. UNCHANGED specs
      BY <2>2, CleanEffect
    <3>3. \A c \in Claims : HasTraces(c)' => HasTraces(c)
      BY <3>1, <3>2 DEF HasTraces
    <3>4. \A c \in Claims \ {claim[h]} : HasTraces(c) => HasTraces(c)'
      BY <2>1, <3>1, <3>2, FootprintOwn DEF HasTraces
    <3> QED
      BY <2>1, <3>3, <3>4, TracesRemoved
  <2>3. ASSUME DeleteSpec(h) PROVE Traces' \in {Traces, Traces \ {claim[h]}}
    <3>1. specs' = specs \ {claim[h]} /\ UNCHANGED applied
      BY <2>3 DEF DeleteSpec
    <3>2. \A c \in Claims : HasTraces(c)' => HasTraces(c)
      BY <3>1 DEF HasTraces
    <3>3. \A c \in Claims \ {claim[h]} : HasTraces(c) => HasTraces(c)'
      BY <2>1, <3>1 DEF HasTraces
    <3> QED
      BY <2>1, <3>2, <3>3, TracesRemoved
  <2>4. CASE Traces' = Traces \ {claim[h]}
    BY <2>1, <2>4 DEF Journal!Next, Journal!Clear, Traces
  <2> QED
    BY <1>5, <2>1, <2>2, <2>3, <2>4
<1>6. ASSUME NEW h \in Handlers, UnprepareForget(h) PROVE Journal!Next
  <2>1. /\ claim[h] \in Claims /\ UNCHANGED <<specs, applied>> /\ pc[h] = "uForget"
        /\ checkpoint[claim[h]] = "PrepareCompleted"
        /\ checkpoint' = [checkpoint EXCEPT ![claim[h]] = "Absent"]
    BY <1>6 DEF UnprepareForget
  <2>2. UNCHANGED Traces
    BY <2>1 DEF Traces, HasTraces
  <2>3. claim[h] \notin Traces
    BY <2>1 DEF Traces, HasTraces, Cleaning
  <2>4. Journal!Forget(claim[h])
    BY <2>1, <2>2, <2>3 DEF Journal!Forget, Traces
  <2> QED
    BY <2>1, <2>4 DEF Journal!Next
<1>7. ASSUME NEW h \in Handlers, UnprepareRead(h) \/ UnprepareNoop(h) PROVE UNCHANGED host
  BY <1>7 DEF UnprepareRead, UnprepareNoop
<1> QED
  BY <1>1, <1>2, <1>3, <1>4, <1>5, <1>6, <1>7, QuietFrame
     DEF Next, Acquire, Step, Quiet, vars, Crash, Die, Boot

\* DeviceState implements the write-ahead journal.
THEOREM Refinement == ASSUME NoHostdir PROVE Spec => ImplementsJournal
<1>1. Init => Journal!Init
  BY DEF Init, Journal!Init, HasTraces, Blank
<1>2. Clean /\ [Next]_vars => [Journal!Next]_(Journal!vars)
  BY NoHostdir, JournalNext
<1> QED
  BY NoHostdir, <1>1, <1>2, CleanInvariant, PTL DEF Spec, ImplementsJournal, Journal!Spec
====
