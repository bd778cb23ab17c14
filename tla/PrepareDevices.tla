---- MODULE PrepareDevices ----
(***************************************************************************)
(* prepareDevices of cmd/hami-kubelet-plugin/device_state.go for one call: *)
(* from the allocation of a claim to the devices and CDI ids the kubelet   *)
(* is answered, with GetOpaqueDeviceConfigs, the container edits of HAMi   *)
(* and MPS, and the claim's CDI spec.  DeviceState has this call as        *)
(* SelectConfigs or RejectClaim, ApplyGroup or ApplyFails, and CreateSpec; *)
(* here are the configs, the devices and the names.  A manager that fails, *)
(* the error of applyConfig, is there and not here.  Each loop of the code *)
(* is an action, one step per turn.                                        *)
(***************************************************************************)
EXTENDS Naturals, Sequences, FiniteSets, Functions

CONSTANTS
    Requests,       \* requests of the claim
    Devices,        \* device names in allocation results
    TypeOf,         \* device -> its type
    Inputs          \* what a call may meet: the enabled gates, s.allocatable, and
                    \* the configs and results of the claim's allocation

\* "unknown" is an object the decoder knows and that configures no device.
Forms == {"nil", "foreign", "undecodable", "unknown", "gpu", "mps", "mig", "vfio"}
Shares == {"unset", "fraction", "30", "50"}
Configs == [source : {"class", "claim", "other", "default"}, requests : SUBSET Requests,
            form : Forms, valid : BOOLEAN]
Results == [request : Requests, device : Devices, own : BOOLEAN, share : Shares]

Gates == {"HAMiCoreSupport", "MPSSupport", "PassthroughSupport"}

ASSUME TypeAssumption == TypeOf \in [Devices -> {"hami-gpu", "gpu", "mig", "vfio"}]
ASSUME InputAssumption ==
    \A a \in Inputs : /\ a.configs \in Seq(Configs) /\ a.results \in Seq(Results)
                      /\ a.gates \subseteq Gates /\ a.allocatable \subseteq Devices
\* What enumeration finds: HAMi GPUs alone, or GPUs, MIG devices and, behind
\* PassthroughSupport, VFIO devices.
ASSUME EnumerationAssumption ==
    \A a \in Inputs : \A d \in a.allocatable :
        /\ TypeOf[d] = "hami-gpu" <=> "HAMiCoreSupport" \in a.gates
        /\ TypeOf[d] = "vfio" => "PassthroughSupport" \in a.gates

VARIABLES
    input,      \* the gates, s.allocatable and claim.Status.Allocation.Devices
    pc,         \* where the call is
    classConfigs, claimConfigs,     \* positions in input.configs, by source
    decoded,    \* how many candidate configs were decoded or skipped
    configs,    \* the configs in order of precedence, lowest first, each with the
                \* position it comes from; 0 for a default
    chosen,     \* result -> index of its config, 0 for none; grows in order
    edits,      \* config index -> what applying it returned
    prepared,   \* the answer: one entry per prepared device
    spec        \* devices of the claim's CDI spec file

lists == <<classConfigs, claimConfigs, decoded>>
vars == <<input, pc, lists, configs, chosen, edits, prepared, spec>>

Hami == "HAMiCoreSupport" \in input.gates
Mps == "MPSSupport" \in input.gates /\ ~Hami
Passthrough == "PassthroughSupport" \in input.gates

----------------------------------------------------------------------------
Default(form) == [source |-> "default", requests |-> {}, form |-> form, valid |-> TRUE]
Defaulted(form) == [at |-> 0, config |-> Default(form)]
Given(i) == [at |-> i, config |-> input.configs[i]]

\* The defaults stand in front, for every request.
Defaults ==
    (IF Passthrough THEN <<Defaulted("vfio")>> ELSE <<>>) \o <<Defaulted("mig"), Defaulted("gpu")>>

\* The config types a device type takes: each type is asked after by itself, so
\* an unknown one fits every device and is refused when it is to be applied.
Fits(c, d) ==
    CASE c.form \in {"gpu", "mps"} -> TypeOf[d] \in {"gpu", "hami-gpu"}
      [] c.form \in {"mig", "vfio"} -> TypeOf[d] = c.form
      [] c.form = "unknown" -> TRUE
Sound(c) == c.form # "unknown" /\ c.valid

\* Variant: a config that names the request applies whatever its type.
NeverMisfit(c, r) == FALSE

\* A config that names the request must fit; one for all requests is passed over.
Misfit(c, r) == r.request \in c.requests /\ ~Fits(c, r.device)
Matches(c, r) == r.request \in c.requests \/ (c.requests = {} /\ Fits(c, r.device))

----------------------------------------------------------------------------
Init ==
    /\ input \in Inputs
    /\ pc = "collect"
    /\ classConfigs = <<>> /\ claimConfigs = <<>> /\ decoded = 0
    /\ configs = <<>> /\ chosen = <<>> /\ edits = <<>>
    /\ prepared = {} /\ spec = {}

Fail == pc' = "failed" /\ UNCHANGED <<input, lists, configs, chosen, edits, prepared, spec>>

----------------------------------------------------------------------------
\* GetOpaqueDeviceConfigs: the configs are collected by source, then decoded.

Collected == Len(classConfigs) + Len(claimConfigs)
Source == input.configs[Collected + 1].source
Collecting == pc = "collect" /\ Collected < Len(input.configs)

CollectConfig ==
    /\ Collecting
    /\ \/ /\ Source = "class" /\ classConfigs' = Append(classConfigs, Collected + 1)
          /\ UNCHANGED claimConfigs
       \/ /\ Source = "claim" /\ claimConfigs' = Append(claimConfigs, Collected + 1)
          /\ UNCHANGED classConfigs
    /\ UNCHANGED <<input, pc, decoded, configs, chosen, edits, prepared, spec>>

RejectSource == Collecting /\ Source \notin {"class", "claim"} /\ Fail

EndCollection ==
    /\ pc = "collect" /\ Collected = Len(input.configs)
    /\ pc' = "decode"
    /\ UNCHANGED <<input, lists, configs, chosen, edits, prepared, spec>>

\* Variant: the configs of the claim come first.
ClaimsFirst == claimConfigs \o classConfigs

CandidateConfigs == classConfigs \o claimConfigs

Candidate == CandidateConfigs[decoded + 1]
Decoding == pc = "decode" /\ decoded < Len(CandidateConfigs)

\* Other drivers' configs are skipped.
DecodeConfig ==
    /\ Decoding /\ input.configs[Candidate].form \notin {"nil", "undecodable"}
    /\ configs' = IF input.configs[Candidate].form = "foreign" THEN configs
                  ELSE Append(configs, Given(Candidate))
    /\ decoded' = decoded + 1
    /\ UNCHANGED <<input, pc, classConfigs, claimConfigs, chosen, edits, prepared, spec>>

\* An extension or parameters this driver does not know.
RejectForm == Decoding /\ input.configs[Candidate].form \in {"nil", "undecodable"} /\ Fail

\* GetOpaqueDeviceConfigs returns, and the defaults are inserted.
EndDecoding ==
    /\ pc = "decode" /\ decoded = Len(CandidateConfigs)
    /\ configs' = Defaults \o configs
    /\ pc' = "select"
    /\ UNCHANGED <<input, lists, chosen, edits, prepared, spec>>

----------------------------------------------------------------------------
\* The loop over the results: slices.Backward takes the last config that matches.
Result == input.results[Len(chosen) + 1]
Pending == pc = "select" /\ Len(chosen) < Len(input.results)
ConfigOf(g) == configs[g].config
Matching(r) == {g \in DOMAIN configs : Matches(ConfigOf(g), r)}
Latest(indices) == CHOOSE i \in indices : \A j \in indices : j <= i

\* Another driver's result has no config here, nor has one that nothing matches.
SelectConfig ==
    /\ Pending
    /\ \/ /\ ~Result.own \/ (Result.device \in input.allocatable /\ Matching(Result) = {})
          /\ chosen' = Append(chosen, 0)
       \/ /\ Result.own /\ Result.device \in input.allocatable /\ Matching(Result) # {}
          /\ ~Misfit(ConfigOf(Latest(Matching(Result))), Result)
          /\ chosen' = Append(chosen, Latest(Matching(Result)))
    /\ UNCHANGED <<input, pc, lists, configs, edits, prepared, spec>>

RejectResult ==
    /\ Pending /\ Result.own
    /\ \/ Result.device \notin input.allocatable
       \/ Matching(Result) # {} /\ Misfit(ConfigOf(Latest(Matching(Result))), Result)
    /\ Fail

EndSelection ==
    /\ pc = "select" /\ Len(chosen) = Len(input.results)
    /\ pc' = "apply"
    /\ UNCHANGED <<input, lists, configs, chosen, edits, prepared, spec>>

----------------------------------------------------------------------------
\* The loop that applies the configs, in the order of a Go map.

Mine == {k \in DOMAIN chosen : chosen[k] # 0}
Group(g) == {k \in Mine : chosen[k] = g}
DeviceOf(k) == input.results[k].device

\* Variant: every device gets the share of the first result.
FirstShare(d) == input.results[1].share

\* getConsumableCapacityMap: later results of a device overwrite earlier ones,
\* whosever they are.
Consumed(d) ==
    LET stating == {k \in DOMAIN input.results : /\ DeviceOf(k) = d
                                                 /\ input.results[k].share # "unset"}
    IN IF stating = {} THEN "unset" ELSE input.results[Latest(stating)].share

\* The default holds unless an integer was consumed.
LimitOf(d) == IF Consumed(d) \in {"unset", "fraction"} THEN "default" ELSE Consumed(d)

\* GetCDIContainerEdits of HAMi: a limit per device of the group, numbered in any
\* order, from 0 in every group.  The edits hold the amounts by number: whose they
\* are is not in them.
HamiEdits(g) ==
    LET devices == {DeviceOf(k) : k \in Group(g)}
    IN {[kind |-> "hami", limits |-> [i \in DOMAIN order |-> LimitOf(order[i])]] :
            order \in Surjection(1..Cardinality(devices), devices)}
Edits(g) ==
    IF Hami /\ ConfigOf(g).form # "vfio" THEN HamiEdits(g)
    ELSE {[kind |-> IF Mps /\ ConfigOf(g).form = "mps" THEN "mps" ELSE "none", limits |-> <<>>]}

ToApply == {chosen[k] : k \in Mine} \ DOMAIN edits

ApplyConfig ==
    /\ pc = "apply"
    /\ \E g \in ToApply : /\ Sound(ConfigOf(g))
                          /\ \E e \in Edits(g) : edits' = [j \in DOMAIN edits \cup {g} |->
                                                            IF j = g THEN e ELSE edits[j]]
    /\ UNCHANGED <<input, pc, lists, configs, chosen, prepared, spec>>

\* A config is of no known type or does not validate, perhaps after others were
\* applied.
RejectInvalid ==
    /\ pc = "apply"
    /\ \E g \in ToApply : ~Sound(ConfigOf(g))
    /\ Fail

----------------------------------------------------------------------------
\* The answer and the claim's CDI spec.

HasEdits(k) == edits[chosen[k]].kind # "none"

\* Variant: the id is made of the request.
StandardDeviceByRequest(k) == <<"device", input.results[k].request>>
\* GetStandardDevice: a name for every device, whether or not a spec has it.
StandardDevice(k) == <<"device", DeviceOf(k)>>

\* Variant: a claim device whether or not there are edits.
ClaimDeviceAlways(k) == {<<"claim", DeviceOf(k)>>}
\* GetClaimDevice: a name for a device with edits, else none.
ClaimDevice(k) == IF HasEdits(k) THEN {<<"claim", DeviceOf(k)>>} ELSE {}

BuildDevices ==
    /\ pc = "apply" /\ ToApply = {}
    /\ prepared' = {[result |-> k, ids |-> {StandardDevice(k)} \cup ClaimDevice(k)] : k \in Mine}
    /\ pc' = "spec"
    /\ UNCHANGED <<input, lists, configs, chosen, edits, spec>>

\* The CDI library refuses a spec with two devices of one name.
Duplicated ==
    \E k, l \in Mine : k # l /\ HasEdits(k) /\ HasEdits(l) /\ DeviceOf(k) = DeviceOf(l)

CreateClaimSpec ==
    /\ pc = "spec" /\ ~Duplicated
    /\ spec' = {<<DeviceOf(k), edits[chosen[k]]>> : k \in {l \in Mine : HasEdits(l)}}
    /\ pc' = "granted"
    /\ UNCHANGED <<input, lists, configs, chosen, edits, prepared>>

SpecRefused == pc = "spec" /\ Duplicated /\ Fail

Next ==
    \/ CollectConfig \/ RejectSource \/ EndCollection
    \/ DecodeConfig \/ RejectForm \/ EndDecoding \/ SelectConfig \/ RejectResult \/ EndSelection
    \/ ApplyConfig \/ RejectInvalid \/ BuildDevices \/ CreateClaimSpec \/ SpecRefused

Spec == Init /\ [][Next]_vars

----------------------------------------------------------------------------
\* Properties.

EditsType == [kind : {"none", "mps", "hami"}, limits : Seq(Shares \cup {"default"})]

\* The types of the variables.
TypeOK ==
    /\ input \in Inputs
    /\ pc \in {"collect", "decode", "select", "apply", "spec", "granted", "failed"}
    /\ classConfigs \in Seq(Nat) /\ claimConfigs \in Seq(Nat) /\ decoded \in Nat
    /\ configs \in Seq([at : Nat, config : Configs])
    /\ chosen \in Seq(Nat) /\ Len(chosen) <= Len(input.results)
    /\ \A k \in DOMAIN chosen : chosen[k] <= Len(configs)
    /\ DOMAIN edits \subseteq DOMAIN configs
    /\ \A g \in DOMAIN edits : edits[g] \in EditsType
    /\ prepared \subseteq [result : DOMAIN input.results, ids : SUBSET ({"device", "claim"} \X Devices)]
    /\ spec \subseteq Devices \X EditsType

\* The reference: which config the allocation, read as the API documents it, gives
\* a result.  "Configs coming directly from the resource claim take precedence over
\* configs coming from the device class.  Moreover, configs found later in the list
\* ... take precedence over configs found earlier" (device_state.go:672).
Outranks(i, j) ==
    LET a == input.configs[i].source
        b == input.configs[j].source
    IN (a = "claim" /\ b = "class") \/ (a = b /\ i > j)
Rivals(r) == {i \in DOMAIN input.configs : /\ input.configs[i].form \notin {"nil", "foreign", "undecodable"}
                                           /\ Matches(input.configs[i], r)}
Expected(r) ==
    IF Rivals(r) = {}
    THEN Default(IF TypeOf[r.device] = "hami-gpu" THEN "gpu" ELSE TypeOf[r.device])
    ELSE input.configs[CHOOSE i \in Rivals(r) : \A j \in Rivals(r) \ {i} : Outranks(i, j)]

\* Every result of this driver gets the config that outranks all others that
\* apply to it; the list built, reversed and walked is only the way there.
Precedence ==
    \A k \in DOMAIN chosen : LET r == input.results[k] IN
        r.own => chosen[k] # 0 /\ ConfigOf(chosen[k]) = Expected(r)

Own == {k \in DOMAIN input.results : input.results[k].own}

\* The results that have edits of their own: no other can have the same device.
Shared(k) == Hami \/ (Mps /\ Expected(input.results[k]).form = "mps")

\* The reasons there are to refuse a claim.
Unpreparable ==
    \/ \E i \in DOMAIN input.configs : \/ input.configs[i].source \notin {"class", "claim"}
                                        \/ input.configs[i].form \in {"nil", "undecodable"}
    \/ \E k \in Own : LET r == input.results[k] IN
        \/ r.device \notin input.allocatable
        \/ ~Fits(Expected(r), r.device)
        \/ ~Sound(Expected(r))
    \/ \E k, l \in Own : k # l /\ DeviceOf(k) = DeviceOf(l) /\ Shared(k) /\ Shared(l)

\* A claim is refused for one of these reasons and for nothing else, whatever the
\* order of the map; a claim with such a reason is never granted.
RefusedForCause ==
    /\ pc = "failed" => Unpreparable
    /\ pc = "granted" => ~Unpreparable

\* The kubelet is answered one entry for every result of this driver, and every
\* claim id in it names exactly one device of the spec file, with the edits of the
\* config of that result.
IdsResolve ==
    pc = "granted" =>
        /\ {p.result : p \in prepared} = Own
        /\ \A p \in prepared : LET d == DeviceOf(p.result) IN
            /\ <<"claim", d>> \in p.ids <=> HasEdits(p.result)
            /\ <<"claim", d>> \in p.ids =>
                    {s \in spec : s[1] = d} = {<<d, edits[chosen[p.result]]>>}

\* A container that gets a device of HAMi gets, with the same edits, a limit for
\* each result its config applies to: the amount that result consumed, none left
\* out and none twice.  (Provided no other driver's result has a device of the same
\* name: Consumed does not tell them apart.  That limit number i is that of the
\* container's device number i is more than the code promises: hami_core.go:245.)
Amount(k) == IF input.results[k].share \in {"unset", "fraction"} THEN "default"
             ELSE input.results[k].share
LimitsComplete ==
    pc = "granted" /\ (\A k \in DOMAIN input.results : \A l \in Own :
                            DeviceOf(k) = DeviceOf(l) => k \in Own) =>
        \A s \in spec : s[2].kind = "hami" =>
            \E k \in Own :
                /\ DeviceOf(k) = s[1]
                /\ \E result \in Bijection(DOMAIN s[2].limits, Group(chosen[k])) :
                        \A i \in DOMAIN s[2].limits : s[2].limits[i] = Amount(result[i])

\* The answer that an allocation without fault has coming.
Due ==
    IF Unpreparable THEN {} ELSE
    {[result |-> k, ids |-> {<<"device", DeviceOf(k)>>} \cup
                            (IF Shared(k) THEN {<<"claim", DeviceOf(k)>>} ELSE {})] : k \in Own}

\* The call decides once, and its decision and its answer are those the allocation
\* has coming: neither the order of the Go map nor what came first has a say.
Decision == INSTANCE ClaimAnswer WITH
    faulty <- Unpreparable, due <- Due,
    outcome <- IF pc \in {"granted", "failed"} THEN pc ELSE "pending",
    answer <- IF pc = "granted" THEN prepared ELSE {}
Decided == Decision!Spec
====
