---- MODULE PrepareDevicesProofs ----
(***************************************************************************)
(* Proofs about PrepareDevices, for every allocation.  The loops of        *)
(* GetOpaqueDeviceConfigs put the configs into the order that the API      *)
(* documents; so the backward search finds the config that outranks the    *)
(* others; so a claim is refused for its own faults only, and what is      *)
(* answered is what the claim's spec has.                                  *)
(***************************************************************************)
EXTENDS PrepareDevices, FiniteSetTheorems, SequenceTheorems, WellFoundedInduction, TLAPS

Positions == DOMAIN input.configs
Sources == {"class", "claim"}

\* The configs of a source among the first n, in their order.
FromSource(list, source, n) ==
    /\ \A g, h \in DOMAIN list : g < h => list[g] < list[h]
    /\ \A g \in DOMAIN list : list[g] \in 1..n /\ input.configs[list[g]].source = source
    /\ \A i \in 1..n : input.configs[i].source = source => \E g \in DOMAIN list : list[g] = i

\* The first loop has split what it has seen.
Split ==
    /\ Collected <= Len(input.configs)
    /\ pc # "collect" => Collected = Len(input.configs)
    /\ \A i \in 1..Collected : input.configs[i].source \in Sources
    /\ FromSource(classConfigs, "class", Collected)
    /\ FromSource(claimConfigs, "claim", Collected)

\* A list of configs without the defaults, from some of the candidates: each
\* outranks those in front of it.
Ranked(list, candidates) ==
    /\ \A g \in DOMAIN list :
        /\ list[g].at \in candidates /\ list[g] = Given(list[g].at)
        /\ input.configs[list[g].at].form # "foreign"
    /\ \A g, h \in DOMAIN list : g < h => Outranks(list[h].at, list[g].at)
    /\ \A i \in candidates : input.configs[i].form # "foreign" => \E g \in DOMAIN list : list[g].at = i

Seen == {CandidateConfigs[n] : n \in 1..decoded}
D == Len(Defaults)
GivenConfigs == [g \in 1..(Len(configs) - D) |-> configs[g + D]]

\* The second loop has decoded what it has seen, and the defaults come first.
Decoded ==
    /\ decoded <= Len(CandidateConfigs)
    /\ \A i \in Seen : input.configs[i].form \notin {"nil", "undecodable"}
    /\ pc \in {"collect", "decode"} => Ranked(configs, Seen)
    /\ pc = "collect" => decoded = 0
    /\ pc \notin {"collect", "decode"} =>
        /\ Seen = Positions
        /\ Len(configs) >= D
        /\ \A g \in 1..D : configs[g] = Defaults[g]
        /\ Ranked(GivenConfigs, Positions)

\* Every result so far has the config it should have, or none if it is another
\* driver's.
Selected ==
    /\ pc \in {"collect", "decode"} => chosen = <<>>
    /\ pc \notin {"collect", "decode", "select"} => Len(chosen) = Len(input.results)
    /\ \A k \in DOMAIN chosen : LET r == input.results[k] IN
        IF r.own THEN /\ chosen[k] \in DOMAIN configs
                      /\ ConfigOf(chosen[k]) = Expected(r)
                      /\ r.device \in input.allocatable /\ Fits(Expected(r), r.device)
                 ELSE chosen[k] = 0

\* The configs applied are valid and have their own edits; the answer and the spec
\* are made of all of them.
Applied ==
    /\ pc \in {"collect", "decode", "select"} => DOMAIN edits = {}
    /\ \A g \in DOMAIN edits : g \in DOMAIN configs /\ Sound(ConfigOf(g)) /\ edits[g] \in Edits(g)
    /\ pc \in {"spec", "granted"} =>
        /\ ToApply = {}
        /\ prepared = {[result |-> k, ids |-> {StandardDevice(k)} \cup ClaimDevice(k)] : k \in Mine}
    /\ pc = "granted" =>
        /\ ~Duplicated
        /\ spec = {<<DeviceOf(k), edits[chosen[k]]>> : k \in {l \in Mine : HasEdits(l)}}

\* The inductive invariant.
Inv ==
    /\ TypeOK
    /\ pc = "failed" => Unpreparable
    /\ pc # "failed" => Split /\ Decoded /\ Selected /\ Applied

----------------------------------------------------------------------------
\* Positions are bounded: the last of some exists.
LEMMA LatestIsLast ==
    ASSUME NEW n \in Nat, NEW S \in SUBSET (1..n), S # {}
    PROVE  Latest(S) \in S /\ \A j \in S : j <= Latest(S)
<1> DEFINE T == {n - i : i \in S}
<1>1. T \subseteq Nat /\ T # {}
  <2>1. \A i \in S : i \in 1..n /\ n - i \in Nat
    OBVIOUS
  <2>2. PICK i \in S : TRUE
    OBVIOUS
  <2>3. n - i \in T
    OBVIOUS
  <2> QED BY <2>1, <2>3
<1>2. \E x \in T : \A y \in T : ~ (<<y, x>> \in OpToRel(<, Nat))
  <2> HIDE DEF T
  <2> QED BY <1>1, WFMin, NatLessThanWellFounded
<1>3. PICK x \in T : \A y \in T : ~(y < x)
  BY <1>1, <1>2 DEF OpToRel
<1>4. PICK i \in S : x = n - i
  OBVIOUS
<1>5. \A j \in S : j <= i
  <2> TAKE j \in S
  <2>1. n - j \in T
    OBVIOUS
  <2> QED BY <2>1, <1>3, <1>4
<1> QED BY <1>5 DEF Latest

\* What the allocation consists of.
LEMMA InputTypes ==
    ASSUME TypeOK
    PROVE  /\ input.configs \in Seq(Configs) /\ input.results \in Seq(Results)
           /\ input.allocatable \subseteq Devices /\ input \in Inputs
           /\ Positions = 1..Len(input.configs) /\ Len(input.configs) \in Nat
           /\ DOMAIN input.results = 1..Len(input.results) /\ Len(input.results) \in Nat
BY InputAssumption DEF TypeOK, Positions

----------------------------------------------------------------------------
\* The loops of GetOpaqueDeviceConfigs.

\* A position is appended to the list of its source ...
LEMMA AppendPosition ==
    ASSUME NEW list \in Seq(Nat), NEW source, NEW n \in Nat, FromSource(list, source, n),
           input.configs[n + 1].source = source
    PROVE  FromSource(Append(list, n + 1), source, n + 1)
<1> DEFINE l == Append(list, n + 1)
<1>1. /\ Len(list) \in Nat /\ DOMAIN list = 1..Len(list) /\ DOMAIN l = 1..(Len(list) + 1)
      /\ \A g \in 1..Len(list) : l[g] = list[g]
      /\ l[Len(list) + 1] = n + 1
  BY AppendProperties, LenProperties
<1> HIDE DEF l
<1>2. \A g \in 1..(Len(list) + 1) : g \in 1..Len(list) \/ g = Len(list) + 1
  BY <1>1
<1>3. \A i \in 1..(n + 1) : i \in 1..n \/ i = n + 1
  OBVIOUS
<1>4. \A g \in 1..Len(list) : list[g] \in 1..n
  BY <1>1 DEF FromSource
<1>5. \A g, h \in DOMAIN l : g < h => l[g] < l[h]
  BY <1>1, <1>2, <1>4 DEF FromSource
<1>6. \A g \in DOMAIN l : l[g] \in 1..(n + 1) /\ input.configs[l[g]].source = source
  BY <1>1, <1>2, <1>4 DEF FromSource
<1>7. \A i \in 1..(n + 1) : input.configs[i].source = source => \E g \in DOMAIN l : l[g] = i
  BY <1>1, <1>3 DEF FromSource
<1> QED BY <1>5, <1>6, <1>7 DEF FromSource, l

\* ... and left out of the other one.
LEMMA SkipPosition ==
    ASSUME NEW list \in Seq(Nat), NEW source, NEW n \in Nat, FromSource(list, source, n),
           input.configs[n + 1].source # source
    PROVE  FromSource(list, source, n + 1)
<1>1. \A i \in 1..(n + 1) : i \in 1..n \/ i = n + 1
  OBVIOUS
<1>2. \A i \in 1..n : i \in 1..(n + 1)
  OBVIOUS
<1> QED BY <1>1, <1>2 DEF FromSource

\* The candidates are all the configs, each outranking those in front of it.
LEMMA CandidateOrder ==
    ASSUME TypeOK, Split, Collected = Len(input.configs)
    PROVE  /\ CandidateConfigs \in Seq(Nat)
           /\ \A n \in DOMAIN CandidateConfigs : CandidateConfigs[n] \in Positions
           /\ \A m, n \in DOMAIN CandidateConfigs :
                m < n => Outranks(CandidateConfigs[n], CandidateConfigs[m])
           /\ \A i \in Positions : \E n \in DOMAIN CandidateConfigs : CandidateConfigs[n] = i
<1> DEFINE A == Len(classConfigs)
           B == Len(claimConfigs)
<1>1. /\ classConfigs \in Seq(Nat) /\ claimConfigs \in Seq(Nat) /\ A \in Nat /\ B \in Nat
      /\ DOMAIN classConfigs = 1..A /\ DOMAIN claimConfigs = 1..B
      /\ CandidateConfigs \in Seq(Nat) /\ DOMAIN CandidateConfigs = 1..(A + B)
      /\ \A n \in 1..A : CandidateConfigs[n] = classConfigs[n]
      /\ \A n \in (A + 1)..(A + B) : CandidateConfigs[n] = claimConfigs[n - A]
  <2>1. classConfigs \in Seq(Nat) /\ claimConfigs \in Seq(Nat)
    BY DEF TypeOK
  <2>2. A \in Nat /\ B \in Nat /\ DOMAIN classConfigs = 1..A /\ DOMAIN claimConfigs = 1..B
    BY <2>1, LenProperties
  <2>3. /\ CandidateConfigs \in Seq(Nat) /\ Len(CandidateConfigs) = A + B
        /\ \A n \in 1..(A + B) : CandidateConfigs[n] = IF n <= A THEN classConfigs[n] ELSE claimConfigs[n - A]
    BY <2>1, ConcatProperties DEF CandidateConfigs
  <2>4. DOMAIN CandidateConfigs = 1..(A + B)
    BY <2>3, LenProperties
  <2> QED BY <2>1, <2>2, <2>3, <2>4
<1>2. Positions = 1..Collected /\ Collected \in Nat
  BY <1>1, InputTypes DEF Collected
<1> HIDE DEF A, B
<1>3. /\ \A n \in 1..A : CandidateConfigs[n] \in Positions /\ input.configs[CandidateConfigs[n]].source = "class"
      /\ \A n \in (A + 1)..(A + B) : CandidateConfigs[n] \in Positions
                                     /\ input.configs[CandidateConfigs[n]].source = "claim"
  <2>1. \A n \in 1..A : classConfigs[n] \in Positions /\ input.configs[classConfigs[n]].source = "class"
    BY <1>1, <1>2 DEF Split, FromSource
  <2>2. \A n \in 1..B : claimConfigs[n] \in Positions /\ input.configs[claimConfigs[n]].source = "claim"
    BY <1>1, <1>2 DEF Split, FromSource
  <2>3. \A n \in (A + 1)..(A + B) : n - A \in 1..B
    BY <1>1
  <2>4. \A n \in 1..A : CandidateConfigs[n] \in Positions /\ input.configs[CandidateConfigs[n]].source = "class"
    BY <2>1, <1>1
  <2>5. ASSUME NEW n \in (A + 1)..(A + B)
        PROVE  CandidateConfigs[n] \in Positions /\ input.configs[CandidateConfigs[n]].source = "claim"
    <3>1. CandidateConfigs[n] = claimConfigs[n - A]
      BY <1>1
    <3>2. n - A \in 1..B
      BY <2>3
    <3> QED BY <3>1, <3>2, <2>2
  <2> QED BY <2>4, <2>5
<1>4. \A n \in 1..(A + B) : CandidateConfigs[n] \in Positions
  <2>1. \A n \in 1..(A + B) : n \in 1..A \/ n \in (A + 1)..(A + B)
    BY <1>1
  <2> QED BY <2>1, <1>1, <1>3
<1>5. ASSUME NEW m \in 1..(A + B), NEW n \in 1..(A + B), m < n
      PROVE  Outranks(CandidateConfigs[n], CandidateConfigs[m])
  <2>1. CASE n <= A
    <3>1. m \in 1..A /\ n \in 1..A
      BY <2>1, <1>5, <1>1
    <3>2. classConfigs[m] < classConfigs[n]
      BY <1>1, <3>1, <1>5 DEF Split, FromSource
    <3>3. CandidateConfigs[n] > CandidateConfigs[m]
      BY <3>1, <3>2, <1>1, <1>2, <1>3
    <3> QED BY <3>1, <3>3, <1>1, <1>3 DEF Outranks
  <2>2. CASE m <= A /\ n > A
    <3>1. m \in 1..A /\ n \in (A + 1)..(A + B)
      BY <2>2, <1>1
    <3> QED BY <3>1, <1>3 DEF Outranks
  <2>3. CASE m > A
    <3>1. m \in (A + 1)..(A + B) /\ n \in (A + 1)..(A + B) /\ m - A \in 1..B /\ n - A \in 1..B
          /\ m - A < n - A
      BY <2>3, <1>5, <1>1
    <3>2. claimConfigs[m - A] < claimConfigs[n - A]
      BY <3>1, <1>1 DEF Split, FromSource
    <3>3. CandidateConfigs[n] > CandidateConfigs[m]
      BY <3>1, <3>2, <1>1, <1>2, <1>3
    <3> QED BY <3>1, <3>3, <1>3 DEF Outranks
  <2> QED BY <2>1, <2>2, <2>3, <1>1
<1>6. ASSUME NEW i \in Positions PROVE \E n \in 1..(A + B) : CandidateConfigs[n] = i
  <2>1. CASE input.configs[i].source = "class"
    <3>1. PICK g \in 1..A : classConfigs[g] = i
      BY <2>1, <1>1, <1>2 DEF Split, FromSource
    <3> QED BY <3>1, <1>1
  <2>2. CASE input.configs[i].source = "claim"
    <3>1. PICK g \in 1..B : claimConfigs[g] = i
      BY <2>2, <1>1, <1>2 DEF Split, FromSource
    <3>2. g + A \in (A + 1)..(A + B) /\ (g + A) - A = g
      BY <1>1
    <3> QED BY <3>1, <3>2, <1>1
  <2> QED BY <2>1, <2>2, <1>2 DEF Split, Sources
<1> QED BY <1>1, <1>4, <1>5, <1>6

\* A turn of the first loop.
LEMMA SplitNext == ASSUME TypeOK, Split, CollectConfig PROVE Split'
<1> DEFINE n == Collected
<1>1. /\ classConfigs \in Seq(Nat) /\ claimConfigs \in Seq(Nat) /\ n \in Nat
      /\ Len(classConfigs) \in Nat /\ Len(claimConfigs) \in Nat
  BY LenProperties DEF TypeOK, Collected
<1>2. /\ n < Len(input.configs) /\ Len(input.configs) \in Nat /\ pc = "collect"
      /\ UNCHANGED <<input, pc>>
  BY InputTypes DEF CollectConfig, Collecting
<1>3. /\ FromSource(classConfigs', "class", n + 1) /\ FromSource(claimConfigs', "claim", n + 1)
      /\ Collected' = n + 1 /\ input.configs[n + 1].source \in Sources
  <2>1. CASE Source = "class" /\ classConfigs' = Append(classConfigs, n + 1) /\ UNCHANGED claimConfigs
    <3>1. FromSource(classConfigs', "class", n + 1)
      BY <2>1, <1>1, AppendPosition DEF Split, Source
    <3>2. FromSource(claimConfigs', "claim", n + 1)
      BY <2>1, <1>1, SkipPosition DEF Split, Source
    <3>3. Len(classConfigs') = Len(classConfigs) + 1
      BY <2>1, <1>1, AppendProperties
    <3> QED BY <2>1, <3>1, <3>2, <3>3, <1>1 DEF Collected, Source, Sources
  <2>2. CASE Source = "claim" /\ claimConfigs' = Append(claimConfigs, n + 1) /\ UNCHANGED classConfigs
    <3>1. FromSource(claimConfigs', "claim", n + 1)
      BY <2>2, <1>1, AppendPosition DEF Split, Source
    <3>2. FromSource(classConfigs', "class", n + 1)
      BY <2>2, <1>1, SkipPosition DEF Split, Source
    <3>3. Len(claimConfigs') = Len(claimConfigs) + 1
      BY <2>2, <1>1, AppendProperties
    <3> QED BY <2>2, <3>1, <3>2, <3>3, <1>1 DEF Collected, Source, Sources
  <2> QED BY <2>1, <2>2 DEF CollectConfig
<1>4. \A i \in 1..(n + 1) : i \in 1..n \/ i = n + 1
  BY <1>1
<1>5. \A i \in 1..(n + 1) : input.configs[i].source \in Sources
  BY <1>3, <1>4 DEF Split
<1>6. n + 1 <= Len(input.configs)
  BY <1>1, <1>2
<1> QED BY <1>2, <1>3, <1>5, <1>6 DEF Split, FromSource

Entries == [at : Nat, config : Configs]

\* A config that outranks all of a ranked list is appended to it ...
LEMMA AppendRanked ==
    ASSUME TypeOK, NEW list \in Seq(Entries), NEW S, S \subseteq Positions, Ranked(list, S),
           NEW i \in Positions, input.configs[i].form # "foreign", \A j \in S : Outranks(i, j)
    PROVE  Ranked(Append(list, Given(i)), S \cup {i}) /\ Append(list, Given(i)) \in Seq(Entries)
<1> DEFINE l == Append(list, Given(i))
<1>1. Given(i) \in Entries /\ Given(i).at = i
  BY InputTypes, ElementOfSeq DEF Given, Entries
<1>2. /\ Len(list) \in Nat /\ DOMAIN list = 1..Len(list) /\ DOMAIN l = 1..(Len(list) + 1)
      /\ \A g \in 1..Len(list) : l[g] = list[g]
      /\ l[Len(list) + 1] = Given(i) /\ l \in Seq(Entries)
  BY <1>1, AppendProperties, LenProperties
<1> HIDE DEF l
<1>3. \A g \in 1..(Len(list) + 1) : g \in 1..Len(list) \/ g = Len(list) + 1
  BY <1>2
<1>4. \A g \in DOMAIN l : /\ l[g].at \in S \cup {i} /\ l[g] = Given(l[g].at)
                          /\ input.configs[l[g].at].form # "foreign"
  BY <1>1, <1>2, <1>3 DEF Ranked
<1>5. \A g, h \in DOMAIN l : g < h => Outranks(l[h].at, l[g].at)
  <2> TAKE g, h \in DOMAIN l
  <2> HAVE g < h
  <2>1. g \in 1..Len(list)
    BY <1>2, <1>3
  <2>2. CASE h \in 1..Len(list)
    BY <2>1, <2>2, <1>2 DEF Ranked
  <2>3. CASE h = Len(list) + 1
    BY <2>1, <2>3, <1>1, <1>2 DEF Ranked
  <2> QED BY <2>2, <2>3, <1>2, <1>3
<1>6. \A j \in S \cup {i} : input.configs[j].form # "foreign" => \E g \in DOMAIN l : l[g].at = j
  <2>1. \A j \in S : input.configs[j].form # "foreign" => \E g \in 1..Len(list) : l[g].at = j
    BY <1>2 DEF Ranked
  <2>2. Len(list) + 1 \in DOMAIN l /\ l[Len(list) + 1].at = i
    BY <1>1, <1>2
  <2> QED BY <2>1, <2>2, <1>2
<1> QED BY <1>2, <1>4, <1>5, <1>6 DEF Ranked, l

\* ... another driver's is not.
LEMMA SkipRanked ==
    ASSUME NEW list, NEW S, Ranked(list, S), NEW i, input.configs[i].form = "foreign"
    PROVE  Ranked(list, S \cup {i})
BY DEF Ranked

\* The second loop takes the next candidate, which outranks those before it.
LEMMA NextCandidate ==
    ASSUME TypeOK, Split, Decoded, Decoding
    PROVE  /\ Candidate \in Positions /\ Seen \subseteq Positions
           /\ \A j \in Seen : Outranks(Candidate, j)
           /\ {CandidateConfigs[n] : n \in 1..(decoded + 1)} = Seen \cup {Candidate}
           /\ decoded + 1 <= Len(CandidateConfigs) /\ decoded \in Nat
<1>1. /\ CandidateConfigs \in Seq(Nat) /\ \A n \in DOMAIN CandidateConfigs : CandidateConfigs[n] \in Positions
      /\ \A m, n \in DOMAIN CandidateConfigs : m < n => Outranks(CandidateConfigs[n], CandidateConfigs[m])
  BY CandidateOrder DEF Split, Decoding
<1>2. DOMAIN CandidateConfigs = 1..Len(CandidateConfigs) /\ Len(CandidateConfigs) \in Nat
  BY <1>1, LenProperties
<1>3. decoded \in Nat /\ decoded < Len(CandidateConfigs)
  BY DEF Decoding, TypeOK
<1>4. decoded + 1 \in DOMAIN CandidateConfigs /\ decoded + 1 <= Len(CandidateConfigs)
  BY <1>2, <1>3
<1>5. \A n \in 1..decoded : n \in DOMAIN CandidateConfigs /\ n < decoded + 1
  BY <1>2, <1>3
<1>6. 1..(decoded + 1) = 1..decoded \cup {decoded + 1}
  BY <1>3
<1>7. {CandidateConfigs[n] : n \in 1..(decoded + 1)} = Seen \cup {Candidate}
  BY <1>6 DEF Seen, Candidate
<1>8. Seen \subseteq Positions /\ \A j \in Seen : Outranks(Candidate, j)
  BY <1>1, <1>4, <1>5 DEF Seen, Candidate
<1> QED BY <1>1, <1>3, <1>4, <1>7, <1>8 DEF Candidate

\* A turn of the second loop.
LEMMA DecodedNext ==
    ASSUME TypeOK, Split, Decoded, DecodeConfig
    PROVE  Decoded' /\ configs' \in Seq(Entries)
<1>1. /\ Candidate \in Positions /\ Seen \subseteq Positions
      /\ \A j \in Seen : Outranks(Candidate, j)
      /\ {CandidateConfigs[n] : n \in 1..(decoded + 1)} = Seen \cup {Candidate}
      /\ decoded + 1 <= Len(CandidateConfigs) /\ decoded \in Nat
  BY NextCandidate DEF DecodeConfig
<1>2. /\ pc = "decode" /\ UNCHANGED <<input, pc, classConfigs, claimConfigs>> /\ decoded' = decoded + 1
      /\ CandidateConfigs' = CandidateConfigs
  BY DEF DecodeConfig, Decoding, CandidateConfigs
<1>3. Seen' = Seen \cup {Candidate}
  BY <1>1, <1>2 DEF Seen
<1>4. configs \in Seq(Entries) /\ Ranked(configs, Seen)
  BY <1>2 DEF TypeOK, Entries, Decoded
<1>5. Ranked(configs', Seen \cup {Candidate}) /\ configs' \in Seq(Entries)
  <2>1. CASE input.configs[Candidate].form = "foreign"
    BY <2>1, <1>4, SkipRanked DEF DecodeConfig
  <2>2. CASE input.configs[Candidate].form # "foreign"
    BY <2>2, <1>1, <1>4, AppendRanked DEF DecodeConfig
  <2> QED BY <2>1, <2>2
<1>6. Ranked(configs, Seen)'
  BY <1>2, <1>3, <1>5 DEF Ranked, Given, Outranks
<1>7. (\A i \in Seen : input.configs[i].form \notin {"nil", "undecodable"})'
  BY <1>2, <1>3 DEF Decoded, DecodeConfig
<1> QED BY <1>1, <1>2, <1>5, <1>6, <1>7 DEF Decoded

\* The defaults: one for each type of device there is.
LEMMA DefaultsCover ==
    /\ Defaults \in Seq(Entries) /\ D \in Nat /\ DOMAIN Defaults = 1..D
    /\ \A g \in 1..D : \E form \in {"gpu", "mig", "vfio"} : Defaults[g] = Defaulted(form)
    /\ \A form \in {"gpu", "mig"} : \E g \in 1..D : Defaults[g] = Defaulted(form)
    /\ Passthrough => \E g \in 1..D : Defaults[g] = Defaulted("vfio")
<1>1. \A form \in {"gpu", "mig", "vfio"} : Defaulted(form) \in Entries
  BY DEF Defaulted, Default, Entries, Configs, Forms
<1>2. CASE Passthrough
  <2>1. Defaults = <<Defaulted("vfio")>> \o <<Defaulted("mig"), Defaulted("gpu")>>
    BY <1>2 DEF Defaults
  <2>2. /\ <<Defaulted("vfio")>> \in Seq(Entries) /\ Len(<<Defaulted("vfio")>>) = 1
        /\ <<Defaulted("mig"), Defaulted("gpu")>> \in Seq(Entries)
        /\ Len(<<Defaulted("mig"), Defaulted("gpu")>>) = 2
    BY <1>1
  <2>3. /\ Defaults \in Seq(Entries) /\ D = 3
        /\ \A i \in 1..3 : Defaults[i] = IF i <= 1 THEN <<Defaulted("vfio")>>[i]
                                          ELSE <<Defaulted("mig"), Defaulted("gpu")>>[i - 1]
    BY <2>1, <2>2, ConcatProperties DEF D
  <2>4. /\ Defaults[1] = Defaulted("vfio") /\ Defaults[2] = Defaulted("mig") /\ Defaults[3] = Defaulted("gpu")
        /\ DOMAIN Defaults = 1..3
    BY <2>3, LenProperties DEF D
  <2>5. \A g \in 1..3 : g = 1 \/ g = 2 \/ g = 3
    OBVIOUS
  <2> QED BY <2>3, <2>4, <2>5
<1>3. CASE ~Passthrough
  <2>1. Defaults = <<>> \o <<Defaulted("mig"), Defaulted("gpu")>>
    BY <1>3 DEF Defaults
  <2>2. Defaults = <<Defaulted("mig"), Defaulted("gpu")>>
    BY <2>1
  <2>3. D = 2 /\ DOMAIN Defaults = 1..2 /\ Defaults \in Seq(Entries)
    BY <2>2, <1>1 DEF D
  <2>4. Defaults[1] = Defaulted("mig") /\ Defaults[2] = Defaulted("gpu")
    BY <2>2
  <2>5. \A g \in 1..2 : g = 1 \/ g = 2
    OBVIOUS
  <2> QED BY <2>3, <2>4, <2>5, <1>3
<1> QED BY <1>2, <1>3

\* The defaults are put in front.
LEMMA DecodedEnd ==
    ASSUME TypeOK, Split, Decoded, EndDecoding
    PROVE  Decoded' /\ configs' \in Seq(Entries)
<1>1. /\ pc = "decode" /\ pc' = "select" /\ UNCHANGED <<input, classConfigs, claimConfigs, decoded>>
      /\ decoded = Len(CandidateConfigs) /\ configs' = Defaults \o configs
      /\ configs \in Seq(Entries) /\ Ranked(configs, Seen)
  BY DEF EndDecoding, lists, TypeOK, Entries, Decoded
<1>2. Defaults' = Defaults /\ D' = D /\ CandidateConfigs' = CandidateConfigs /\ Seen' = Seen
      /\ Positions' = Positions
  BY <1>1 DEF Defaults, D, Passthrough, CandidateConfigs, Seen, Positions
<1>3. Seen = Positions
  <2>1. /\ CandidateConfigs \in Seq(Nat) /\ \A n \in DOMAIN CandidateConfigs : CandidateConfigs[n] \in Positions
        /\ \A i \in Positions : \E n \in DOMAIN CandidateConfigs : CandidateConfigs[n] = i
    BY CandidateOrder, <1>1 DEF Split
  <2>2. DOMAIN CandidateConfigs = 1..decoded
    BY <2>1, <1>1, LenProperties
  <2> QED BY <2>1, <2>2 DEF Seen
<1>4. /\ configs' \in Seq(Entries) /\ Len(configs') = D + Len(configs) /\ Len(configs) \in Nat /\ D \in Nat
      /\ \A g \in 1..(D + Len(configs)) : configs'[g] = IF g <= D THEN Defaults[g] ELSE configs[g - D]
      /\ DOMAIN configs = 1..Len(configs)
  BY <1>1, DefaultsCover, ConcatProperties, LenProperties DEF D
<1>5. \A g \in 1..D : configs'[g] = Defaults[g]
  BY <1>4
<1>6. GivenConfigs' = configs
  <2>1. Len(configs') - D = Len(configs)
    BY <1>4
  <2>2. \A g \in 1..Len(configs) : configs'[g + D] = configs[g]
    <3> TAKE g \in 1..Len(configs)
    <3>1. g + D \in 1..(D + Len(configs)) /\ ~(g + D <= D) /\ (g + D) - D = g
      BY <1>4
    <3> QED BY <3>1, <1>4
  <2>3. GivenConfigs' = [g \in 1..Len(configs) |-> configs'[g + D]]
    BY <2>1, <1>2 DEF GivenConfigs
  <2>4. configs = [g \in 1..Len(configs) |-> configs[g]]
    BY <1>1, <1>4
  <2> QED BY <2>2, <2>3, <2>4
<1>7. Ranked(GivenConfigs, Positions)'
  BY <1>1, <1>2, <1>3, <1>6 DEF Ranked, Given, Outranks
<1>8. (\A i \in Seen : input.configs[i].form \notin {"nil", "undecodable"})'
  BY <1>1, <1>2 DEF Decoded
<1>9. (decoded <= Len(CandidateConfigs))' /\ (Len(configs) >= D)'
  BY <1>1, <1>2, <1>4 DEF Decoded
<1> QED BY <1>1, <1>2, <1>3, <1>4, <1>5, <1>7, <1>8, <1>9 DEF Decoded

----------------------------------------------------------------------------
\* The loop over the results.

\* What is outranked by a config does not outrank it.
LEMMA OneOutranksAll ==
    ASSUME NEW S \in SUBSET Nat, NEW p \in S, \A j \in S \ {p} : Outranks(p, j)
    PROVE  (CHOOSE i \in S : \A j \in S \ {i} : Outranks(i, j)) = p
<1>1. \A i \in S : (\A j \in S \ {i} : Outranks(i, j)) => i = p
  <2> TAKE i \in S
  <2> HAVE \A j \in S \ {i} : Outranks(i, j)
  <2>1. SUFFICES ASSUME i # p PROVE FALSE
    OBVIOUS
  <2>2. Outranks(i, p) /\ Outranks(p, i) /\ i \in Nat /\ p \in Nat
    BY <2>1
  <2> QED BY <2>2 DEF Outranks
<1> QED BY <1>1

\* A default fits the devices of one kind, and every device there is has one.
LEMMA DefaultFits ==
    ASSUME TypeOK, NEW r \in Results, r.device \in input.allocatable
    PROVE  LET form == IF TypeOf[r.device] = "hami-gpu" THEN "gpu" ELSE TypeOf[r.device]
           IN /\ form \in {"gpu", "mig", "vfio"}
              /\ form = "vfio" => Passthrough
              /\ \A f \in {"gpu", "mig", "vfio"} : Matches(Default(f), r) <=> f = form
<1>1. TypeOf[r.device] \in {"hami-gpu", "gpu", "mig", "vfio"}
      /\ (TypeOf[r.device] = "vfio" => Passthrough)
  BY InputTypes, TypeAssumption, EnumerationAssumption DEF Results, Passthrough
<1> QED BY <1>1 DEF Matches, Default, Fits

\* The last config that matches a result is the one it should have.
LEMMA ConfigChosen ==
    ASSUME TypeOK, Decoded, pc \notin {"collect", "decode"},
           NEW r \in Results, r.device \in input.allocatable
    PROVE  /\ Matching(r) # {} /\ Latest(Matching(r)) \in DOMAIN configs
           /\ Latest(Matching(r)) \in Matching(r)
           /\ ConfigOf(Latest(Matching(r))) = Expected(r)
<1> DEFINE n == Len(configs)
           L == Latest(Matching(r))
           P == Rivals(r)
<1>1. /\ n \in Nat /\ DOMAIN configs = 1..n /\ D \in Nat /\ D <= n
      /\ \A g \in 1..D : configs[g] = Defaults[g]
      /\ DOMAIN GivenConfigs = 1..(n - D)
      /\ \A g \in 1..(n - D) : GivenConfigs[g] = configs[g + D]
      /\ Ranked(GivenConfigs, Positions) /\ Seen = Positions
  BY LenProperties, DefaultsCover DEF TypeOK, Decoded, GivenConfigs
<1>2. /\ Matching(r) \in SUBSET (1..n)
      /\ Matching(r) # {} => L \in Matching(r) /\ \A g \in Matching(r) : g <= L
  BY <1>1, LatestIsLast DEF Matching
<1>3. \A g \in 1..n : g \in Matching(r) <=> Matches(ConfigOf(g), r)
  BY <1>1 DEF Matching
<1>4. ASSUME NEW i \in P
      PROVE  \E g \in Matching(r) : g > D /\ configs[g] = Given(i)
  <2>1. i \in Positions /\ input.configs[i].form # "foreign" /\ Matches(input.configs[i], r)
    BY DEF Rivals, Positions
  <2>2. PICK h \in 1..(n - D) : GivenConfigs[h].at = i
    BY <2>1, <1>1 DEF Ranked
  <2>3. h + D \in 1..n /\ h + D > D /\ configs[h + D] = Given(i)
    <3>1. h + D \in 1..n /\ h + D > D
      BY <1>1
    <3>2. GivenConfigs[h] = Given(i)
      BY <2>2, <1>1 DEF Ranked
    <3> QED BY <3>1, <3>2, <1>1
  <2>4. h + D \in Matching(r)
    BY <2>1, <2>3, <1>3 DEF ConfigOf, Given
  <2> QED BY <2>3, <2>4
<1>5. ASSUME NEW g \in Matching(r), g > D
      PROVE  /\ configs[g].at \in P /\ configs[g] = Given(configs[g].at)
             /\ \A h \in Matching(r) : h > D /\ h < g => Outranks(configs[g].at, configs[h].at)
  <2>1. \A h \in 1..n : h > D => h - D \in 1..(n - D) /\ GivenConfigs[h - D] = configs[h]
    <3> TAKE h \in 1..n
    <3> HAVE h > D
    <3>1. h - D \in 1..(n - D) /\ (h - D) + D = h
      BY <1>1
    <3> QED BY <3>1, <1>1
  <2>2. /\ configs[g].at \in Positions /\ configs[g] = Given(configs[g].at)
        /\ input.configs[configs[g].at].form # "foreign"
    BY <2>1, <1>1, <1>2, <1>5 DEF Ranked
  <2>3. input.configs[configs[g].at].form \notin {"nil", "foreign", "undecodable"}
    <3>1. input.configs[configs[g].at] \in Configs
      BY <2>2, InputTypes, ElementOfSeq
    <3> QED BY <3>1, <2>2, <1>1 DEF Decoded, Configs, Forms
  <2>4. configs[g].at \in P
    BY <2>2, <2>3, <1>2, <1>3 DEF Rivals, Positions, Given, ConfigOf
  <2>5. ASSUME NEW h \in Matching(r), h > D, h < g PROVE Outranks(configs[g].at, configs[h].at)
    <3>1. h - D \in 1..(n - D) /\ g - D \in 1..(n - D) /\ h - D < g - D
      BY <2>5, <2>1, <1>1, <1>2, <1>5
    <3> QED BY <3>1, <2>1, <2>5, <1>1, <1>2, <1>5 DEF Ranked
  <2> QED BY <2>2, <2>4, <2>5
<1>6. CASE P = {}
  <2> DEFINE form == IF TypeOf[r.device] = "hami-gpu" THEN "gpu" ELSE TypeOf[r.device]
  <2>1. /\ form \in {"gpu", "mig", "vfio"}
        /\ form = "vfio" => Passthrough
        /\ \A f \in {"gpu", "mig", "vfio"} : Matches(Default(f), r) <=> f = form
    BY DefaultFits
  <2> HIDE DEF form
  <2>2. PICK g \in 1..D : Defaults[g] = Defaulted(form)
    BY <2>1, DefaultsCover
  <2>3. g \in 1..n /\ ConfigOf(g) = Default(form)
    BY <2>2, <1>1 DEF ConfigOf, Defaulted
  <2>4. g \in Matching(r)
    <3>1. Matches(ConfigOf(g), r)
      BY <2>1, <2>3
    <3> QED BY <3>1, <2>3, <1>3
  <2>5. L \in Matching(r) /\ L \in 1..n
    BY <2>4, <1>2
  <2>6. L \in 1..D
    BY <2>5, <1>5, <1>6, <1>1
  <2>7. PICK f \in {"gpu", "mig", "vfio"} : configs[L] = Defaulted(f)
    BY <2>6, <1>1, DefaultsCover
  <2>8. f = form /\ ConfigOf(L) = Default(form)
    BY <2>1, <2>5, <2>7, <1>3 DEF ConfigOf, Defaulted
  <2>9. Expected(r) = Default(form)
    BY <1>6 DEF Expected, form
  <2> QED BY <2>4, <2>5, <2>8, <2>9, <1>1
<1>7. CASE P # {}
  <2>1. L \in Matching(r) /\ L > D
    BY <1>7, <1>4, <1>2, <1>1
  <2> DEFINE p == configs[L].at
  <2>2. p \in P /\ configs[L] = Given(p)
    BY <2>1, <1>5
  <2>3. ASSUME NEW j \in P \ {p} PROVE Outranks(p, j)
    <3>1. PICK h \in Matching(r) : h > D /\ configs[h] = Given(j)
      BY <1>4
    <3>2. configs[h].at = j /\ h # L
      BY <3>1 DEF Given
    <3>3. h < L
      BY <3>2, <2>1, <1>1, <1>2
    <3> QED BY <3>1, <3>2, <3>3, <2>1, <1>5
  <2>4. P \in SUBSET Nat
    BY InputTypes DEF Rivals, Positions
  <2> HIDE DEF p, P
  <2>5. (CHOOSE i \in P : \A j \in P \ {i} : Outranks(i, j)) = p
    BY <2>2, <2>3, <2>4, OneOutranksAll
  <2>6. Expected(r) = input.configs[p]
    BY <2>5, <1>7 DEF Expected, P
  <2> QED BY <2>1, <2>2, <2>6, <1>1, <1>2 DEF ConfigOf, Given
<1> QED BY <1>6, <1>7

----------------------------------------------------------------------------
\* The loop that applies the configs.

\* The results with a config are those of this driver.
LEMMA MineIsOwn ==
    ASSUME TypeOK, Selected
    PROVE  /\ DOMAIN chosen = 1..Len(chosen) /\ Len(chosen) \in Nat
           /\ DOMAIN chosen \subseteq DOMAIN input.results
           /\ Mine \subseteq Own
           /\ \A k \in Mine :
                /\ k \in DOMAIN chosen /\ input.results[k] \in Results /\ DeviceOf(k) \in Devices
                /\ input.results[k].own /\ DeviceOf(k) = input.results[k].device
                /\ chosen[k] \in DOMAIN configs /\ ConfigOf(chosen[k]) = Expected(input.results[k])
                /\ DeviceOf(k) \in input.allocatable
                /\ Fits(Expected(input.results[k]), DeviceOf(k))
<1>1. /\ DOMAIN chosen = 1..Len(chosen) /\ Len(chosen) \in Nat
      /\ DOMAIN chosen \subseteq DOMAIN input.results
  BY InputTypes, LenProperties DEF TypeOK
<1>2. \A k \in DOMAIN input.results : input.results[k] \in Results
  BY InputTypes, ElementOfSeq
<1>3. \A k \in Mine : k \in DOMAIN chosen /\ input.results[k].own
  BY DEF Mine, Selected
<1> QED BY <1>1, <1>2, <1>3 DEF Mine, Own, Selected, DeviceOf, Results

\* There is an amount for every device.
LEMMA LimitType == ASSUME TypeOK, NEW d PROVE LimitOf(d) \in Shares \cup {"default"}
<1> DEFINE stating == {k \in DOMAIN input.results : /\ DeviceOf(k) = d
                                                    /\ input.results[k].share # "unset"}
<1>1. CASE stating = {}
  BY <1>1 DEF LimitOf, Consumed
<1>2. CASE stating # {}
  <2>1. stating \in SUBSET (1..Len(input.results)) /\ Len(input.results) \in Nat
    BY InputTypes
  <2> HIDE DEF stating
  <2>2. Latest(stating) \in stating
    BY <1>2, <2>1, LatestIsLast
  <2>3. input.results[Latest(stating)] \in Results
    BY <2>1, <2>2, InputTypes, ElementOfSeq
  <2>4. Consumed(d) = input.results[Latest(stating)].share
    BY <1>2 DEF Consumed, stating
  <2>5. Consumed(d) \in Shares
    BY <2>3, <2>4 DEF Results
  <2> QED BY <2>5 DEF LimitOf
<1> QED BY <1>1, <1>2

\* The devices of the results a config applies to.
DevicesIn(g) == {DeviceOf(k) : k \in Group(g)}

\* HAMi's edits are made for finitely many devices: each has one number, and the
\* limit of that number is its amount.
LEMMA HamiEditsType ==
    ASSUME TypeOK, Selected, NEW g, NEW e \in HamiEdits(g)
    PROVE  /\ e \in EditsType /\ e.kind = "hami"
           /\ \E n \in Nat : \E order \in Bijection(1..n, DevicesIn(g)) :
                DOMAIN e.limits = 1..n /\ \A i \in 1..n : e.limits[i] = LimitOf(order[i])
<1> DEFINE devices == {DeviceOf(k) : k \in Group(g)}
           n == Cardinality(devices)
           f == [k \in Group(g) |-> DeviceOf(k)]
<1>1. n \in Nat
  <2>1. IsFiniteSet(1..Len(chosen))
    BY MineIsOwn, FS_Interval
  <2>2. Group(g) \in SUBSET (1..Len(chosen))
    BY MineIsOwn DEF Group, Mine
  <2>3. IsFiniteSet(Group(g))
    BY <2>1, <2>2, FS_Subset
  <2>4. f \in Surjection(Group(g), devices)
    BY DEF Surjection
  <2>5. IsFiniteSet(devices)
    BY <2>3, <2>4, FS_Surjection
  <2> QED BY <2>5, FS_CardinalityType
<1>2. PICK order \in Surjection(1..n, devices) :
        e = [kind |-> "hami", limits |-> [i \in DOMAIN order |-> LimitOf(order[i])]]
  BY DEF HamiEdits
<1>3. order \in Bijection(1..n, devices)
  <2> HIDE DEF devices
  <2>1. IsFiniteSet(1..n) /\ Cardinality(1..n) = n
    BY <1>1, FS_Interval
  <2>2. order \in Injection(1..n, devices)
    BY <1>2, <2>1, FS_SurjSameCardinalityImpliesInj
  <2> QED BY <1>2, <2>2 DEF Bijection
<1> DEFINE T == Shares \cup {"default"}
           limits == [i \in 1..n |-> LimitOf(order[i])]
<1> HIDE DEF n
<1>4. e = [kind |-> "hami", limits |-> limits]
  BY <1>2 DEF Surjection
<1>5. limits \in Seq(T)
  <2>1. \A i \in 1..n : LimitOf(order[i]) \in T
    BY LimitType
  <2>2. limits \in [1..n -> T]
    BY <2>1
  <2> HIDE DEF limits, T
  <2> QED BY <2>2, <1>1
<1>6. e \in EditsType /\ e.kind = "hami" /\ e.limits = limits
  BY <1>4, <1>5 DEF EditsType
<1>7. devices = DevicesIn(g)
  BY DEF DevicesIn
<1> HIDE DEF devices
<1> QED BY <1>1, <1>3, <1>6, <1>7

\* What applying a config may return.
LEMMA EditsTyped ==
    ASSUME TypeOK, Selected, NEW g, NEW e \in Edits(g)
    PROVE  /\ e \in EditsType
           /\ e.kind = "hami" => Hami /\ e \in HamiEdits(g)
           /\ e.kind # "none" => Hami \/ (Mps /\ ConfigOf(g).form = "mps")
           /\ Hami /\ ConfigOf(g).form # "vfio" => e.kind # "none"
           /\ Mps /\ ConfigOf(g).form = "mps" => e.kind # "none"
<1>1. CASE Hami /\ ConfigOf(g).form # "vfio"
  <2>1. e \in HamiEdits(g)
    BY <1>1 DEF Edits
  <2> QED BY <1>1, <2>1, HamiEditsType DEF Mps
<1>2. CASE ~(Hami /\ ConfigOf(g).form # "vfio")
  <2>1. e = [kind |-> IF Mps /\ ConfigOf(g).form = "mps" THEN "mps" ELSE "none", limits |-> <<>>]
    BY <1>2 DEF Edits
  <2>2. e \in EditsType
    BY <2>1 DEF EditsType
  <2> QED BY <1>2, <2>1, <2>2 DEF Mps
<1> QED BY <1>1, <1>2

----------------------------------------------------------------------------
\* What is to become of a claim is in its allocation alone.
LEMMA InputFixed ==
    ASSUME input' = input
    PROVE  /\ \A r : Expected(r)' = Expected(r)
           /\ Unpreparable' <=> Unpreparable
           /\ Due' = Due
<1>1. ASSUME NEW r PROVE Expected(r)' = Expected(r)
  <2>1. Rivals(r)' = Rivals(r)
    BY DEF Rivals, Matches
  <2>2. \A i, j : Outranks(i, j)' <=> Outranks(i, j)
    BY DEF Outranks
  <2>3. (CHOOSE i \in Rivals(r) : \A j \in Rivals(r) \ {i} : Outranks(i, j))'
        = (CHOOSE i \in Rivals(r) : \A j \in Rivals(r) \ {i} : Outranks(i, j))
    BY <2>1, <2>2
  <2>4. CASE Rivals(r) = {}
    <3>1. Rivals(r)' = {}
      BY <2>1, <2>4
    <3> QED BY <2>4, <3>1 DEF Expected
  <2>5. CASE Rivals(r) # {}
    <3>1. Rivals(r)' # {}
      BY <2>1, <2>5
    <3>2. Expected(r)' = input.configs[CHOOSE i \in Rivals(r) : \A j \in Rivals(r) \ {i} : Outranks(i, j)]'
      BY <3>1 DEF Expected
    <3>3. Expected(r) = input.configs[CHOOSE i \in Rivals(r) : \A j \in Rivals(r) \ {i} : Outranks(i, j)]
      BY <2>5 DEF Expected
    <3> QED BY <2>3, <3>2, <3>3
  <2> QED BY <2>4, <2>5
<1>2. /\ Own' = Own
      /\ \A k : DeviceOf(k)' = DeviceOf(k)
      /\ \A k : Shared(k)' <=> Shared(k)
  BY <1>1 DEF Own, DeviceOf, Shared, Hami, Mps
<1>3. Unpreparable' <=> Unpreparable
  <2>1. (\E k \in Own : LET r == input.results[k] IN
            \/ r.device \notin input.allocatable
            \/ ~Fits(Expected(r), r.device)
            \/ ~Sound(Expected(r)))' <=>
        (\E k \in Own : LET r == input.results[k] IN
            \/ r.device \notin input.allocatable
            \/ ~Fits(Expected(r), r.device)
            \/ ~Sound(Expected(r)))
    BY <1>1, <1>2
  <2> QED BY <1>2, <2>1 DEF Unpreparable
<1>4. Due' = Due
  BY <1>2, <1>3 DEF Due
<1> QED BY <1>1, <1>3, <1>4

\* The steps that refuse a claim have a reason.
LEMMA Refusal ==
    ASSUME Inv,
           RejectSource \/ RejectForm \/ RejectResult \/ RejectInvalid \/ SpecRefused
    PROVE  Unpreparable
<1>1. pc # "failed" /\ TypeOK /\ Split /\ Decoded /\ Selected /\ Applied
  BY DEF Inv, RejectSource, Collecting, RejectForm, Decoding, RejectResult, Pending,
         RejectInvalid, SpecRefused
<1>2. CASE RejectSource
  <2>1. Collected + 1 \in DOMAIN input.configs
    BY <1>1, <1>2, InputTypes, LenProperties DEF RejectSource, Collecting, Collected, TypeOK, Positions
  <2> QED BY <2>1, <1>2 DEF RejectSource, Source, Unpreparable
<1>3. CASE RejectForm
  <2>1. Candidate \in DOMAIN input.configs
    BY <1>1, <1>3, NextCandidate DEF RejectForm, Positions
  <2> QED BY <2>1, <1>3 DEF RejectForm, Unpreparable
<1>4. CASE RejectResult
  <2> DEFINE k == Len(chosen) + 1
  <2>1. pc = "select" /\ Result.own /\ k \in Own /\ Result = input.results[k] /\ Result \in Results
    <3>1. k \in 1..Len(input.results)
      BY <1>1, <1>4, MineIsOwn, InputTypes DEF RejectResult, Pending
    <3>2. input.results[k] \in Results /\ k \in DOMAIN input.results
      BY <1>1, <3>1, InputTypes, ElementOfSeq
    <3> QED BY <3>1, <3>2, <1>4 DEF RejectResult, Pending, Own, Result
  <2> HIDE DEF k
  <2>2. CASE Result.device \notin input.allocatable
    BY <2>1, <2>2 DEF Unpreparable
  <2>3. CASE Result.device \in input.allocatable
    <3>1. ConfigOf(Latest(Matching(Result))) = Expected(Result)
      BY <1>1, <2>1, <2>3, ConfigChosen
    <3>2. ~Fits(Expected(Result), Result.device)
      BY <2>3, <3>1, <1>4 DEF RejectResult, Misfit
    <3> QED BY <2>1, <3>2 DEF Unpreparable
  <2> QED BY <2>2, <2>3
<1>5. CASE RejectInvalid
  <2>1. PICK k \in Mine : ~Sound(ConfigOf(chosen[k]))
    BY <1>5 DEF RejectInvalid, ToApply
  <2>2. k \in Own /\ ConfigOf(chosen[k]) = Expected(input.results[k])
    BY <1>1, MineIsOwn
  <2> QED BY <2>1, <2>2 DEF Unpreparable
<1>6. CASE SpecRefused
  <2>1. PICK k, l \in Mine : k # l /\ HasEdits(k) /\ HasEdits(l) /\ DeviceOf(k) = DeviceOf(l)
    BY <1>6 DEF SpecRefused, Duplicated
  <2>2. \A m \in Mine : HasEdits(m) => Shared(m)
    <3> TAKE m \in Mine
    <3> HAVE HasEdits(m)
    <3>1. chosen[m] \in DOMAIN edits
      BY <1>1, <1>6 DEF Applied, ToApply, SpecRefused
    <3>2. edits[chosen[m]] \in Edits(chosen[m]) /\ edits[chosen[m]].kind # "none"
      BY <1>1, <3>1 DEF Applied, HasEdits
    <3>3. Hami \/ (Mps /\ ConfigOf(chosen[m]).form = "mps")
      BY <1>1, <3>2, EditsTyped
    <3> QED BY <1>1, <3>3, MineIsOwn DEF Shared
  <2>3. k \in Own /\ l \in Own
    BY <1>1, MineIsOwn
  <2> QED BY <2>1, <2>2, <2>3 DEF Unpreparable
<1> QED BY <1>2, <1>3, <1>4, <1>5, <1>6

----------------------------------------------------------------------------
\* The steps that go on.

\* After the loops nobody changes what they made.
LEMMA ListsFixed ==
    ASSUME Split, Decoded, pc \notin {"collect", "decode"}, pc' \notin {"collect", "decode"},
           UNCHANGED <<input, classConfigs, claimConfigs, decoded, configs>>
    PROVE  Split' /\ Decoded' /\ DOMAIN configs' = DOMAIN configs
           /\ \A g : ConfigOf(g)' = ConfigOf(g)
<1>1. Split'
  BY DEF Split, FromSource, Collected
<1>2. /\ Seen' = Seen /\ Positions' = Positions /\ Defaults' = Defaults
      /\ CandidateConfigs' = CandidateConfigs
  BY DEF Seen, Positions, Defaults, Passthrough, CandidateConfigs
<1>3. D' = D /\ GivenConfigs' = GivenConfigs
  BY <1>2 DEF D, GivenConfigs
<1>4. Ranked(GivenConfigs, Positions)'
  BY <1>2, <1>3 DEF Decoded, Ranked, Given, Outranks
<1>5. Decoded'
  BY <1>2, <1>3, <1>4 DEF Decoded
<1> QED BY <1>1, <1>5 DEF ConfigOf

LEMMA SelectStep ==
    ASSUME Inv, SelectConfig
    PROVE  Inv'
<1>1. /\ pc = "select" /\ TypeOK /\ Split /\ Decoded /\ Selected /\ Applied
      /\ UNCHANGED <<input, pc, lists, configs, edits, prepared, spec>>
      /\ Len(chosen) < Len(input.results) /\ Len(input.results) \in Nat /\ Len(configs) \in Nat
      /\ DOMAIN configs = 1..Len(configs)
  BY InputTypes, LenProperties DEF Inv, SelectConfig, Pending, TypeOK
<1> DEFINE k == Len(chosen) + 1
<1>2. /\ DOMAIN chosen = 1..Len(chosen) /\ Len(chosen) \in Nat /\ chosen \in Seq(Nat)
      /\ Result = input.results[k] /\ Result \in Results
  BY <1>1, MineIsOwn, InputTypes, ElementOfSeq DEF Result, TypeOK
<1>3. PICK c \in Nat :
        /\ chosen' = Append(chosen, c) /\ c <= Len(configs)
        /\ IF Result.own THEN /\ c \in DOMAIN configs /\ ConfigOf(c) = Expected(Result)
                              /\ Result.device \in input.allocatable
                              /\ Fits(Expected(Result), Result.device)
                         ELSE c = 0
  <2>1. CASE ~Result.own
    <3>1. chosen' = Append(chosen, 0)
      BY <2>1 DEF SelectConfig
    <3> QED BY <2>1, <3>1, <1>1
  <2>2. CASE Result.own
    <3>1. Result.device \in input.allocatable
      BY <2>2 DEF SelectConfig
    <3> DEFINE L == Latest(Matching(Result))
    <3>2. /\ Matching(Result) # {} /\ L \in DOMAIN configs /\ L \in Matching(Result)
          /\ ConfigOf(L) = Expected(Result)
      BY <3>1, <1>1, <1>2, ConfigChosen
    <3> HIDE DEF L
    <3>3. chosen' = Append(chosen, L) /\ ~Misfit(ConfigOf(L), Result)
      BY <2>2, <3>2 DEF SelectConfig, L
    <3>4. Fits(ConfigOf(L), Result.device)
      BY <3>2, <3>3 DEF Matching, Matches, Misfit
    <3>5. L \in Nat /\ L <= Len(configs)
      BY <3>2, <1>1
    <3> QED BY <2>2, <3>1, <3>2, <3>3, <3>4, <3>5
  <2> QED BY <2>1, <2>2
<1>4. /\ chosen' \in Seq(Nat) /\ Len(chosen') = k /\ DOMAIN chosen' = 1..k
      /\ \A j \in 1..Len(chosen) : chosen'[j] = chosen[j]
      /\ chosen'[k] = c
      /\ \A j \in 1..k : j \in 1..Len(chosen) \/ j = k
      /\ k <= Len(input.results)
  BY <1>1, <1>2, <1>3, AppendProperties, LenProperties
<1> HIDE DEF k
<1>5. \A r : Expected(r)' = Expected(r)
  BY <1>1, InputFixed
<1>6. TypeOK'
  <2>1. \A j \in 1..k : chosen'[j] <= Len(configs)
    BY <1>2, <1>3, <1>4 DEF TypeOK, Inv
  <2> QED BY <2>1, <1>1, <1>4 DEF TypeOK, EditsType, lists
<1>7. Split' /\ Decoded'
  BY <1>1, ListsFixed DEF lists
<1>8. Selected'
  <2>1. ASSUME NEW j \in 1..k
        PROVE  IF input.results[j].own
               THEN /\ chosen'[j] \in DOMAIN configs
                    /\ ConfigOf(chosen'[j]) = Expected(input.results[j])
                    /\ input.results[j].device \in input.allocatable
                    /\ Fits(Expected(input.results[j]), input.results[j].device)
               ELSE chosen'[j] = 0
    <3>1. CASE j \in 1..Len(chosen)
      BY <3>1, <1>1, <1>2, <1>4 DEF Selected
    <3>2. CASE j = k
      BY <3>2, <1>2, <1>3, <1>4
    <3> QED BY <3>1, <3>2, <1>4
  <2> QED BY <2>1, <1>1, <1>4, <1>5 DEF Selected, ConfigOf, Fits
<1>9. Applied'
  BY <1>1 DEF Applied
<1> QED BY <1>1, <1>6, <1>7, <1>8, <1>9 DEF Inv

\* While the configs are collected and decoded nothing is chosen.
LEMMA ConfigSteps ==
    ASSUME Inv, CollectConfig \/ EndCollection \/ DecodeConfig \/ EndDecoding
    PROVE  Inv'
<1>1. /\ pc \in {"collect", "decode"} /\ TypeOK /\ Split /\ Decoded /\ Selected /\ Applied
      /\ UNCHANGED <<input, chosen, edits, prepared, spec>>
      /\ chosen = <<>> /\ DOMAIN chosen = {} /\ DOMAIN edits = {}
      /\ pc' \in {"collect", "decode", "select"}
  <2>1. /\ pc \in {"collect", "decode"} /\ UNCHANGED <<input, chosen, edits, prepared, spec>>
        /\ pc' \in {"collect", "decode", "select"}
    BY DEF CollectConfig, Collecting, EndCollection, DecodeConfig, Decoding, EndDecoding
  <2>2. TypeOK /\ Split /\ Decoded /\ Selected /\ Applied
    BY <2>1 DEF Inv
  <2>3. chosen = <<>> /\ DOMAIN edits = {}
    BY <2>1, <2>2 DEF Selected, Applied
  <2> QED BY <2>1, <2>2, <2>3
<1>2. Selected' /\ Applied'
  BY <1>1 DEF Selected, Applied
<1>3. ASSUME /\ configs' \in Seq(Entries) /\ classConfigs' \in Seq(Nat) /\ claimConfigs' \in Seq(Nat)
             /\ decoded' \in Nat
      PROVE  TypeOK'
  <2>1. /\ input' \in Inputs /\ pc' \in {"collect", "decode", "select", "apply", "spec", "granted", "failed"}
        /\ prepared' \subseteq [result : DOMAIN input'.results, ids : SUBSET ({"device", "claim"} \X Devices)]
        /\ spec' \subseteq Devices \X EditsType
        /\ chosen' \in Seq(Nat) /\ Len(chosen') <= Len(input'.results)
        /\ DOMAIN chosen' = {} /\ DOMAIN edits' = {}
    BY <1>1 DEF TypeOK
  <2> QED BY <2>1, <1>3 DEF TypeOK, Entries, EditsType
<1>4. configs \in Seq(Entries) /\ classConfigs \in Seq(Nat) /\ claimConfigs \in Seq(Nat) /\ decoded \in Nat
  BY <1>1 DEF TypeOK, Entries
<1>5. CASE CollectConfig
  <2>1. Split'
    BY <1>1, <1>5, SplitNext
  <2>2. pc = "collect" /\ decoded = 0 /\ UNCHANGED <<pc, decoded, configs>>
    BY <1>1, <1>5 DEF CollectConfig, Collecting, Decoded
  <2>3. Collected + 1 \in Nat
    BY <1>4, LenProperties DEF Collected
  <2>4. classConfigs' \in Seq(Nat) /\ claimConfigs' \in Seq(Nat)
    <3>1. Append(classConfigs, Collected + 1) \in Seq(Nat) /\ Append(claimConfigs, Collected + 1) \in Seq(Nat)
      BY <1>4, <2>3, AppendProperties
    <3> QED BY <1>4, <1>5, <3>1 DEF CollectConfig
  <2>5. Seen = {} /\ Seen' = {}
    BY <2>2 DEF Seen
  <2>6. (decoded <= Len(CandidateConfigs))'
    BY <2>2, <2>4, ConcatProperties, LenProperties DEF CandidateConfigs
  <2>7. Ranked(configs, Seen)'
    BY <1>1, <2>2, <2>5 DEF Decoded, Ranked, Given, Outranks
  <2>8. Decoded'
    BY <2>2, <2>5, <2>6, <2>7 DEF Decoded
  <2> QED BY <1>1, <1>2, <1>3, <1>4, <2>1, <2>2, <2>4, <2>8 DEF Inv
<1>6. CASE EndCollection
  <2>1. /\ pc = "collect" /\ pc' = "decode" /\ Collected = Len(input.configs)
        /\ UNCHANGED <<classConfigs, claimConfigs, decoded, configs>>
    BY <1>6 DEF EndCollection, lists
  <2>2. Split'
    BY <1>1, <2>1 DEF Split, FromSource, Collected
  <2>3. Seen' = Seen /\ CandidateConfigs' = CandidateConfigs
    BY <2>1 DEF Seen, CandidateConfigs
  <2>4. Ranked(configs, Seen)'
    BY <1>1, <2>1, <2>3 DEF Decoded, Ranked, Given, Outranks
  <2>5. Decoded'
    BY <1>1, <2>1, <2>3, <2>4 DEF Decoded
  <2> QED BY <1>1, <1>2, <1>3, <1>4, <2>1, <2>2, <2>5 DEF Inv
<1>7. CASE DecodeConfig
  <2>1. Decoded' /\ configs' \in Seq(Entries)
    BY <1>1, <1>7, DecodedNext
  <2>2. UNCHANGED <<pc, classConfigs, claimConfigs>> /\ decoded' = decoded + 1
    BY <1>7 DEF DecodeConfig
  <2>3. Split'
    BY <1>1, <2>2 DEF Split, FromSource, Collected
  <2> QED BY <1>1, <1>2, <1>3, <1>4, <2>1, <2>2, <2>3 DEF Inv
<1>8. CASE EndDecoding
  <2>1. Decoded' /\ configs' \in Seq(Entries)
    BY <1>1, <1>8, DecodedEnd
  <2>2. UNCHANGED <<classConfigs, claimConfigs, decoded>> /\ pc = "decode"
    BY <1>8 DEF EndDecoding, lists
  <2>3. Split'
    BY <1>1, <2>2 DEF Split, FromSource, Collected
  <2> QED BY <1>1, <1>2, <1>3, <1>4, <2>1, <2>2, <2>3 DEF Inv
<1> QED BY <1>5, <1>6, <1>7, <1>8

\* What is read off the input, the configs and the choices.
LEMMA DerivedFixed ==
    ASSUME UNCHANGED <<input, configs, chosen>>
    PROVE  /\ \A r : Expected(r)' = Expected(r)
           /\ \A g : ConfigOf(g)' = ConfigOf(g)
           /\ Mine' = Mine /\ \A k : DeviceOf(k)' = DeviceOf(k)
           /\ \A g : Edits(g)' = Edits(g)
<1>1. /\ \A r : Expected(r)' = Expected(r)
      /\ \A g : ConfigOf(g)' = ConfigOf(g)
      /\ Mine' = Mine /\ \A g : Group(g)' = Group(g)
      /\ \A k : DeviceOf(k)' = DeviceOf(k)
      /\ Hami' = Hami /\ Mps' = Mps
  BY InputFixed DEF ConfigOf, Mine, Group, DeviceOf, Hami, Mps
<1>2. \A d : Consumed(d)' = Consumed(d)
  BY <1>1 DEF Consumed
<1>3. \A d : LimitOf(d)' = LimitOf(d)
  BY <1>2 DEF LimitOf
<1>4. \A g : HamiEdits(g)' = HamiEdits(g)
  BY <1>1, <1>3 DEF HamiEdits
<1>5. \A g : Edits(g)' = Edits(g)
  BY <1>1, <1>4 DEF Edits
<1> QED BY <1>1, <1>5

\* A config is applied, or the next loop starts.
LEMMA ApplySteps ==
    ASSUME Inv, EndSelection \/ ApplyConfig \/ BuildDevices \/ CreateClaimSpec
    PROVE  Inv'
<1>1. /\ pc \in {"select", "apply", "spec"} /\ pc' \in {"apply", "spec", "granted"}
      /\ UNCHANGED <<input, lists, configs, chosen>>
  BY DEF EndSelection, ApplyConfig, BuildDevices, CreateClaimSpec
<1>2. TypeOK /\ Split /\ Decoded /\ Selected /\ Applied
  BY <1>1 DEF Inv
<1>3. Split' /\ Decoded' /\ DOMAIN configs' = DOMAIN configs /\ \A g : ConfigOf(g)' = ConfigOf(g)
  BY <1>1, <1>2, ListsFixed DEF lists
<1>4. /\ \A r : Expected(r)' = Expected(r)
      /\ Mine' = Mine /\ \A k : DeviceOf(k)' = DeviceOf(k)
  BY <1>1, DerivedFixed
<1>5. \A g : Edits(g)' = Edits(g)
  BY <1>1, DerivedFixed
<1>6. Len(chosen) = Len(input.results)
  BY <1>2 DEF Selected, EndSelection, ApplyConfig, BuildDevices, CreateClaimSpec
<1>7. Selected'
  BY <1>1, <1>2, <1>3, <1>4, <1>6 DEF Selected
<1>8. ASSUME /\ \A g \in DOMAIN edits' : g \in DOMAIN configs /\ edits'[g] \in EditsType
             /\ prepared' \subseteq [result : DOMAIN input.results, ids : SUBSET ({"device", "claim"} \X Devices)]
             /\ spec' \subseteq Devices \X EditsType
      PROVE  TypeOK'
  <2>1. /\ input' \in Inputs /\ pc' \in {"collect", "decode", "select", "apply", "spec", "granted", "failed"}
        /\ classConfigs' \in Seq(Nat) /\ claimConfigs' \in Seq(Nat) /\ decoded' \in Nat
        /\ configs' \in Seq([at : Nat, config : Configs])
        /\ chosen' \in Seq(Nat) /\ Len(chosen') <= Len(input'.results)
        /\ \A k \in DOMAIN chosen' : chosen'[k] <= Len(configs')
    BY <1>1, <1>2 DEF TypeOK, lists
  <2>2. DOMAIN edits' \subseteq DOMAIN configs' /\ \A g \in DOMAIN edits' : edits'[g] \in EditsType
    BY <1>1, <1>8
  <2>3. prepared' \subseteq [result : DOMAIN input'.results, ids : SUBSET ({"device", "claim"} \X Devices)]
    BY <1>1, <1>8
  <2> QED BY <2>1, <2>2, <2>3, <1>8 DEF TypeOK, EditsType
<1>9. /\ \A g \in DOMAIN edits : g \in DOMAIN configs /\ edits[g] \in EditsType
      /\ prepared \subseteq [result : DOMAIN input.results, ids : SUBSET ({"device", "claim"} \X Devices)]
      /\ spec \subseteq Devices \X EditsType
  BY <1>2 DEF TypeOK
<1>10. CASE EndSelection
  <2>1. pc' = "apply" /\ UNCHANGED <<edits, prepared, spec>>
    BY <1>10 DEF EndSelection
  <2>2. Applied'
    BY <1>2, <1>3, <1>5, <2>1 DEF Applied
  <2> QED BY <1>3, <1>7, <1>8, <1>9, <2>1, <2>2 DEF Inv
<1>11. CASE ApplyConfig
  <2>1. pc' = "apply" /\ UNCHANGED <<prepared, spec>>
    BY <1>11 DEF ApplyConfig
  <2>2. PICK g \in ToApply : /\ Sound(ConfigOf(g))
                             /\ \E e \in Edits(g) : edits' = [j \in DOMAIN edits \cup {g} |->
                                                               IF j = g THEN e ELSE edits[j]]
    BY <1>11 DEF ApplyConfig
  <2>3. PICK e \in Edits(g) : edits' = [j \in DOMAIN edits \cup {g} |-> IF j = g THEN e ELSE edits[j]]
    BY <2>2
  <2>4. g \in DOMAIN configs
    BY <1>2, MineIsOwn DEF ToApply
  <2>5. e \in EditsType
    BY <1>2, EditsTyped
  <2>6. \A j \in DOMAIN edits' : j \in DOMAIN configs /\ edits'[j] \in EditsType
    BY <1>9, <2>3, <2>4, <2>5
  <2>7. \A j \in DOMAIN edits' : Sound(ConfigOf(j)) /\ edits'[j] \in Edits(j)
    BY <1>2, <2>2, <2>3 DEF Applied
  <2>8. Applied'
    BY <1>3, <1>5, <2>1, <2>6, <2>7 DEF Applied
  <2> QED BY <1>3, <1>7, <1>8, <1>9, <2>1, <2>6, <2>8 DEF Inv
<1>12. CASE BuildDevices
  <2>1. /\ pc' = "spec" /\ UNCHANGED <<edits, spec>> /\ ToApply = {}
        /\ prepared' = {[result |-> k, ids |-> {StandardDevice(k)} \cup ClaimDevice(k)] : k \in Mine}
    BY <1>12 DEF BuildDevices
  <2>2. /\ ToApply' = ToApply /\ \A k : StandardDevice(k)' = StandardDevice(k)
        /\ \A k : ClaimDevice(k)' = ClaimDevice(k)
    BY <1>1, <1>4, <2>1 DEF ToApply, StandardDevice, ClaimDevice, HasEdits
  <2>3. \A k \in Mine : [result |-> k, ids |-> {StandardDevice(k)} \cup ClaimDevice(k)]
                        \in [result : DOMAIN input.results, ids : SUBSET ({"device", "claim"} \X Devices)]
    <3> TAKE k \in Mine
    <3>1. k \in DOMAIN input.results /\ DeviceOf(k) \in Devices
      BY <1>2, MineIsOwn
    <3>2. {StandardDevice(k)} \cup ClaimDevice(k) \subseteq {"device", "claim"} \X Devices
      BY <3>1 DEF StandardDevice, ClaimDevice
    <3> QED BY <3>1, <3>2
  <2>4. prepared' \subseteq [result : DOMAIN input.results, ids : SUBSET ({"device", "claim"} \X Devices)]
    BY <2>1, <2>3
  <2>5. Applied'
    BY <1>2, <1>3, <1>4, <1>5, <2>1, <2>2 DEF Applied
  <2> QED BY <1>3, <1>7, <1>8, <1>9, <2>1, <2>4, <2>5 DEF Inv
<1>13. CASE CreateClaimSpec
  <2>1. /\ pc = "spec" /\ pc' = "granted" /\ UNCHANGED <<edits, prepared>> /\ ~Duplicated
        /\ spec' = {<<DeviceOf(k), edits[chosen[k]]>> : k \in {l \in Mine : HasEdits(l)}}
    BY <1>13 DEF CreateClaimSpec
  <2>2. /\ ToApply' = ToApply /\ \A k : StandardDevice(k)' = StandardDevice(k)
        /\ \A k : ClaimDevice(k)' = ClaimDevice(k)
        /\ \A k : HasEdits(k)' <=> HasEdits(k)
    BY <1>1, <1>4, <2>1 DEF ToApply, StandardDevice, ClaimDevice, HasEdits
  <2>3. ~Duplicated'
    BY <1>4, <2>1, <2>2 DEF Duplicated
  <2>4. spec' \subseteq Devices \X EditsType
    <3>1. \A k \in Mine : DeviceOf(k) \in Devices /\ edits[chosen[k]] \in EditsType
      BY <1>2, <1>9, <2>1, MineIsOwn DEF Applied, ToApply
    <3> QED BY <2>1, <3>1
  <2>5. Applied'
    BY <1>1, <1>2, <1>3, <1>4, <1>5, <2>1, <2>2, <2>3 DEF Applied
  <2> QED BY <1>3, <1>7, <1>8, <1>9, <2>1, <2>4, <2>5 DEF Inv
<1> QED BY <1>10, <1>11, <1>12, <1>13

----------------------------------------------------------------------------
\* The invariant holds.
LEMMA Initially == Init => Inv
<1> SUFFICES ASSUME Init PROVE Inv
  OBVIOUS
<1>1. /\ input \in Inputs /\ pc = "collect" /\ classConfigs = <<>> /\ claimConfigs = <<>>
      /\ decoded = 0 /\ configs = <<>> /\ chosen = <<>> /\ edits = <<>> /\ prepared = {} /\ spec = {}
      /\ DOMAIN classConfigs = {} /\ DOMAIN claimConfigs = {} /\ DOMAIN configs = {}
      /\ DOMAIN chosen = {} /\ DOMAIN edits = {} /\ Len(input.configs) \in Nat
      /\ Len(input.results) \in Nat
  BY InputAssumption, LenProperties DEF Init
<1>2. TypeOK
  BY <1>1 DEF TypeOK
<1>3. Collected = 0 /\ 1..0 = {}
  BY <1>1 DEF Collected
<1>4. Split
  BY <1>1, <1>3 DEF Split, FromSource
<1>5. Seen = {} /\ Len(CandidateConfigs) \in Nat
  BY <1>1, <1>3, EmptySeq, ConcatProperties, LenProperties DEF Seen, CandidateConfigs
<1>6. Decoded
  BY <1>1, <1>5 DEF Decoded, Ranked
<1>7. Selected /\ Applied
  BY <1>1 DEF Selected, Applied
<1> QED BY <1>1, <1>2, <1>4, <1>6, <1>7 DEF Inv

LEMMA Step == Inv /\ [Next]_vars => Inv'
<1> SUFFICES ASSUME Inv, [Next]_vars PROVE Inv'
  OBVIOUS
<1>1. CASE RejectSource \/ RejectForm \/ RejectResult \/ RejectInvalid \/ SpecRefused
  <2>1. pc' = "failed" /\ UNCHANGED <<input, lists, configs, chosen, edits, prepared, spec>>
    BY <1>1 DEF RejectSource, RejectForm, RejectResult, RejectInvalid, SpecRefused, Fail
  <2>2. input' = input /\ Unpreparable
    BY <1>1, <2>1, Refusal
  <2>3. TypeOK'
    BY <2>1 DEF Inv, TypeOK, EditsType, lists
  <2> QED BY <2>1, <2>2, <2>3, InputFixed DEF Inv
<1>2. CASE UNCHANGED vars
  <2>1. /\ UNCHANGED <<input, pc, lists, configs, chosen, edits, prepared, spec>>
        /\ UNCHANGED <<classConfigs, claimConfigs, decoded>>
    BY <1>2 DEF vars, lists
  <2>2. TypeOK'
    BY <2>1 DEF Inv, TypeOK, EditsType
  <2>3. CASE pc = "failed"
    BY <2>1, <2>2, <2>3, InputFixed DEF Inv
  <2>4. CASE pc # "failed"
    <3>1. Split /\ Decoded /\ Selected /\ Applied
      BY <2>4 DEF Inv
    <3>2. Seen' = Seen /\ Positions' = Positions /\ CandidateConfigs' = CandidateConfigs
          /\ Defaults' = Defaults
      BY <2>1 DEF Seen, Positions, CandidateConfigs, Defaults, Passthrough
    <3>3. D' = D /\ GivenConfigs' = GivenConfigs
      BY <2>1, <3>2 DEF D, GivenConfigs
    <3>4. Split'
      BY <2>1, <3>1 DEF Split, FromSource, Collected
    <3>5. (pc \in {"collect", "decode"} => Ranked(configs, Seen))'
      BY <2>1, <3>1, <3>2 DEF Decoded, Ranked, Given, Outranks
    <3>6. (pc \notin {"collect", "decode"} => Ranked(GivenConfigs, Positions))'
      BY <2>1, <3>1, <3>2, <3>3 DEF Decoded, Ranked, Given, Outranks
    <3>7. Decoded'
      BY <2>1, <3>1, <3>2, <3>3, <3>5, <3>6 DEF Decoded
    <3>8. /\ \A r : Expected(r)' = Expected(r)
          /\ \A g : ConfigOf(g)' = ConfigOf(g)
          /\ Mine' = Mine /\ \A k : DeviceOf(k)' = DeviceOf(k)
          /\ \A g : Edits(g)' = Edits(g)
      BY <2>1, DerivedFixed
    <3>9. Selected'
      BY <2>1, <3>1, <3>8 DEF Selected
    <3>10. /\ ToApply' = ToApply /\ \A k : StandardDevice(k)' = StandardDevice(k)
           /\ \A k : ClaimDevice(k)' = ClaimDevice(k)
           /\ \A k : HasEdits(k)' <=> HasEdits(k)
      BY <2>1, <3>8 DEF ToApply, StandardDevice, ClaimDevice, HasEdits
    <3>11. Duplicated' <=> Duplicated
      BY <3>8, <3>10 DEF Duplicated
    <3>12. Applied'
      BY <2>1, <3>1, <3>8, <3>10, <3>11 DEF Applied
    <3> QED BY <2>1, <2>2, <2>4, <3>4, <3>7, <3>9, <3>12 DEF Inv
  <2> QED BY <2>3, <2>4
<1> QED BY <1>1, <1>2, ConfigSteps, SelectStep, ApplySteps DEF Next

----------------------------------------------------------------------------
LEMMA InvHolds == Spec => []Inv
BY Initially, Step, PTL DEF Spec

\* The types of the variables hold for every allocation; and the edits of HAMi are
\* made for finitely many devices (HamiEditsType).
THEOREM TypeCorrect == Spec => []TypeOK
<1>1. Inv => TypeOK
  BY DEF Inv
<1> QED BY <1>1, InvHolds, PTL

\* Every result of this driver has the config that outranks all others that apply
\* to it: the two lists, the defaults in front of them and the backward search of
\* device_state.go come to the documented precedence.  A refusal keeps what was chosen.
THEOREM PrecedenceHolds == Spec => []Precedence
<1> DEFINE Failed == pc = "failed"
<1>1. ASSUME Inv, ~Failed PROVE Precedence
  <2>1. Selected /\ DOMAIN configs = 1..Len(configs) /\ Len(configs) \in Nat
    BY <1>1, LenProperties DEF Inv, TypeOK
  <2> QED BY <2>1 DEF Selected, Precedence
<1>2. ASSUME Inv, Precedence, [Next]_vars, Failed' PROVE Precedence'
  <2>1. UNCHANGED <<input, configs, chosen>>
    BY <1>2 DEF Inv, Next, vars, lists, CollectConfig, Collecting, RejectSource, EndCollection, DecodeConfig,
                Decoding, RejectForm, EndDecoding, SelectConfig, Pending, RejectResult, EndSelection,
                ApplyConfig, RejectInvalid, BuildDevices, CreateClaimSpec, SpecRefused, Fail
  <2> QED BY <1>2, <2>1, DerivedFixed DEF Precedence
<1>3. Init => ~Failed
  BY DEF Init
<1> HIDE DEF Failed
<1> QED BY <1>1, <1>2, <1>3, InvHolds, PTL DEF Spec

\* The results of a granted claim are those of this driver, all of them; they have
\* edits where they are shared, and no reason to be refused.
LEMMA Granted ==
    ASSUME Inv, pc \in {"spec", "granted"}
    PROVE  /\ TypeOK /\ Selected /\ Mine = Own
           /\ \A k \in Mine : /\ chosen[k] \in DOMAIN edits /\ edits[chosen[k]] \in Edits(chosen[k])
                              /\ HasEdits(k) <=> Shared(k)
           /\ prepared = {[result |-> k, ids |-> {StandardDevice(k)} \cup ClaimDevice(k)] : k \in Mine}
           /\ ~Duplicated => ~Unpreparable
<1>1. TypeOK /\ Split /\ Decoded /\ Selected /\ Applied
  BY DEF Inv
<1>2. DOMAIN chosen = DOMAIN input.results
  BY <1>1, MineIsOwn, InputTypes DEF Selected
<1>3. \A k \in DOMAIN configs : k # 0
  BY <1>1, LenProperties DEF TypeOK
<1>4. Mine = Own
  BY <1>1, <1>2, <1>3 DEF Own, Mine, Selected
<1>5. ASSUME NEW k \in Own
      PROVE  LET r == input.results[k] IN
             /\ r.device \in input.allocatable
             /\ Fits(Expected(r), r.device)
             /\ Sound(Expected(r))
             /\ chosen[k] \in DOMAIN edits /\ edits[chosen[k]] \in Edits(chosen[k])
             /\ ConfigOf(chosen[k]) = Expected(r)
  <2>1. chosen[k] \in DOMAIN edits
    BY <1>1, <1>4 DEF Applied, ToApply
  <2> QED BY <2>1, <1>1, <1>4, MineIsOwn DEF Applied
<1>6. ASSUME NEW k \in Own PROVE HasEdits(k) <=> Shared(k)
  <2> DEFINE r == input.results[k]
  <2>1. Expected(r).form # "vfio" \/ ~Hami
    <3>1. SUFFICES ASSUME Hami, Expected(r).form = "vfio" PROVE FALSE
      OBVIOUS
    <3>2. TypeOf[r.device] = "vfio"
      BY <1>5, <3>1 DEF Fits
    <3>3. TypeOf[r.device] = "hami-gpu"
      BY <1>1, <1>5, <3>1, EnumerationAssumption DEF Hami, TypeOK
    <3> QED BY <3>2, <3>3
  <2>2. edits[chosen[k]].kind # "none" <=> Shared(k)
    BY <1>1, <1>5, <2>1, EditsTyped DEF Shared
  <2> QED BY <2>2 DEF HasEdits
<1>7. ASSUME ~Duplicated PROVE ~Unpreparable
  <2>1. \A i \in DOMAIN input.configs : /\ input.configs[i].source \in {"class", "claim"}
                                        /\ input.configs[i].form \notin {"nil", "undecodable"}
    BY <1>1, InputTypes DEF Split, Decoded, Positions, Sources
  <2>2. ~(\E k, l \in Own : k # l /\ DeviceOf(k) = DeviceOf(l) /\ Shared(k) /\ Shared(l))
    BY <1>4, <1>6, <1>7 DEF Duplicated
  <2> QED BY <1>5, <2>1, <2>2 DEF Unpreparable
<1> QED BY <1>1, <1>4, <1>5, <1>6, <1>7 DEF Applied

\* A claim is refused for one of the reasons of Unpreparable and for nothing else,
\* in whatever order the configs are applied; and one with such a reason is never
\* granted.
THEOREM RefusedForCauseHolds == Spec => []RefusedForCause
<1>1. ASSUME Inv PROVE RefusedForCause
  <2>1. pc = "granted" => ~Duplicated
    BY <1>1 DEF Inv, Applied
  <2> QED BY <1>1, <2>1, Granted DEF Inv, RefusedForCause
<1> QED BY <1>1, InvHolds, PTL

\* The kubelet is answered one entry for every result of this driver, and every
\* claim id of it names exactly one device of the claim's spec file, with the edits
\* of that result's config.
THEOREM IdsResolveHolds == Spec => []IdsResolve
<1>1. ASSUME Inv, pc = "granted"
      PROVE  /\ {p.result : p \in prepared} = Own
             /\ \A p \in prepared : LET d == DeviceOf(p.result) IN
                 /\ <<"claim", d>> \in p.ids <=> HasEdits(p.result)
                 /\ <<"claim", d>> \in p.ids =>
                         {s \in spec : s[1] = d} = {<<d, edits[chosen[p.result]]>>}
  <2>1. /\ Mine = Own /\ ~Duplicated
        /\ prepared = {[result |-> k, ids |-> {StandardDevice(k)} \cup ClaimDevice(k)] : k \in Mine}
        /\ spec = {<<DeviceOf(k), edits[chosen[k]]>> : k \in {l \in Mine : HasEdits(l)}}
    BY <1>1, Granted DEF Inv, Applied
  <2>2. {p.result : p \in prepared} = Own
    <3>1. \A p \in prepared : p.result \in Own
      BY <2>1
    <3>2. \A k \in Own : \E p \in prepared : p.result = k
      <4> TAKE k \in Own
      <4> DEFINE p == [result |-> k, ids |-> {StandardDevice(k)} \cup ClaimDevice(k)]
      <4>1. p \in prepared /\ p.result = k
        BY <2>1
      <4> QED BY <4>1
    <3> QED BY <3>1, <3>2
  <2>3. ASSUME NEW p \in prepared
        PROVE  LET d == DeviceOf(p.result) IN
                 /\ <<"claim", d>> \in p.ids <=> HasEdits(p.result)
                 /\ <<"claim", d>> \in p.ids =>
                         {s \in spec : s[1] = d} = {<<d, edits[chosen[p.result]]>>}
    <3>1. PICK k \in Mine : p = [result |-> k, ids |-> {StandardDevice(k)} \cup ClaimDevice(k)]
      BY <2>1
    <3>2. p.result = k /\ (<<"claim", DeviceOf(k)>> \in p.ids <=> HasEdits(k))
      BY <3>1 DEF StandardDevice, ClaimDevice
    <3>3. ASSUME HasEdits(k)
          PROVE  {s \in spec : s[1] = DeviceOf(k)} = {<<DeviceOf(k), edits[chosen[k]]>>}
      <4>1. \A l \in Mine : HasEdits(l) /\ DeviceOf(l) = DeviceOf(k) => l = k
        BY <2>1, <3>3 DEF Duplicated
      <4>2. \A s \in spec : \E l \in Mine : HasEdits(l) /\ s = <<DeviceOf(l), edits[chosen[l]]>>
        BY <2>1
      <4>3. <<DeviceOf(k), edits[chosen[k]]>> \in spec
        BY <2>1, <3>3
      <4> QED BY <4>1, <4>2, <4>3
    <3> QED BY <3>2, <3>3
  <2> QED BY <2>2, <2>3
<1>2. Inv => IdsResolve
  BY <1>1 DEF IdsResolve
<1> QED BY <1>2, InvHolds, PTL

\* A container that gets a device of HAMi gets, with the same edits, a limit for
\* each result its config applies to: the amount that result consumed, none left
\* out and none twice.
THEOREM LimitsCompleteHolds == Spec => []LimitsComplete
<1>1. ASSUME Inv, pc = "granted",
             \A k \in DOMAIN input.results : \A l \in Own : DeviceOf(k) = DeviceOf(l) => k \in Own,
             NEW s \in spec, s[2].kind = "hami"
      PROVE  \E k \in Own :
                /\ DeviceOf(k) = s[1]
                /\ \E result \in Bijection(DOMAIN s[2].limits, Group(chosen[k])) :
                        \A i \in DOMAIN s[2].limits : s[2].limits[i] = Amount(result[i])
  <2>1. /\ TypeOK /\ Selected /\ Mine = Own /\ ~Duplicated
        /\ \A k \in Mine : edits[chosen[k]] \in Edits(chosen[k]) /\ (HasEdits(k) <=> Shared(k))
        /\ spec = {<<DeviceOf(k), edits[chosen[k]]>> : k \in {l \in Mine : HasEdits(l)}}
    BY <1>1, Granted DEF Inv, Applied
  <2>2. PICK k \in Mine : s = <<DeviceOf(k), edits[chosen[k]]>>
    BY <2>1
  <2> DEFINE g == chosen[k]
  <2>3. s[1] = DeviceOf(k) /\ s[2] = edits[g] /\ k \in Own
    BY <2>1, <2>2
  <2>4. s[2] \in HamiEdits(g) /\ Hami
    BY <1>1, <2>1, <2>3, EditsTyped
  <2>5. \A l, m \in Own : DeviceOf(l) = DeviceOf(m) => l = m
    BY <2>1, <2>4 DEF Duplicated, Shared
  <2>6. ASSUME NEW l \in Own PROVE LimitOf(DeviceOf(l)) = Amount(l)
    <3> DEFINE d == DeviceOf(l)
               stating == {m \in DOMAIN input.results : /\ DeviceOf(m) = d
                                                        /\ input.results[m].share # "unset"}
    <3>1. l \in DOMAIN input.results
      BY DEF Own
    <3>2. CASE stating = {}
      <4>1. input.results[l].share = "unset" /\ LimitOf(d) = "default"
        BY <3>1, <3>2 DEF LimitOf, Consumed
      <4> QED BY <4>1 DEF Amount
    <3>3. CASE stating # {}
      <4>1. stating \in SUBSET (1..Len(input.results)) /\ Len(input.results) \in Nat
        BY <2>1, InputTypes
      <4>2. Consumed(d) = input.results[Latest(stating)].share
        BY <3>3 DEF Consumed
      <4> HIDE DEF stating
      <4>3. Latest(stating) \in stating
        BY <3>3, <4>1, LatestIsLast
      <4>4. Latest(stating) = l
        BY <1>1, <2>5, <3>1, <4>3 DEF stating
      <4> QED BY <4>2, <4>4 DEF LimitOf, Amount
    <3> QED BY <3>2, <3>3
  <2>7. Group(g) \subseteq Own
    BY <2>1 DEF Group
  <2> HIDE DEF g
  <2>8. PICK n \in Nat : \E order \in Bijection(1..n, DevicesIn(g)) :
            DOMAIN s[2].limits = 1..n /\ \A i \in 1..n : s[2].limits[i] = LimitOf(order[i])
    BY <2>1, <2>4, HamiEditsType
  <2>9. PICK order \in Bijection(1..n, DevicesIn(g)) :
            DOMAIN s[2].limits = 1..n /\ \A i \in 1..n : s[2].limits[i] = LimitOf(order[i])
    BY <2>8
  <2> DEFINE result == [i \in 1..n |-> CHOOSE l \in Group(g) : DeviceOf(l) = order[i]]
  <2>10. ASSUME NEW i \in 1..n
        PROVE  result[i] \in Group(g) /\ DeviceOf(result[i]) = order[i]
    <3>1. \E l \in Group(g) : DeviceOf(l) = order[i]
      BY <2>9 DEF Bijection, Surjection, DevicesIn
    <3> QED BY <3>1
  <2> HIDE DEF result
  <2>11. result \in Bijection(1..n, Group(g))
    <3>1. result \in [1..n -> Group(g)]
      BY <2>10 DEF result
    <3>2. \A i, j \in 1..n : result[i] = result[j] => i = j
      BY <2>9, <2>10 DEF Bijection, Injection, IsInjective
    <3>3. \A l \in Group(g) : \E i \in 1..n : result[i] = l
      <4> TAKE l \in Group(g)
      <4>1. PICK i \in 1..n : order[i] = DeviceOf(l)
        BY <2>9 DEF Bijection, Surjection, DevicesIn
      <4> QED BY <4>1, <2>5, <2>7, <2>10
    <3> QED BY <3>1, <3>2, <3>3 DEF Bijection, Injection, Surjection, IsInjective
  <2>12. \A i \in 1..n : s[2].limits[i] = Amount(result[i])
    BY <2>6, <2>7, <2>9, <2>10
  <2>13. DOMAIN s[2].limits = 1..n
    BY <2>9
  <2> QED BY <2>3, <2>11, <2>12, <2>13 DEF g
<1>2. Inv => LimitsComplete
  BY <1>1 DEF LimitsComplete
<1> QED BY <1>2, InvHolds, PTL

\* prepareDevices decides as ClaimAnswer says: once, by the allocation alone, and
\* with the answer that is due.
THEOREM Decides == Spec => Decided
<1>1. Unpreparable \in BOOLEAN
  BY DEF Unpreparable
<1>2. Init => Decision!Init
  BY <1>1 DEF Init, Decision!Init
<1>3. ASSUME Inv, Inv', [Next]_vars PROVE [Decision!Next]_(Decision!vars)
  <2>1. input' = input
    BY <1>3 DEF Next, vars, CollectConfig, RejectSource, EndCollection, DecodeConfig, RejectForm,
                EndDecoding, SelectConfig, RejectResult, EndSelection, ApplyConfig, RejectInvalid,
                BuildDevices, CreateClaimSpec, SpecRefused, Fail
  <2>2. Unpreparable' = Unpreparable /\ Due' = Due
    <3>1. Unpreparable' \in BOOLEAN
      BY DEF Unpreparable
    <3> QED BY <1>1, <2>1, <3>1, InputFixed
  <2>3. CASE UNCHANGED <<pc, prepared>>
    BY <2>2, <2>3 DEF Decision!vars
  <2>4. CASE pc \notin {"granted", "failed"} /\ pc' \notin {"granted", "failed"}
    BY <2>2, <2>4 DEF Decision!vars
  <2>5. CASE CreateClaimSpec
    <3>1. pc = "spec" /\ pc' = "granted" /\ prepared' = prepared /\ ~Duplicated
      BY <2>5 DEF CreateClaimSpec
    <3>2. /\ Mine = Own /\ ~Unpreparable
          /\ \A k \in Mine : HasEdits(k) <=> Shared(k)
          /\ prepared = {[result |-> k, ids |-> {StandardDevice(k)} \cup ClaimDevice(k)] : k \in Mine}
      BY <1>3, <3>1, Granted
    <3>3. \A k \in Mine : {StandardDevice(k)} \cup ClaimDevice(k)
                          = {<<"device", DeviceOf(k)>>} \cup
                            (IF Shared(k) THEN {<<"claim", DeviceOf(k)>>} ELSE {})
      BY <3>2 DEF StandardDevice, ClaimDevice
    <3>4. Due = {[result |-> k, ids |-> {<<"device", DeviceOf(k)>>} \cup
                                        (IF Shared(k) THEN {<<"claim", DeviceOf(k)>>} ELSE {})] : k \in Own}
      BY <3>2 DEF Due
    <3>5. prepared = Due
      BY <3>2, <3>3, <3>4
    <3> QED BY <2>2, <3>1, <3>2, <3>5 DEF Decision!Next, Decision!Grant
  <2>6. CASE RejectSource \/ RejectForm \/ RejectResult \/ RejectInvalid \/ SpecRefused
    <3>1. Unpreparable
      BY <1>3, <2>6, Refusal
    <3>2. pc \notin {"granted", "failed"} /\ pc' = "failed"
      BY <2>6 DEF RejectSource, Collecting, RejectForm, Decoding, RejectResult, Pending, RejectInvalid,
                  SpecRefused, Fail
    <3> QED BY <2>2, <3>1, <3>2 DEF Decision!Next, Decision!Refuse
  <2>7. CASE \/ CollectConfig \/ EndCollection \/ DecodeConfig \/ EndDecoding \/ SelectConfig
             \/ EndSelection \/ ApplyConfig \/ BuildDevices
    <3>1. pc \notin {"granted", "failed"} /\ pc' \notin {"granted", "failed"}
      BY <2>7 DEF CollectConfig, Collecting, EndCollection, DecodeConfig, Decoding, EndDecoding,
                  SelectConfig, Pending, EndSelection, ApplyConfig, BuildDevices
    <3> QED BY <2>4, <3>1
  <2> QED BY <1>3, <2>3, <2>5, <2>6, <2>7 DEF Next, vars
<1> QED BY <1>2, <1>3, InvHolds, PTL DEF Spec, Decided, Decision!Spec
====
