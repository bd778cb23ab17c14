---- MODULE CheckpointFormatProofs ----
(***************************************************************************)
(* What reading a checkpoint file yields, for any claims and devices and   *)
(* any sequence of writes, upgrades, downgrades and damages.  Readable and *)
(* Faithful are inductive together: a write starts from a file its version *)
(* accepts, and a damage makes the versions that read the part refuse it,  *)
(* or takes V2 away with the started claims.                               *)
(***************************************************************************)
EXTENDS CheckpointFormat, TLAPS

Inv == TypeOK /\ Readable /\ Faithful

LEMMA ToV1Type == ASSUME NEW v2 \in V2Claims PROVE ToV1(v2) \in V1Claims
  BY DEF ToV1, V1Claims, V2Claims, V1Entries, V2Entries, NoV1

LEMMA ToV2Type == ASSUME NEW v1 \in V1Claims PROVE ToV2(v1) \in V2Claims
  BY DEF ToV2, V1Claims, V2Claims, V1Entries, V2Entries, States, NoV2

LEMMA LatestType == ASSUME TypeOK PROVE Latest(file) \in V2Claims
<1>1. CASE file.v2 = Nil
  BY <1>1, ToV2Type DEF TypeOK, Latest
<1>2. CASE file.v2 # Nil
  BY <1>2 DEF TypeOK, Latest, V2Types
<1> QED BY <1>1, <1>2

\* A file written by the new version has the right types, and both versions
\* accept it.
LEMMA Marshalled ==
    ASSUME NEW v2 \in V2Claims
    PROVE  LET f == MarshalCheckpoint(v2)
           IN  /\ f \in [checksum : Structs \cup {Nil}, v1 : V1Claims, v2 : V2Types \cup {Nil}]
               /\ OldAccepts(f) /\ NewAccepts(f)
               /\ f.v1 = ToV1(v2) /\ Latest(f) = v2
<1> DEFINE f == MarshalCheckpoint(v2)
<1>1. ToV1(v2) \in V1Claims
  BY ToV1Type
<1>2. [checksum |-> v2, claims |-> v2] \in V2Types /\ [checksum |-> v2, claims |-> v2] # Nil
  BY NilAssumption DEF V2Types
<1>3. SumV1(ToV1(v2), v2) \in Structs
  BY <1>1 DEF SumV1, Structs
<1>4. f \in [checksum : Structs \cup {Nil}, v1 : V1Claims, v2 : V2Types \cup {Nil}]
  BY <1>1, <1>2, <1>3 DEF MarshalCheckpoint
<1>5. OldAccepts(f) /\ NewAccepts(f)
  BY DEF MarshalCheckpoint, SumV1, OldAccepts, NewAccepts, VerifyChecksumV1, VerifyChecksumV2
<1>6. f.v1 = ToV1(v2) /\ Latest(f) = v2
  BY <1>2 DEF MarshalCheckpoint, Latest
<1> QED BY <1>4, <1>5, <1>6

\* The same for a file written by the old version.
LEMMA OldMarshalled ==
    ASSUME NEW v1 \in V1Claims
    PROVE  LET f == OldMarshal(v1)
           IN  /\ f \in [checksum : Structs \cup {Nil}, v1 : V1Claims, v2 : V2Types \cup {Nil}]
               /\ OldAccepts(f) /\ NewAccepts(f)
               /\ f.v1 = v1 /\ Latest(f) = ToV2(v1)
  BY DEF OldMarshal, Structs, OldAccepts, NewAccepts, VerifyChecksumV1, VerifyChecksumV2,
         Latest

LEMMA InvInit == Init => Inv
<1> SUFFICES ASSUME Init PROVE Inv
  OBVIOUS
<1> DEFINE e1 == [c \in Claims |-> NoV1]
           e2 == [c \in Claims |-> NoV2]
<1>1. e1 \in V1Claims /\ e2 \in V2Claims
  BY DEF V1Claims, V2Claims, V1Entries, V2Entries, NoV1, NoV2, States
<1>2. ToV1(e2) = e1 /\ ToV2(e1) = e2
  BY DEF ToV1, ToV2, NoV1, NoV2
<1>3. /\ file \in [checksum : Structs \cup {Nil}, v1 : V1Claims, v2 : V2Types \cup {Nil}]
      /\ OldAccepts(file) /\ NewAccepts(file)
      /\ file.v1 = e1 /\ Latest(file) = e2
  <2>1. CASE file = MarshalCheckpoint(e2)
    BY <2>1, <1>1, <1>2, Marshalled
  <2>2. CASE file = OldMarshal(e1)
    BY <2>2, <1>1, <1>2, OldMarshalled
  <2> QED BY <2>1, <2>2 DEF Init
<1> QED BY <1>3 DEF Init, Inv, TypeOK, Readable, Faithful

\* A write of the new version, whose entry comes to what the call says.
LEMMA UpdateKeeps ==
    ASSUME Inv, NEW c \in Claims, NEW entry \in V2Entries, Update(c, entry),
           completed' \in [Claims -> Devices \cup {Nil}], started' \subseteq Claims,
           \A b \in Claims \ {c} :
               completed'[b] = completed[b] /\ (b \in started' <=> b \in started),
           entry = IF completed'[c] # Nil
                   THEN [state |-> "PrepareCompleted", devices |-> completed'[c]]
                   ELSE IF c \in started' THEN [state |-> "PrepareStarted", devices |-> Nil]
                   ELSE NoV2
    PROVE  Inv'
<1> DEFINE v2 == [Latest(file) EXCEPT ![c] = entry]
<1>1. v2 \in V2Claims /\ Latest(file) \in V2Claims
  BY LatestType DEF Inv, V2Claims
<1>2. /\ file' = MarshalCheckpoint(v2)
      /\ file' \in [checksum : Structs \cup {Nil}, v1 : V1Claims, v2 : V2Types \cup {Nil}]
      /\ OldAccepts(file') /\ NewAccepts(file')
      /\ file'.v1 = ToV1(v2) /\ Latest(file') = v2
  BY <1>1, Marshalled DEF Update
<1>3. \A b \in Claims :
          v2[b] = IF completed'[b] # Nil
                  THEN [state |-> "PrepareCompleted", devices |-> completed'[b]]
                  ELSE IF b \in started' \ lost' THEN [state |-> "PrepareStarted", devices |-> Nil]
                  ELSE NoV2
  <2>1. v2[c] = entry
    BY <1>1 DEF V2Claims
  <2>2. \A b \in Claims \ {c} : v2[b] = Latest(file)[b]
    BY <1>1 DEF V2Claims
  <2> QED BY <2>1, <2>2 DEF Inv, Faithful, Update
<1>4. \A b \in Claims :
          file'.v1[b] = IF completed'[b] = Nil THEN NoV1
                        ELSE [state |-> "Present", devices |-> completed'[b]]
  <2> SUFFICES ASSUME NEW b \in Claims
               PROVE  ToV1(v2)[b] = IF completed'[b] = Nil THEN NoV1
                                    ELSE [state |-> "Present", devices |-> completed'[b]]
    BY <1>2
  <2>1. ToV1(v2)[b] = IF v2[b].state = "PrepareCompleted"
                      THEN [state |-> "Present", devices |-> v2[b].devices] ELSE NoV1
    BY DEF ToV1
  <2>2. PICK e : e = v2[b]
    OBVIOUS
  <2>3. CASE completed'[b] = Nil
    <3>1. e \in {[state |-> "PrepareStarted", devices |-> Nil], NoV2}
      BY <1>3, <2>2, <2>3
    <3>2. e.state # "PrepareCompleted"
      BY <3>1 DEF NoV2
    <3> QED BY <2>1, <2>2, <2>3, <3>2
  <2>4. CASE completed'[b] # Nil
    <3>1. e = [state |-> "PrepareCompleted", devices |-> completed'[b]]
      BY <1>3, <2>2, <2>4
    <3> QED BY <2>1, <2>2, <2>4, <3>1
  <2> QED BY <2>3, <2>4
<1>5. TypeOK'
  BY <1>2 DEF Inv, TypeOK, Update
<1> HIDE DEF v2
<1>6. Faithful'
  BY <1>2, <1>3, <1>4, Zenon DEF Faithful
<1> QED BY <1>2, <1>5, <1>6 DEF Inv, Readable

LEMMA OldUpdateKeeps ==
    ASSUME Inv, NEW c \in Claims, NEW d \in Devices \cup {Nil}, OldUpdate(c, d)
    PROVE  Inv'
<1> DEFINE e == IF d = Nil THEN NoV1 ELSE [state |-> "Present", devices |-> d]
           v1 == [file.v1 EXCEPT ![c] = e]
<1>1. v1 \in V1Claims /\ file.v1 \in V1Claims
  BY DEF Inv, TypeOK, V1Claims, V1Entries, NoV1
<1>2. /\ file' = OldMarshal(v1)
      /\ file' \in [checksum : Structs \cup {Nil}, v1 : V1Claims, v2 : V2Types \cup {Nil}]
      /\ OldAccepts(file') /\ NewAccepts(file')
      /\ file'.v1 = v1 /\ Latest(file') = ToV2(v1)
  BY <1>1, OldMarshalled DEF OldUpdate
<1>3. \A b \in Claims :
          v1[b] = IF completed'[b] = Nil THEN NoV1
                  ELSE [state |-> "Present", devices |-> completed'[b]]
  <2>1. v1[c] = e /\ \A b \in Claims \ {c} : v1[b] = file.v1[b]
    BY <1>1 DEF V1Claims
  <2> QED BY <2>1 DEF Inv, TypeOK, Faithful, OldUpdate
<1> HIDE DEF v1, e
<1>4. \A b \in Claims :
          Latest(file')[b] =
              IF completed'[b] # Nil
              THEN [state |-> "PrepareCompleted", devices |-> completed'[b]]
              ELSE NoV2
  <2> SUFFICES ASSUME NEW b \in Claims
               PROVE  ToV2(v1)[b] = IF completed'[b] # Nil
                                    THEN [state |-> "PrepareCompleted", devices |-> completed'[b]]
                                    ELSE NoV2
    BY <1>2
  <2>1. ToV2(v1)[b] = IF v1[b].state = "Present"
                      THEN [state |-> "PrepareCompleted", devices |-> v1[b].devices] ELSE NoV2
    BY DEF ToV2
  <2>2. PICK x : x = v1[b]
    OBVIOUS
  <2>3. CASE completed'[b] = Nil
    <3>1. x = NoV1
      BY <1>3, <2>2, <2>3
    <3>2. x.state # "Present"
      BY <3>1 DEF NoV1
    <3> QED BY <2>1, <2>2, <2>3, <3>2
  <2>4. CASE completed'[b] # Nil
    <3>1. x = [state |-> "Present", devices |-> completed'[b]]
      BY <1>3, <2>2, <2>4
    <3> QED BY <2>1, <2>2, <2>4, <3>1
  <2> QED BY <2>3, <2>4
<1>5. TypeOK' /\ started' = {}
  BY <1>2 DEF Inv, TypeOK, OldUpdate
<1> QED BY <1>2, <1>3, <1>4, <1>5 DEF Inv, Readable, Faithful

\* Without V2 the file reads as V1 says: completed claims as before, and no
\* other ones.
LEMMA LossKeeps ==
    ASSUME Inv, intact, file.v2 # Nil, file' = [file EXCEPT !.v2 = Nil], lost' = started,
           intact' = FALSE, UNCHANGED <<version, completed, started>>
    PROVE  Inv'
<1>1. /\ file'.v1 = file.v1 /\ file'.checksum = file.checksum /\ file'.v2 = Nil
      /\ OldAccepts(file') = OldAccepts(file) /\ Latest(file') = ToV2(file.v1)
  BY DEF Inv, TypeOK, OldAccepts, VerifyChecksumV1, Latest
<1>2. \A b \in Claims :
          file.v1[b] = IF completed[b] = Nil THEN NoV1
                       ELSE [state |-> "Present", devices |-> completed[b]]
  BY DEF Inv, Readable, Faithful
<1>3. \A b \in Claims :
          ToV2(file.v1)[b] = IF completed[b] # Nil
                             THEN [state |-> "PrepareCompleted", devices |-> completed[b]]
                             ELSE NoV2
  <2> SUFFICES ASSUME NEW b \in Claims
               PROVE  ToV2(file.v1)[b] = IF completed[b] # Nil
                          THEN [state |-> "PrepareCompleted", devices |-> completed[b]]
                          ELSE NoV2
    OBVIOUS
  <2>1. ToV2(file.v1)[b] =
            IF file.v1[b].state = "Present"
            THEN [state |-> "PrepareCompleted", devices |-> file.v1[b].devices] ELSE NoV2
    BY DEF ToV2
  <2>2. PICK x : x = file.v1[b]
    OBVIOUS
  <2>3. CASE completed[b] = Nil
    <3>1. x = NoV1
      BY <1>2, <2>2, <2>3
    <3>2. x.state # "Present"
      BY <3>1 DEF NoV1
    <3> QED BY <2>1, <2>2, <2>3, <3>2
  <2>4. CASE completed[b] # Nil
    <3>1. x = [state |-> "Present", devices |-> completed[b]]
      BY <1>2, <2>2, <2>4
    <3> QED BY <2>1, <2>2, <2>4, <3>1
  <2> QED BY <2>3, <2>4
<1>4. started' \ lost' = {}
  OBVIOUS
<1>5. TypeOK'
  BY <1>1 DEF Inv, TypeOK
<1> QED BY <1>1, <1>2, <1>3, <1>4, <1>5 DEF Inv, Readable, Faithful

LEMMA DamageKeeps == ASSUME Inv, Damage PROVE Inv'
<1> USE DEF Inv, TypeOK, Readable, OldAccepts, NewAccepts, VerifyChecksumV1, VerifyChecksumV2,
           Corrupt
<1>1. /\ file.checksum = [v1 |-> file.v1, v2 |-> Nil]
      /\ file.v2 # Nil => file.v2.checksum = file.v2.claims
  BY DEF Damage
<1>2. ASSUME UNCHANGED lost, NEW v1 \in V1Claims \ {file.v1}, file' = [file EXCEPT !.v1 = v1] PROVE Inv'
  <2>1. file'.checksum # [v1 |-> file'.v1, v2 |-> Nil]
    BY <1>1, <1>2
  <2> QED BY <1>2, <2>1 DEF Damage, Faithful
<1>3. ASSUME UNCHANGED lost, file' = [file EXCEPT !.checksum = Nil] PROVE Inv'
  <2>1. [v1 |-> file'.v1, v2 |-> Nil] \in Structs
    BY <1>3 DEF Structs
  <2>2. file'.checksum # [v1 |-> file'.v1, v2 |-> Nil]
    BY <1>3, <2>1, NilAssumption
  <2> QED BY <1>3, <2>2 DEF Damage, Faithful
<1>4. ASSUME UNCHANGED lost, file.v2 # Nil, NEW v2 \in V2Claims \ {file.v2.claims},
             file' = [file EXCEPT !.v2.claims = v2]
      PROVE  Inv'
  <2>1. /\ file'.v1 = file.v1 /\ file'.checksum = file.checksum
        /\ file'.v2 \in V2Types /\ file'.v2.checksum # file'.v2.claims
    BY <1>1, <1>4 DEF V2Types
  <2>2. file'.v2 # Nil
    BY <2>1, NilAssumption
  <2>3. TypeOK'
    BY <1>4, <2>1 DEF Damage
  <2> QED BY <2>1, <2>2, <2>3 DEF Damage, Faithful
<1>5. ASSUME UNCHANGED lost, file.v2 # Nil, file' = [file EXCEPT !.v2.checksum = Nil] PROVE Inv'
  <2>1. /\ file'.v1 = file.v1 /\ file'.checksum = file.checksum
        /\ file'.v2 \in V2Types /\ file'.v2.checksum = Nil /\ file'.v2.claims \in V2Claims
    BY <1>5 DEF V2Types
  <2>2. file'.v2 # Nil /\ file'.v2.checksum # file'.v2.claims
    BY <2>1, NilAssumption
  <2>3. TypeOK'
    BY <1>5, <2>1 DEF Damage
  <2> QED BY <2>1, <2>2, <2>3 DEF Damage, Faithful
<1>6. ASSUME file.v2 # Nil, file' = [file EXCEPT !.v2 = Nil], lost' = started PROVE Inv'
  BY <1>6, LossKeeps DEF Damage
<1> QED BY <1>2, <1>3, <1>4, <1>5, <1>6 DEF Damage

LEMMA InvNext == Inv /\ [Next]_vars => Inv'
<1> SUFFICES ASSUME Inv, [Next]_vars PROVE Inv'
  OBVIOUS
<1>1. ASSUME NEW c \in Claims, Start(c) PROVE Inv'
  BY <1>1, UpdateKeeps DEF Start, Update, Inv, TypeOK, V2Entries, States
<1>2. ASSUME NEW c \in Claims, NEW d \in Devices, Complete(c, d) PROVE Inv'
  BY <1>2, UpdateKeeps, NilAssumption DEF Complete, Inv, TypeOK, V2Entries, States
<1>3. ASSUME NEW c \in Claims, Forget(c) PROVE Inv'
  BY <1>3, UpdateKeeps DEF Forget, Inv, TypeOK, V2Entries, States, NoV2
<1>4. ASSUME NEW c \in Claims, NEW d \in Devices \cup {Nil}, OldUpdate(c, d) PROVE Inv'
  BY <1>4, OldUpdateKeeps
<1>5. CASE Install
  BY <1>5 DEF Install, Inv, TypeOK, Readable, Faithful
<1>6. CASE Damage
  BY <1>6, DamageKeeps
<1>7. CASE UNCHANGED vars
  BY <1>7 DEF vars, Inv, TypeOK, Readable, Faithful
<1> QED BY <1>1, <1>2, <1>3, <1>4, <1>5, <1>6, <1>7 DEF Next

LEMMA Invariance == Spec => []Inv
  BY InvInit, InvNext, PTL DEF Spec

\* Every variable of CheckpointFormat keeps its type.
THEOREM TypeCorrect == Spec => []TypeOK
<1>1. Inv => TypeOK
  BY DEF Inv
<1> QED BY <1>1, Invariance, PTL

\* No sequence of upgrades and downgrades leaves a file a version refuses.
THEOREM AlwaysReadable == Spec => []Readable
<1>1. Inv => Readable
  BY DEF Inv
<1> QED BY <1>1, Invariance, PTL

\* An accepted file says what the calls so far come to, whatever part of it was
\* damaged; the one damage no checksum notices takes the started claims away.
THEOREM ReadsFaithfully == Spec => []Faithful
<1>1. Inv => Faithful
  BY DEF Inv
<1> QED BY <1>1, Invariance, PTL
====
