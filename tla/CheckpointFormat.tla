---- MODULE CheckpointFormat ----
(***************************************************************************)
(* The checkpoint file: checkpoint.go and checkpointv.go of                *)
(* cmd/hami-kubelet-plugin.  It holds every version of the data side by    *)
(* side, so that the node can go back to a plugin that knows V1 only.      *)
(*                                                                         *)
(* A map of claims is a total function whose entry says that a claim is    *)
(* not in it.  A checksum is what it was computed over: two contents never *)
(* have the same one.                                                      *)
(***************************************************************************)
CONSTANTS Claims, Devices, Nil

States == {"Unset", "PrepareStarted", "PrepareCompleted"}
V1Entries == [state : {"Unset", "Present"}, devices : Devices \cup {Nil}]
V2Entries == [state : States, devices : Devices \cup {Nil}]

\* What the fields of a file hold; the checksum of V1 covers the whole struct
\* without V2, that of V2 its claims.
V1Claims == [Claims -> V1Entries]
V2Claims == [Claims -> V2Entries]
Structs == [v1 : V1Claims, v2 : {Nil}]
V2Types == [checksum : V2Claims \cup {Nil}, claims : V2Claims]

ASSUME NilAssumption ==
    Nil \notin Devices /\ Nil \notin Structs /\ Nil \notin V2Claims /\ Nil \notin V2Types

VARIABLES
    file,       \* the checkpoint file
    version,    \* the version of the plugin: "old" knows V1, "new" V1 and V2
    \* history: what the calls since the file was created come to
    completed,  \* claim -> the devices it was completed with, or Nil
    started,    \* claims whose preparation was started
    intact,     \* no part of the file was changed on the disk
    lost        \* started claims whose entries went with a V2 that vanished

vars == <<file, version, completed, started, intact, lost>>

\* The types of the variables.
TypeOK ==
    /\ file \in [checksum : Structs \cup {Nil}, v1 : V1Claims, v2 : V2Types \cup {Nil}]
    /\ version \in {"old", "new"}
    /\ completed \in [Claims -> Devices \cup {Nil}]
    /\ started \subseteq Claims
    /\ intact \in BOOLEAN
    /\ lost \subseteq Claims

----------------------------------------------------------------------------
NoV1 == [state |-> "Unset", devices |-> Nil]
NoV2 == [state |-> "Unset", devices |-> Nil]

\* Variant: the entries of V1 are taken over as they are.
ToV2Copied(v1) == v1

ToV2(v1) ==
    [c \in Claims |-> IF v1[c].state = "Present"
                      THEN [state |-> "PrepareCompleted", devices |-> v1[c].devices] ELSE NoV2]

ToV1(v2) ==
    [c \in Claims |-> IF v2[c].state = "PrepareCompleted"
                      THEN [state |-> "Present", devices |-> v2[c].devices] ELSE NoV1]

\* ToLatestVersion: V2 if there is one.
Latest(f) == IF f.v2 # Nil THEN f.v2.claims ELSE ToV2(f.v1)

\* Variant: the checksum of V1 is computed with V2 in place.
WholeSum(v1, claims) == [v1 |-> v1, v2 |-> claims]

\* SetChecksumV1 takes V2 out of the struct first.
SumV1(v1, claims) == [v1 |-> v1, v2 |-> Nil]

MarshalCheckpoint(claims) ==
    [checksum |-> SumV1(ToV1(claims), claims), v1 |-> ToV1(claims),
     v2 |-> [checksum |-> claims, claims |-> claims]]

VerifyChecksumV1(f) == f.checksum = [v1 |-> f.v1, v2 |-> Nil]

\* Variant: a V2 that does not match its checksum falls back to V1.
VerifyNoV2(f) == TRUE

VerifyChecksumV2(f) == f.v2 # Nil => f.v2.checksum = f.v2.claims

\* A plugin that knows V1 only has the same struct without V2.
OldMarshal(v1) == [checksum |-> [v1 |-> v1, v2 |-> Nil], v1 |-> v1, v2 |-> Nil]
OldAccepts(f) == VerifyChecksumV1(f)
NewAccepts(f) == VerifyChecksumV1(f) /\ VerifyChecksumV2(f)

----------------------------------------------------------------------------
\* createCheckpoint of an empty Checkpoint; an older plugin may have been first.
Init ==
    /\ version \in {"old", "new"}
    /\ file = IF version = "new" THEN MarshalCheckpoint([c \in Claims |-> NoV2])
                                 ELSE OldMarshal([c \in Claims |-> NoV1])
    /\ completed = [c \in Claims |-> Nil]
    /\ started = {} /\ intact = TRUE /\ lost = {}

\* getCheckpoint refuses a file whose checksums do not match; createCheckpoint
\* writes all of it.
Update(c, entry) ==
    /\ version = "new" /\ NewAccepts(file)
    /\ file' = MarshalCheckpoint([Latest(file) EXCEPT ![c] = entry])
    /\ intact' = TRUE /\ lost' = lost \ {c} /\ UNCHANGED version

Start(c) ==
    /\ Update(c, [state |-> "PrepareStarted", devices |-> Nil])
    /\ started' = started \cup {c} /\ completed' = [completed EXCEPT ![c] = Nil]

Complete(c, d) ==
    /\ Update(c, [state |-> "PrepareCompleted", devices |-> d])
    /\ started' = started \ {c} /\ completed' = [completed EXCEPT ![c] = d]

Forget(c) ==
    /\ Update(c, NoV2)
    /\ started' = started \ {c} /\ completed' = [completed EXCEPT ![c] = Nil]

\* The older plugin has no started claims: it writes a claim when it is prepared
\* and removes it when it is unprepared, and it drops what it does not know.
OldUpdate(c, d) ==
    /\ version = "old" /\ OldAccepts(file)
    /\ file' = OldMarshal([file.v1 EXCEPT ![c] =
                    IF d = Nil THEN NoV1 ELSE [state |-> "Present", devices |-> d]])
    /\ started' = {} /\ completed' = [completed EXCEPT ![c] = d]
    /\ intact' = TRUE /\ lost' = {} /\ UNCHANGED version

\* Another version of the plugin is installed; it finds the file it finds.
Install ==
    /\ version' \in {"old", "new"} \ {version}
    /\ UNCHANGED <<file, completed, started, intact, lost>>

\* A checksum, or what one of them was computed over, is something else.
Corrupt ==
    \/ \E v1 \in V1Claims \ {file.v1} : file' = [file EXCEPT !.v1 = v1]
    \/ file' = [file EXCEPT !.checksum = Nil]
    \/ /\ file.v2 # Nil
       /\ \/ \E v2 \in V2Claims \ {file.v2.claims} : file' = [file EXCEPT !.v2.claims = v2]
          \/ file' = [file EXCEPT !.v2.checksum = Nil]

\* One part of the file is not what was written.  A file without V2 is what a
\* plugin that knows V1 only writes, so a V2 that vanished is noticed by no one.
Damage ==
    /\ intact /\ intact' = FALSE
    /\ \/ /\ file.v2 # Nil /\ file' = [file EXCEPT !.v2 = Nil]
          /\ lost' = started
       \/ Corrupt /\ UNCHANGED lost
    /\ UNCHANGED <<version, completed, started>>

Next ==
    \/ \E c \in Claims :
          \/ Start(c) \/ Forget(c)
          \/ \E d \in Devices : Complete(c, d)
          \/ \E d \in Devices \cup {Nil} : OldUpdate(c, d)
    \/ Install \/ Damage

Spec == Init /\ [][Next]_vars

----------------------------------------------------------------------------
\* A file that was not damaged is accepted by both versions, whichever versions
\* wrote it before: an upgrade or a downgrade never stops the plugin.
Readable == intact => OldAccepts(file) /\ NewAccepts(file)

\* What a version reads from a file it accepts is what the calls so far come to,
\* damaged or not: each completed claim with its devices and no other, and for
\* the new version the started claims that no older plugin has dropped since.
\* One damage is not noticed and costs something: when the V2 object is gone, the
\* new version reads V1, and a claim that was started is not there any more.
Faithful ==
    /\ OldAccepts(file) =>
          \A c \in Claims :
              file.v1[c] = IF completed[c] = Nil THEN NoV1
                           ELSE [state |-> "Present", devices |-> completed[c]]
    /\ NewAccepts(file) =>
          \A c \in Claims :
              Latest(file)[c] =
                  IF completed[c] # Nil
                  THEN [state |-> "PrepareCompleted", devices |-> completed[c]]
                  ELSE IF c \in started \ lost THEN [state |-> "PrepareStarted", devices |-> Nil]
                  ELSE NoV2
====
