---- MODULE ClaimJournal ----
(***************************************************************************)
(* What the node's claim journal promises, with no lock, no handler, no    *)
(* device and no file in sight.  Every claim has an entry in the journal   *)
(* (the checkpoint file of the plugin) and may or may not have left traces *)
(* on the host: device settings, claim directories, a CDI spec file.       *)
(*                                                                         *)
(* The journal is a write-ahead journal: traces are made and removed only  *)
(* under an entry, an entry is completed only from a started one, and it   *)
(* is dropped only when the host is clean.  DeviceState implements this.   *)
(***************************************************************************)
CONSTANT Claims

VARIABLES
    journal,    \* [Claims -> {"Absent", "PrepareStarted", "PrepareCompleted"}]
    traces      \* the claims with something left on the host

vars == <<journal, traces>>

Init == journal = [c \in Claims |-> "Absent"] /\ traces = {}

\* Preparation starts, or starts again: a retry finds a started entry, a
\* repeated Prepare a completed one.  The entry is written first.
Begin(c) ==
    /\ journal' = [journal EXCEPT ![c] = "PrepareStarted"]
    /\ UNCHANGED traces

\* Preparation leaves its first trace on the host.
Touch(c) ==
    /\ journal[c] = "PrepareStarted"
    /\ traces' = traces \cup {c}
    /\ UNCHANGED journal

Complete(c) ==
    /\ journal[c] = "PrepareStarted"
    /\ journal' = [journal EXCEPT ![c] = "PrepareCompleted"]
    /\ UNCHANGED traces

\* Unpreparation removes the last trace.  Only completed claims are cleaned.
Clear(c) ==
    /\ journal[c] = "PrepareCompleted"
    /\ traces' = traces \ {c}
    /\ UNCHANGED journal

Forget(c) ==
    /\ journal[c] = "PrepareCompleted"
    /\ c \notin traces
    /\ journal' = [journal EXCEPT ![c] = "Absent"]
    /\ UNCHANGED traces

Next == \E c \in Claims : Begin(c) \/ Touch(c) \/ Complete(c) \/ Clear(c) \/ Forget(c)

Spec == Init /\ [][Next]_vars
====
