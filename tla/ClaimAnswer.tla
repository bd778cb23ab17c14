---- MODULE ClaimAnswer ----
(***************************************************************************)
(* What prepareDevices promises, with no list, loop, config or map in      *)
(* sight.  An allocation has a fault or not, and an answer that is due to  *)
(* it; a call answers with this or refuses, once, and nothing else decides *)
(* between the two.  The kubelet calls again after a restart or a lost     *)
(* answer, so another call must not decide otherwise.                      *)
(***************************************************************************)
VARIABLES
    faulty,     \* the allocation has a reason to be refused
    due,        \* the answer to it
    outcome,    \* "pending", "granted" or "failed"
    answer      \* the answer given

vars == <<faulty, due, outcome, answer>>

Init == faulty \in BOOLEAN /\ outcome = "pending" /\ answer = {}

Grant ==
    /\ outcome = "pending" /\ ~faulty
    /\ outcome' = "granted" /\ answer' = due
    /\ UNCHANGED <<faulty, due>>

Refuse ==
    /\ outcome = "pending" /\ faulty
    /\ outcome' = "failed"
    /\ UNCHANGED <<faulty, due, answer>>

Next == Grant \/ Refuse

Spec == Init /\ [][Next]_vars
====
