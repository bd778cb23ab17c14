---- MODULE MCMpsDaemon ----
(***************************************************************************)
(* Two GPUs: an MPS claim over both, and a claim with time slicing that    *)
(* has one of them before or after it.                                     *)
(***************************************************************************)
EXTENDS MpsDaemon, TLC

CONSTANTS both, sliced, g1, g2

ClaimGpus == (both :> {g1, g2}) @@ (sliced :> {g2})
ClaimSharing == (both :> "mps") @@ (sliced :> "timeSlicing")
====
