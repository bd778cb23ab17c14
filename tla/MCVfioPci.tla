---- MODULE MCVfioPci ----
(***************************************************************************)
(* Two callers that switch one or two GPUs, with two failing writes.       *)
(***************************************************************************)
EXTENDS VfioPci

CONSTANTS g1, g2, k1, k2
====
