---- MODULE MCPassthrough ----
(***************************************************************************)
(* The node and the claims of MCDeviceState, for PassthroughHistory.       *)
(***************************************************************************)
EXTENDS MCDeviceState, PassthroughHistory

\* Of the GPUs only that of c3 has a config that does something on the host: c3
\* may fail with its vfio device bound.
TwinSharing == [g \in Groups |-> IF g = gX THEN "timeSlicing" ELSE "none"]
====
