---- MODULE MCDriver ----
(***************************************************************************)
(* A small node for Driver: gpu0 and gpu1, each with a VFIO twin.  c1      *)
(* takes gpu0, c2 the twin of it.                                          *)
(***************************************************************************)
EXTENDS Driver, TLC

CONSTANTS c1, c2, gA, gB

NodeDevices == {"gpu0", "gpu1", "vfio0", "vfio1"}
NodeTypes == [d \in NodeDevices |-> IF d \in {"vfio0", "vfio1"} THEN "vfio" ELSE "gpu"]
NodeBuses == [d \in NodeDevices |-> IF d \in {"gpu0", "vfio0"} THEN 0 ELSE 1]

GroupDevices == (gA :> {"gpu0"}) @@ (gB :> {"vfio0"})
ClaimGroups == (c1 :> {gA}) @@ (c2 :> {gB})
GroupSharing == [g \in Groups |-> "none"]

\* Every manager there is; or none, as the committed NewDeviceState leaves them.
FullBuild == {Gates}
SomeBuilds == {Gates, {}}
HandlerSymmetry == Permutations(Handlers)
====
