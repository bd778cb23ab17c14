---- MODULE MCDeviceState ----
(***************************************************************************)
(* Small nodes for DeviceState: gpu0 and gpu1, each with a VFIO twin,      *)
(* gpu2 without one, and two or three claims.                              *)
(***************************************************************************)
EXTENDS DeviceState, TLC

CONSTANTS c1, c2, c3, gA, gB, gC, gD, gE, gX

\* The handlers are interchangeable.
HandlerSymmetry == Permutations(Handlers)

NodeDevices == {"gpu0", "gpu1", "gpu2", "vfio0", "vfio1"}
NodeTypes == [d \in NodeDevices |-> IF d \in {"vfio0", "vfio1"} THEN "vfio" ELSE "gpu"]
NodeBuses == [d \in NodeDevices |->
                CASE d \in {"gpu0", "vfio0"} -> 0 [] d \in {"gpu1", "vfio1"} -> 1 [] OTHER -> 2]

GroupDevices ==
    (gA :> {"gpu0"}) @@ (gB :> {"gpu1"}) @@ (gC :> {"vfio0"}) @@ (gD :> {"gpu1"})
    @@ (gE :> {"vfio1"}) @@ (gX :> {"gpu2"})
GroupSharing == [g \in Groups |-> IF g = gB THEN "mps" ELSE
                                  IF g \in {gC, gE} THEN "none" ELSE "timeSlicing"]

\* c1 takes two GPUs under two configs; c2 shares one of them, as HAMi allows.
SharedClaims == (c1 :> {gA, gB}) @@ (c2 :> {gD})
\* c1 takes two GPUs, c2 the VFIO twin of one; c3, whose second config may be
\* invalid, the twin of the other.
TwinClaims == (c1 :> {gA, gB}) @@ (c2 :> {gC}) @@ (c3 :> {gE, gX})

\* Every manager there is; or none, as the committed NewDeviceState leaves them.
FullBuild == {Gates}
SomeBuilds == {Gates, {}}
====
