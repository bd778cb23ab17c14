---- MODULE PassthroughHistory ----
(***************************************************************************)
(* DeviceState with a memory of the preparations that ended between the    *)
(* first config and the hiding of the twins: prepareDevices returns from   *)
(* its apply loop (device_state.go:401-433), and RemoveSiblingDevices at   *)
(* 209-218 is not reached.  A GPU such a claim has bound to vfio-pci stays *)
(* so, and its twin stays in allocatable.                                  *)
(***************************************************************************)
EXTENDS DeviceState

VARIABLE abandoned      \* history: claims whose last preparation ended there

watchedVars == <<vars, abandoned>>

HistoryInit == Init /\ abandoned = {}

\* The apply loop is left, by an error, a panic or a crash, or it is done.
LeftBy(h) == pc[h] = "pApply" /\ pc'[h] = "idle"
DoneBy(h) == pc[h] = "pApply" /\ pc'[h] = "pSpec"

Remember ==
    abandoned' = (abandoned \cup {claim[h] : h \in {k \in Handlers : LeftBy(k)}})
                 \ {claim[h] : h \in {k \in Handlers : DoneBy(k)}}

HistoryNext == Next /\ Remember

HistorySpec == HistoryInit /\ [][HistoryNext]_watchedVars

----------------------------------------------------------------------------
\* A GPU handed to a claim as a GPU is not bound to vfio-pci by another claim:
\* not by one that is prepared or being prepared, nor by one whose preparation
\* failed once the twins were hidden, nor by one whose release failed on the way.
\* The exception is a claim that was abandoned in the apply loop.
GpuNotBound ==
    \A c \in Claims : told[c] = "prepared" /\ c \notin torn =>
        \A d \in DevicesOfClaim(c), x \in Claims \ abandoned :
            TypeOf[d] = "gpu" => d \notin BoundBy(x)
====
