---- MODULE MCPrepareDevices ----
(* Claims of two requests on a node with a GPU, a VFIO device and a MIG device  *)
(* that is gone, and on a node with two HAMi GPUs: every list of up to two      *)
(* configs with every list of up to two results, every list of three            *)
(* well-formed configs with one result, and for HAMi shares and a result of     *)
(* another driver.                                                              *)
EXTENDS PrepareDevices, TLC

CONSTANTS r1, r2, gpu, vfio, mig, hami1, hami2

MCRequests == {r1, r2}
MCDevices == {gpu, vfio, mig, hami1, hami2}
MCTypeOf == gpu :> "gpu" @@ vfio :> "vfio" @@ mig :> "mig" @@ hami1 :> "hami-gpu" @@ hami2 :> "hami-gpu"

Config(source, requests, form, valid) ==
    [source |-> source, requests |-> requests, form |-> form, valid |-> valid]
Typed(forms) ==
    {Config(s, rs, f, TRUE) : s \in {"class", "claim"}, rs \in {{}, {r1}}, f \in forms}
Odd == {Config("other", {}, "gpu", TRUE), Config("class", {}, "nil", TRUE),
        Config("claim", {r1}, "undecodable", TRUE), Config("claim", {r2}, "gpu", FALSE),
        Config("class", {}, "mps", FALSE), Config("claim", {}, "unknown", TRUE)}
Res(request, device, own, share) ==
    [request |-> request, device |-> device, own |-> own, share |-> share]
Lists(S, n) == UNION {[1..m -> S] : m \in 0..n}

Plain ==
    LET results == {Res(r, d, TRUE, "unset") : r \in MCRequests, d \in {gpu, vfio}}
                   \cup {Res(r1, mig, TRUE, "unset"), Res(r2, gpu, FALSE, "unset")}
        forms == {"gpu", "mps", "vfio", "foreign"}
        Allocations(cs, rs) ==
            [configs : cs, results : rs, allocatable : {{gpu, vfio}},
             gates : {{"PassthroughSupport", "MPSSupport"}}]
    IN Allocations(Lists(Typed(forms) \cup Odd, 2), Lists(results, 2))
       \cup Allocations(Lists(Typed(forms), 3), Lists(results, 1))

Sharing ==
    [configs : Lists(Typed({"gpu", "mps", "vfio"}) \cup Odd, 1),
     results : Lists({Res(r, d, TRUE, s) : r \in MCRequests, d \in {hami1, hami2},
                                           s \in {"unset", "30", "50"}}
                     \cup {Res(r1, hami1, FALSE, "50"), Res(r1, hami2, TRUE, "fraction")}, 3),
     allocatable : {{hami1, hami2}}, gates : {{"HAMiCoreSupport"}}]

MCInputs == Plain \cup Sharing
====
