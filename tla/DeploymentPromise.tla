-------------------------- MODULE DeploymentPromise --------------------------
(***************************************************************************)
(* What obd promises about a deployment, whatever its commands do on the   *)
(* way and wherever they fail: servers run only while the deployment is    *)
(* recorded as live (deployed, running or stopped), so that a deployment   *)
(* recorded as configured or destroyed can be deployed again, edited       *)
(* freely or pruned without a server of it being left behind.              *)
(***************************************************************************)
CONSTANT Instances  \* the servers of every component

VARIABLES
    phase,   \* what is recorded
    serving  \* the instances that run

vars == <<phase, serving>>

TypeOK ==
    /\ phase \in {"absent", "configured", "live", "destroyed"}
    /\ serving \subseteq Instances

Init == phase = "absent" /\ serving = {}

Register ==
    /\ phase = "absent" /\ phase' = "configured"
    /\ UNCHANGED serving

Deploy ==
    /\ phase \in {"configured", "destroyed"} /\ phase' = "live"
    /\ UNCHANGED serving

\* Any command that starts or stops servers, and a server that dies.
Work ==
    /\ phase = "live" /\ serving' \in SUBSET Instances
    /\ UNCHANGED phase

Destroy ==
    /\ phase = "live" /\ serving = {} /\ phase' = "destroyed"
    /\ UNCHANGED serving

Prune ==
    /\ phase \in {"configured", "destroyed"} /\ phase' = "absent"
    /\ UNCHANGED serving

Next == Register \/ Deploy \/ Work \/ Destroy \/ Prune

Spec == Init /\ [][Next]_vars
=============================================================================
