---------------------------- MODULE UpgradePromise ----------------------------
(***************************************************************************)
(* What upgrading a cluster along a route promises, whatever interrupts    *)
(* it: every zone goes through the same stages in the same order, no zone  *)
(* enters a stage before all have entered the one before it, and a version *)
(* is recorded for the deployment when all zones have it.                  *)
(***************************************************************************)
EXTENDS Integers, FiniteSetsExt

CONSTANTS
    AllZones,     \* the zones that clusters may have
    Last          \* the newest version of the route; the oldest is 0

VARIABLES
    zones,        \* the zones of this cluster
    stages,       \* the versions that zones are given on the way
    version,      \* the version of each zone
    recorded      \* the version recorded for the deployment

Init ==
    /\ zones \in (SUBSET AllZones) \ {{}}
    /\ stages \in {S \cup {Last} : S \in SUBSET (1..Last)}
    /\ version = [z \in zones |-> 0]
    /\ recorded = 0

Lowest == Min({version[z] : z \in zones})

\* The zones that are behind go on to the next stage.
Advance ==
    \E z \in zones :
        /\ version[z] = Lowest /\ Lowest < Last
        /\ version' = [version EXCEPT ![z] = Min({s \in stages : s > Lowest})]
    /\ UNCHANGED <<zones, stages, recorded>>

AdvanceAll ==
    /\ Lowest < Last
    /\ \A z \in zones : version[z] = Lowest
    /\ version' = [z \in zones |-> Min({s \in stages : s > Lowest})]
    /\ UNCHANGED <<zones, stages, recorded>>

Record ==
    /\ \A z \in zones : version[z] = Last
    /\ recorded' = Last
    /\ UNCHANGED <<zones, stages, version>>

Spec == Init /\ [][Advance \/ AdvanceAll \/ Record]_<<zones, stages, version, recorded>>
=============================================================================
