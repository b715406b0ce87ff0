------------------------------ MODULE MCUpgrade ------------------------------
(* Instances of Upgrade for TLC. *)
EXTENDS Upgrade

CONSTANTS z1, z2, z3

MCZones == {z1, z2, z3}

\* Three zones are upgraded one by one, two at once; in one hop or in two.
MCPlans == [zones : {<<z1, z2>>, <<z1, z2, z3>>}, required : SUBSET (1..(Last - 1))]
MCAllFaults == {"step", "signal", "kill", "meta", "stay"}
=============================================================================
