------------------------------ MODULE MCMixLock ------------------------------
(* Instances of MixLock for TLC. *)
EXTENDS MixLock

CONSTANTS p1, p2, p3, g, d, inner, main

MCUnset == {EnvString("")}

MCThree == {p1, p2, p3}
MCTwo == {p1, p2}
MCBothPaths == {g, d}
MCDeploy == {d}
MCOneHome == {main}
MCTwoHomes == {main, inner}
MCDev == {p1}
MCForever == {p1}
MCNone == {}

=============================================================================
