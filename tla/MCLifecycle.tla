----------------------------- MODULE MCLifecycle -----------------------------
(* Instances of Lifecycle for TLC. *)
EXTENDS Lifecycle

CONSTANTS ob, proxy, s1, s2

MCOrder2 == <<ob, proxy>>
MCServers1 == {s1}
MCServers2 == {s1, s2}

MCAll == {<<>>}
MCEach == {<<>>, <<proxy>>, <<ob, ob>>}
MCProxy == {<<>>, <<proxy>>, <<proxy, proxy>>}

MCNoServers == {{}}
MCOneServer == {{}, {s1}}

MCNone == {}
MCKilled == {"write", "crash", "die", "stay"}
MCFaults == {"crash", "torn", "copy", "die", "stay"}
=============================================================================
