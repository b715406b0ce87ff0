-------------------------- MODULE MCComponentChange --------------------------
(* An instance of ComponentChange for TLC: a database that may grow by a      *)
(* server, and two components that may be added.  `base` plays ob-configserver *)
(* (the others come to depend on it when it is added) and prometheus (the     *)
(* deletion of `user` works on it); `user` plays the proxy and alertmanager.  *)
EXTENDS ComponentChange

CONSTANTS ob, base, user, s, t

MCInitial  == {<<ob, s>>}
MCSites    == {<<ob, s>>, <<ob, t>>, <<base, s>>, <<user, s>>}
MCDeclared == {<<user, base>>}
MCPulled   == {<<ob, base>>, <<user, base>>}
MCErasable == {base, user}
MCGrowable == {ob}
MCKinds    == {"crash", "write", "torn", "die", "stay"}
=============================================================================
