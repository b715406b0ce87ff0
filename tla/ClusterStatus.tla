---------------------------- MODULE ClusterStatus ----------------------------
(***************************************************************************)
(* ObdHome.cluster_status_check (src/core.py): the status of a cluster,    *)
(* computed from the status of every server of every component.  Python    *)
(* uses 1 for running, 0 for stopped and False for "not all the same", and *)
(* compares them with != and with ==, for which False and 0 are equal.     *)
(***************************************************************************)
EXTENDS Integers, Sequences

Running == "1"
Stopped == "0"
Mixed   == "False"

\* Python's == on these values.
PyEqual(a, b) == a = b \/ {a, b} = {Stopped, Mixed}

\* The status of one component, from the set of its servers that run.
ComponentStatus(servers, running) ==
    IF servers \subseteq running THEN Running
    ELSE IF servers \cap running = {} THEN Stopped
    ELSE Mixed

\* Mutant of ClusterStatusOf: the first component speaks for all of them.
FirstStatus(statuses) == statuses[1]

\* The status of the components, in the order of the repositories: the first
\* one if every other one is equal to it, else False.
ClusterStatusOf(statuses) ==
    IF \A i \in DOMAIN statuses : PyEqual(statuses[1], statuses[i])
    THEN statuses[1] ELSE Mixed
=============================================================================
