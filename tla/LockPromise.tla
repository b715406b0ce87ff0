----------------------------- MODULE LockPromise -----------------------------
(***************************************************************************)
(* What the file locks of obd promise to the commands that use them: a     *)
(* command reads under a shared lock and writes under an exclusive one; a  *)
(* command writes a path while no other command reads or writes it.  How   *)
(* the promise is kept (counters, the conversion of a shared lock and back,*)
(* retries) is the business of MixLock, which implements this module.      *)
(***************************************************************************)
CONSTANTS Procs, Paths

VARIABLES
    reading,  \* the processes that may read each path
    writing   \* the processes that may write each path

vars == <<reading, writing>>

TypeOK ==
    /\ reading \in [Paths -> SUBSET Procs]
    /\ writing \in [Paths -> SUBSET Procs]

Init ==
    /\ reading = [l \in Paths |-> {}]
    /\ writing = [l \in Paths |-> {}]

Read(p, l) ==
    /\ writing[l] \subseteq {p}
    /\ reading' = [reading EXCEPT ![l] = @ \cup {p}]
    /\ UNCHANGED writing

\* A command that read the path before it writes it stopped reading while it
\* waited, so that what it read may be out of date.
Write(p, l) ==
    /\ reading[l] \cup writing[l] \subseteq {p}
    /\ writing' = [writing EXCEPT ![l] = {p}]
    /\ \/ UNCHANGED reading
       \/ reading' = [reading EXCEPT ![l] = {p}]

\* A command may give up any of its rights, at any time.
Leave(p) ==
    /\ reading' \in [Paths -> SUBSET Procs] /\ writing' \in [Paths -> SUBSET Procs]
    /\ \A l \in Paths : /\ reading'[l] \in {reading[l], reading[l] \ {p}}
                        /\ writing'[l] \in {writing[l], writing[l] \ {p}}

Next == \E p \in Procs : Leave(p) \/ \E l \in Paths : Read(p, l) \/ Write(p, l)

Spec == Init /\ [][Next]_vars

\* A command that writes a path is alone on it.
WriterAlone ==
    \A l \in Paths : \A p \in writing[l] : reading[l] \cup writing[l] \subseteq {p}
=============================================================================
