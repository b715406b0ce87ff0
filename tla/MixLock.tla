------------------------------- MODULE MixLock -------------------------------
(***************************************************************************)
(* The file locks of obd (src/_lock.py).  Every obd command is a process.  *)
(* Inside a process one MixLock per path counts the shared and exclusive   *)
(* requests for that path and maps them to one flock(2) of the kernel;     *)
(* each ObdHome ("home") owns a LockManager that remembers its requests    *)
(* and undoes them, last first, when the home is destroyed.  A process     *)
(* normally has one home; some commands open a second one (core.py 3918,   *)
(* 4118) that shares the MixLocks of the process.                          *)
(*                                                                         *)
(* The kernel's lock table is external.  All requests use LOCK_NB.  As     *)
(* flock(2) documents, converting a lock is not atomic: the old lock is    *)
(* removed, then the new one is requested, and a refused request leaves    *)
(* the process with nothing.                                               *)
(***************************************************************************)
EXTENDS Integers, SequencesExt

CONSTANTS
    Procs,        \* obd processes
    Paths,        \* lock files
    Global,       \* the global lock file, which every home takes shared
    DeployPaths,  \* the lock files of deployments
    Homes,        \* ObdHome instances a process may have
    Main,         \* the home of the command itself
    DevProcs,     \* processes that run in development mode
    Settings,     \* values of OBD_LOCK_MODE a process may start with
    Forever,      \* processes that called set_try_times(-1)
    TryTimes,     \* LockManager.TRY_TIMES
    MaxHeld,      \* bound: requests remembered by one LockManager
    MaxShared,    \* bound: shared requests for the global path before OpenHome
    MaxLaunches   \* bound: commands started per process slot

NoPath == "no path"

ASSUME LockAssumption ==
    /\ NoPath \notin Paths /\ Global \in Paths /\ DeployPaths \subseteq Paths \ {Global}
    /\ Main \in Homes
    /\ TryTimes \in Nat \ {0} /\ MaxHeld \in Nat
    /\ MaxShared \in Nat /\ MaxLaunches \in Nat

VARIABLES
    kernel,   \* kernel[l][p]: the flock of p on path l
    sh, ex,   \* MixLock._sh_cnt and MixLock._ex_cnt of p for path l
    held,     \* LockManager.locks of each home of p
    open,     \* the homes that exist in p
    pc,       \* what p is doing
    cur,      \* the home and path p is busy with
    tries,    \* what is left of try_times in _lock_escalation
    setting,  \* the OBD_LOCK_MODE p started with
    launched  \* commands started in slot p so far

vars == <<kernel, sh, ex, held, open, pc, cur, tries, setting, launched>>

Entry   == [path : Paths, kind : {"sh", "ex"}]
Busy    == [home : Homes, path : Paths \cup {NoPath}]

TypeOK ==
    /\ kernel \in [Paths -> [Procs -> {"none", "sh", "ex"}]]
    /\ sh \in [Procs -> [Paths -> Nat]]
    /\ ex \in [Procs -> [Paths -> Nat]]
    /\ held \in [Procs -> [Homes -> Seq(Entry)]]
    /\ open \in [Procs -> SUBSET Homes]
    /\ pc \in [Procs -> {"idle", "run", "escalate", "closing", "exit"}]
    /\ cur \in [Procs -> Busy]
    /\ tries \in [Procs -> Nat]
    /\ setting \in [Procs -> Settings]
    /\ launched \in [Procs -> 0..MaxLaunches]

Init ==
    /\ kernel = [l \in Paths |-> [p \in Procs |-> "none"]]
    /\ sh = [p \in Procs |-> [l \in Paths |-> 0]]
    /\ ex = [p \in Procs |-> [l \in Paths |-> 0]]
    /\ held = [p \in Procs |-> [h \in Homes |-> <<>>]]
    /\ open = [p \in Procs |-> {}]
    /\ pc = [p \in Procs |-> "idle"]
    /\ cur = [p \in Procs |-> [home |-> Main, path |-> NoPath]]
    /\ tries = [p \in Procs |-> 0]
    /\ setting \in [Procs -> Settings]
    /\ launched = [p \in Procs |-> 0]

-----------------------------------------------------------------------------
(* Lock modes.  OBD_LOCK_MODE is read from the environment, so it is a      *)
(* string (the empty one when it is not set); the members of the LockMode   *)
(* enumeration are integers, and set_lock_mode keeps the mode it had, the   *)
(* default, when no member equals what it is given.                         *)

EnvString(v) == [type |-> "str", value |-> v]
EnumValue(v) == [type |-> "int", value |-> v]

LockMode == {[name |-> "NO_LOCK",            value |-> EnumValue("0")],
             [name |-> "DEPLOY_SHARED_LOCK", value |-> EnumValue("1")],
             [name |-> "DEFAULT",            value |-> EnumValue("2")]}

SetLockMode(given) ==
    IF \E m \in LockMode : m.value = given
    THEN (CHOOSE m \in LockMode : m.value = given).name
    ELSE "DEFAULT"

\* A home opened by another home is given no lock mode: development mode
\* then decides.
Mode(p, h) ==
    IF h = Main THEN SetLockMode(setting[p])
    ELSE IF p \in DevProcs THEN "DEPLOY_SHARED_LOCK" ELSE "DEFAULT"

\* What deploy_ex_lock and the other *_ex_lock methods ask for.
ExclusiveKind(p, h, l) ==
    IF l \in DeployPaths /\ Mode(p, h) = "DEPLOY_SHARED_LOCK" THEN "sh" ELSE "ex"

-----------------------------------------------------------------------------
(* The kernel, and the counters of a MixLock.                               *)

Grants(l, p, kind) ==
    \A q \in Procs \ {p} :
        kernel[l][q] \in (IF kind = "sh" THEN {"none", "sh"} ELSE {"none"})

Flock(l, p, kind) == kernel' = [kernel EXCEPT ![l][p] = kind]

Locked(p, l) == sh[p][l] > 0 \/ ex[p][l] > 0

Remember(p, h, l, kind) ==
    held' = [held EXCEPT ![p][h] = Append(@, [path |-> l, kind |-> kind])]

\* A process whose request is refused gets a LockError: it ends its command.
Fail(p) == pc' = [pc EXCEPT ![p] = "exit"]

-----------------------------------------------------------------------------
(* Requests.                                                                *)

\* MixLock.sh_lock through LockManager._lock: the kernel is asked only when
\* the process has no count on the path at all.
TakeShared(p, h, l) ==
    /\ \/ Locked(p, l) /\ UNCHANGED kernel
       \/ ~Locked(p, l) /\ Grants(l, p, "sh") /\ Flock(l, p, "sh")
    /\ sh' = [sh EXCEPT ![p][l] = @ + 1]
    /\ Remember(p, h, l, "sh")
    /\ UNCHANGED ex

\* A refused shared lock or a refused first exclusive lock: nothing is counted.
Refused(p, l, kind) ==
    /\ ~Locked(p, l) /\ ~Grants(l, p, kind)
    /\ UNCHANGED <<kernel, sh, ex, held>>

\* ObdHome.__init__: a new home takes the global lock shared, whatever it
\* will do, unless its mode is NO_LOCK.
TakeGlobal(p, h) ==
    IF Mode(p, h) = "NO_LOCK" THEN UNCHANGED <<kernel, sh, ex, held>>
    ELSE TakeShared(p, h, Global)

Launch(p) ==
    /\ pc[p] = "idle" /\ launched[p] < MaxLaunches
    /\ launched' = [launched EXCEPT ![p] = @ + 1]
    /\ \/ /\ TakeGlobal(p, Main)
          /\ pc' = [pc EXCEPT ![p] = "run"]
          /\ open' = [open EXCEPT ![p] = {Main}]
       \/ /\ Mode(p, Main) # "NO_LOCK" /\ Refused(p, Global, "sh")
          /\ UNCHANGED <<pc, open>>
    /\ UNCHANGED <<cur, tries, setting>>

OpenHome(p, h) ==
    /\ pc[p] = "run" /\ h \in Homes \ ({Main} \cup open[p])
    /\ sh[p][Global] < MaxShared
    /\ TakeGlobal(p, h)
    /\ open' = [open EXCEPT ![p] = @ \cup {h}]
    /\ UNCHANGED <<pc, cur, tries, setting, launched>>

MayRequest(p, h) ==
    /\ pc[p] = "run" /\ h \in open[p]
    /\ Mode(p, h) # "NO_LOCK" /\ Len(held[p][h]) < MaxHeld

ShLock(p, h, l) ==
    /\ MayRequest(p, h)
    /\ \/ TakeShared(p, h, l) /\ UNCHANGED pc
       \/ Refused(p, l, "sh") /\ Fail(p)
    /\ UNCHANGED <<open, cur, tries, setting, launched>>

\* Mutant of ExLock: any count, not an exclusive one, is taken for the lock.
ExLockOnAnyCount(p, h, l) ==
    /\ MayRequest(p, h) /\ ExclusiveKind(p, h, l) = "ex"
    /\ Locked(p, l)
    /\ ex' = [ex EXCEPT ![p][l] = @ + 1]
    /\ Remember(p, h, l, "ex")
    /\ UNCHANGED <<kernel, sh, pc, open, cur, tries, setting, launched>>

\* MixLock.ex_lock when no shared count is in the way.
ExLock(p, h, l) ==
    /\ MayRequest(p, h) /\ ExclusiveKind(p, h, l) = "ex"
    /\ \/ /\ \/ ex[p][l] > 0 /\ UNCHANGED kernel
             \/ ~Locked(p, l) /\ Grants(l, p, "ex") /\ Flock(l, p, "ex")
          /\ ex' = [ex EXCEPT ![p][l] = @ + 1]
          /\ Remember(p, h, l, "ex")
          /\ UNCHANGED <<sh, pc>>
       \/ Refused(p, l, "ex") /\ Fail(p)
    /\ UNCHANGED <<open, cur, tries, setting, launched>>

\* MixLock.ex_lock on top of a shared lock: the conversion starts by losing
\* the shared lock.
Escalate(p, h, l) ==
    /\ MayRequest(p, h) /\ ExclusiveKind(p, h, l) = "ex"
    /\ ex[p][l] = 0 /\ sh[p][l] > 0
    /\ Flock(l, p, "none")
    /\ pc' = [pc EXCEPT ![p] = "escalate"]
    /\ cur' = [cur EXCEPT ![p] = [home |-> h, path |-> l]]
    /\ tries' = [tries EXCEPT ![p] = TryTimes]
    /\ UNCHANGED <<sh, ex, held, open, setting, launched>>

\* The first attempt of ex_lock and the attempts of _lock_escalation.
AttemptSucceeds(p) ==
    LET l == cur[p].path IN
    /\ pc[p] = "escalate" /\ Grants(l, p, "ex")
    /\ Flock(l, p, "ex")
    /\ ex' = [ex EXCEPT ![p][l] = @ + 1]
    /\ Remember(p, cur[p].home, l, "ex")
    /\ pc' = [pc EXCEPT ![p] = "run"]
    /\ cur' = [cur EXCEPT ![p].path = NoPath]
    /\ UNCHANGED <<sh, open, tries, setting, launched>>

\* Mutant of AttemptFails: the last attempt is not noticed.
AttemptFailsOnceMore(p) ==
    /\ pc[p] = "escalate" /\ ~Grants(cur[p].path, p, "ex")
    /\ tries' = [tries EXCEPT ![p] = @ - 1]
    /\ UNCHANGED <<kernel, sh, ex, held, open, pc, cur, setting, launched>>

\* Mutant of AttemptFails: every command polls for ever.
AttemptFailsForEver(p) ==
    /\ pc[p] = "escalate" /\ ~Grants(cur[p].path, p, "ex")
    /\ UNCHANGED vars

\* A negative try_times is decremented for ever and never becomes zero.
AttemptFails(p) ==
    /\ pc[p] = "escalate" /\ ~Grants(cur[p].path, p, "ex")
    /\ \/ /\ p \in Forever
          /\ UNCHANGED <<pc, tries, cur>>
       \/ /\ p \notin Forever /\ tries[p] > 0
          /\ tries' = [tries EXCEPT ![p] = @ - 1]
          /\ UNCHANGED <<pc, cur>>
       \/ /\ p \notin Forever /\ tries[p] = 0
          /\ Fail(p)
          /\ cur' = [cur EXCEPT ![p].path = NoPath]
          /\ UNCHANGED tries
    /\ UNCHANGED <<kernel, sh, ex, held, open, setting, launched>>

\* KeyboardInterrupt in _lock_escalation.
Interrupt(p) ==
    /\ pc[p] = "escalate"
    /\ Fail(p)
    /\ cur' = [cur EXCEPT ![p].path = NoPath]
    /\ UNCHANGED <<kernel, sh, ex, held, open, tries, setting, launched>>

-----------------------------------------------------------------------------
(* Releasing: LockManager.__del__ of one home, or the end of the command.   *)

CloseHome(p, h) ==
    /\ pc[p] = "run" /\ h \in open[p] \ {Main}
    /\ pc' = [pc EXCEPT ![p] = "closing"]
    /\ cur' = [cur EXCEPT ![p].home = h]
    /\ UNCHANGED <<kernel, sh, ex, held, open, tries, setting, launched>>

EndCommand(p) ==
    /\ pc[p] = "run"
    /\ Fail(p)
    /\ UNCHANGED <<kernel, sh, ex, held, open, cur, tries, setting, launched>>

\* The home whose locks are being undone; a home is undone without pause.
Undoing(p, h) ==
    /\ cur[p].path = NoPath /\ held[p][h] # <<>>
    /\ \/ pc[p] = "closing" /\ h = cur[p].home
       \/ pc[p] = "exit" /\ h \in open[p]

\* Mutant of ShUnlock: one release drops every shared count.
ShUnlockAll(p, h) ==
    LET l == Last(held[p][h]).path IN
    /\ Undoing(p, h) /\ Last(held[p][h]).kind = "sh"
    /\ held' = [held EXCEPT ![p][h] = Front(@)]
    /\ sh' = [sh EXCEPT ![p][l] = 0]
    /\ IF ex[p][l] = 0 THEN Flock(l, p, "none") ELSE UNCHANGED kernel
    /\ UNCHANGED <<ex, open, pc, cur, tries, setting, launched>>

\* Mutant of ShUnlock: the exclusive count is forgotten.
ShUnlockUnderEx(p, h) ==
    LET l == Last(held[p][h]).path IN
    /\ Undoing(p, h) /\ Last(held[p][h]).kind = "sh"
    /\ held' = [held EXCEPT ![p][h] = Front(@)]
    /\ sh' = [sh EXCEPT ![p][l] = IF @ > 0 THEN @ - 1 ELSE @]
    /\ IF sh'[p][l] = 0 THEN Flock(l, p, "none") ELSE UNCHANGED kernel
    /\ UNCHANGED <<ex, open, pc, cur, tries, setting, launched>>

\* MixLock.sh_unlock.
ShUnlock(p, h) ==
    LET l == Last(held[p][h]).path IN
    /\ Undoing(p, h) /\ Last(held[p][h]).kind = "sh"
    /\ held' = [held EXCEPT ![p][h] = Front(@)]
    /\ sh' = [sh EXCEPT ![p][l] = IF @ > 0 THEN @ - 1 ELSE @]
    /\ IF sh[p][l] > 0 /\ sh'[p][l] = 0 /\ ex[p][l] = 0
       THEN Flock(l, p, "none") ELSE UNCHANGED kernel
    /\ UNCHANGED <<ex, open, pc, cur, tries, setting, launched>>

\* MixLock.ex_unlock: the last exclusive count drops the lock, or starts the
\* conversion back to a shared lock when shared counts remain.
ExUnlock(p, h) ==
    LET l == Last(held[p][h]).path IN
    /\ Undoing(p, h) /\ Last(held[p][h]).kind = "ex"
    /\ held' = [held EXCEPT ![p][h] = Front(@)]
    /\ ex' = [ex EXCEPT ![p][l] = IF @ > 0 THEN @ - 1 ELSE @]
    /\ IF ex[p][l] = 1 THEN Flock(l, p, "none") ELSE UNCHANGED kernel
    /\ cur' = IF ex[p][l] = 1 /\ sh[p][l] > 0
              THEN [cur EXCEPT ![p] = [home |-> h, path |-> l]] ELSE cur
    /\ UNCHANGED <<sh, open, pc, tries, setting, launched>>

\* The end of that conversion.  When it is refused the LockError ends
\* __del__, where Python ignores it: the other requests of that home are
\* never undone.
Downgrade(p) ==
    LET l == cur[p].path IN
    /\ pc[p] \in {"closing", "exit"} /\ l # NoPath
    /\ \/ /\ Grants(l, p, "sh") /\ Flock(l, p, "sh")
          /\ UNCHANGED held
       \/ /\ ~Grants(l, p, "sh") /\ UNCHANGED kernel
          /\ held' = [held EXCEPT ![p][cur[p].home] = <<>>]
    /\ cur' = [cur EXCEPT ![p].path = NoPath]
    /\ UNCHANGED <<sh, ex, open, pc, tries, setting, launched>>

HomeClosed(p) ==
    /\ pc[p] = "closing" /\ cur[p].path = NoPath /\ held[p][cur[p].home] = <<>>
    /\ pc' = [pc EXCEPT ![p] = "run"]
    /\ open' = [open EXCEPT ![p] = @ \ {cur[p].home}]
    /\ cur' = [cur EXCEPT ![p].home = Main]
    /\ UNCHANGED <<kernel, sh, ex, held, tries, setting, launched>>

\* What is left of a process that is gone: the kernel closed its files.
Gone(p) ==
    /\ kernel' = [l \in Paths |-> [kernel[l] EXCEPT ![p] = "none"]]
    /\ sh' = [sh EXCEPT ![p] = [l \in Paths |-> 0]]
    /\ ex' = [ex EXCEPT ![p] = [l \in Paths |-> 0]]
    /\ held' = [held EXCEPT ![p] = [h \in Homes |-> <<>>]]
    /\ open' = [open EXCEPT ![p] = {}]
    /\ pc' = [pc EXCEPT ![p] = "idle"]
    /\ cur' = [cur EXCEPT ![p] = [home |-> Main, path |-> NoPath]]
    /\ tries' = [tries EXCEPT ![p] = 0]
    /\ UNCHANGED <<setting, launched>>

\* atexit: LockManager.shutdown unlocks every path, undone or not.
Shutdown(p) == pc[p] = "exit" /\ Gone(p)

Crash(p) == pc[p] \notin {"idle", "exit"} /\ Gone(p)

-----------------------------------------------------------------------------
Release(p) ==
    \/ \E h \in Homes : ShUnlock(p, h) \/ ExUnlock(p, h)
    \/ Downgrade(p) \/ HomeClosed(p) \/ Shutdown(p)

Attempt(p) == AttemptSucceeds(p) \/ AttemptFails(p)

Request(p) ==
    \E h \in Homes :
        \/ OpenHome(p, h) \/ CloseHome(p, h)
        \/ \E l \in Paths : ShLock(p, h, l) \/ ExLock(p, h, l) \/ Escalate(p, h, l)

Next ==
    \E p \in Procs :
        \/ Launch(p) \/ Request(p) \/ Attempt(p) \/ Interrupt(p)
        \/ EndCommand(p) \/ Release(p) \/ Crash(p)

Spec == Init /\ [][Next]_vars

\* A command runs on until it ends, and a waiting one keeps polling; whether
\* a command is started, interrupted or killed is up to its user.
Fairness ==
    \A p \in Procs : WF_vars(Attempt(p)) /\ WF_vars(EndCommand(p)) /\ WF_vars(Release(p))

FairSpec == Spec /\ Fairness
-----------------------------------------------------------------------------
(* What the lock counters let a command believe: it reads a path while it   *)
(* counts a shared lock on it and is not waiting to convert that lock, and  *)
(* writes while it counts an exclusive one.                                 *)

Reading(p, l) ==
    /\ sh[p][l] > 0 /\ pc[p] \in {"run", "escalate"}
    /\ ~(pc[p] = "escalate" /\ cur[p].path = l)

Promise == INSTANCE LockPromise WITH
    reading <- [l \in Paths |-> {p \in Procs : Reading(p, l)}],
    writing <- [l \in Paths |-> {p \in Procs : ex[p][l] > 0}]

\* With one home per process the counters keep the promise: a command never
\* reads a path that another one may write at the same time.
KeepsPromise == Promise!Spec

-----------------------------------------------------------------------------
(* Properties.                                                              *)

\* A process that counts an exclusive lock on a path has the kernel's
\* exclusive lock and nobody else has any: _ex_cnt never gets ahead of the
\* kernel, through escalation, downgrade, refusal, crash and nested homes.
ExclusiveHeld ==
    \A p \in Procs, l \in Paths : ex[p][l] > 0 =>
        /\ kernel[l][p] = "ex"
        /\ \A q \in Procs \ {p} : kernel[l][q] = "none" /\ ex[q][l] = 0

\* A home that took a deployment exclusively keeps it until it releases it
\* itself, whatever a second home of the same process locks and unlocks
\* meanwhile on the same path (the second home of core.py 3918 and 4118
\* stops, starts and destroys the deployment its parent has locked).
OuterKeepsLock ==
    \A p \in Procs, l \in Paths :
        /\ pc[p] \in {"run", "escalate", "closing"}
        /\ \E i \in DOMAIN held[p][Main] : held[p][Main][i] = [path |-> l, kind |-> "ex"]
        => kernel[l][p] = "ex"

\* The requests of one kind for path l among those that homes remember.
Requests(locks, l, kind) ==
    UNION {{h} \X {i \in DOMAIN locks[h] : locks[h][i] = [path |-> l, kind |-> kind]} : h \in Homes}

Remembered(p, l, kind) == Cardinality(Requests(held[p], l, kind))

\* A home never remembers more requests than the MixLocks of its process
\* count, so that undoing one home cannot release a lock that another home,
\* or another request of the same home, still needs.
RequestsCounted ==
    \A p \in Procs, l \in Paths :
        Remembered(p, l, "sh") <= sh[p][l] /\ Remembered(p, l, "ex") <= ex[p][l]

\* No command waits for ever to turn its shared lock into an exclusive one,
\* not even one that polls for ever.
EscalationEnds == \A p \in Procs : pc[p] = "escalate" ~> pc[p] # "escalate"
=============================================================================
