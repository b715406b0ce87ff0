------------------------------- MODULE WebTask -------------------------------
(***************************************************************************)
(* The web service (src/service): one process, one ObdHome for all         *)
(* requests.  A request is looked at on the event loop, answered at once,  *)
(* and its work is done later by a function in a background thread, which  *)
(* AutoRegister (src/service/common/task.py) registers under its name and  *)
(* kind, runs in a second thread, and records as finished when that one    *)
(* ends or after an hour.  The client polls the record.                    *)
(*                                                                         *)
(* All functions share what the ObdHome keeps between calls, above all     *)
(* `deploy`, the deployment on which plugins are run (core.py,             *)
(* _init_call_args), and `options`.  The locks of module MixLock belong to *)
(* the process and do not keep its threads apart.                          *)
(***************************************************************************)
EXTENDS Integers, Sequences, FiniteSets

CONSTANTS
    Deployments,  \* names of deployments
    Order,        \* the components of a deployment, in the order they are started
    MaxRequests,  \* bound: accepted requests
    PoolSize      \* threads for background functions

Components == {Order[i] : i \in DOMAIN Order}
Requests   == 1..MaxRequests
Nobody     == "none"
Kinds      == {"install", "start", "stop", "destroy"}
Status     == {"CONFIGURED", "DEPLOYED", "RUNNING", "STOPPED", "DESTROYED"}

ASSUME WebTaskAssumption ==
    /\ Nobody \notin Deployments /\ Order \in Seq(Components) /\ Len(Order) > 1
    /\ Cardinality(Components) = Len(Order)
    /\ MaxRequests \in Nat /\ PoolSize \in Nat \ {0}

VARIABLES
    accepted, \* the requests accepted so far: their kind and name
    at,       \* where the function of each request is
    task,     \* the TaskInfo of each request
    registry, \* TaskManager.all_tasks: the request whose record is found
    home,     \* ObdHome.deploy
    scope,    \* the option `components` of ObdHome.options; all of them if empty
    local,    \* what each function holds in local variables
    status,   \* .data of each deployment
    up,       \* the components whose servers run
    did       \* history: what each function has done to which deployment

vars == <<accepted, at, task, registry, home, scope, local, status, up, did>>

shared == <<home, scope>>
cluster == <<status, up>>

\* The steps of a function; "queued" is before it is registered.
Steps == {"unused", "queued", "begin", "init", "deployed", "choose", "start", "started",
          "recorded", "stop", "stopped", "check", "wipe", "configured", "ended"}

Pending  == [status |-> "PENDING", result |-> "RUNNING"]
Running  == [status |-> "RUNNING", result |-> "RUNNING"]
Finished(result) == [status |-> "FINISHED", result |-> result]

TypeOK ==
    /\ accepted \in Seq([kind : Kinds, name : Deployments]) /\ Len(accepted) <= MaxRequests
    /\ at \in [Requests -> Steps]
    /\ task \in [Requests -> {Pending, Running, Finished("SUCCESSFUL"), Finished("FAILED")}]
    /\ registry \in [Kinds \X Deployments -> 0..MaxRequests]
    /\ home \in Deployments \cup {Nobody}
    /\ scope \subseteq Components
    /\ local \in [Requests -> [deploy : Deployments \cup {Nobody}, comps : SUBSET Components,
                               next : 1..(Len(Order) + 1), failed : SUBSET {"deploy", "start"},
                               before : Status]]
    /\ status \in [Deployments -> Status]
    /\ up \subseteq Deployments \X Components
    /\ did \in [Requests -> SUBSET ({"init", "start", "stop", "wipe"} \X Deployments \X Components)]

Init ==
    /\ accepted = <<>>
    /\ at = [r \in Requests |-> "unused"]
    /\ task = [r \in Requests |-> Pending]
    /\ registry = [k \in Kinds \X Deployments |-> 0]
    /\ home = Nobody /\ scope = {}
    /\ local = [r \in Requests |-> [deploy |-> Nobody, comps |-> {}, next |-> 1, failed |-> {},
                                    before |-> "CONFIGURED"]]
    /\ status = [d \in Deployments |-> "CONFIGURED"]
    /\ up = {}
    /\ did = [r \in Requests |-> {}]

Kind(r) == accepted[r].kind
Name(r) == accepted[r].name

-----------------------------------------------------------------------------
(* The event loop.                                                          *)

\* A record that is not finished keeps a second request of its kind out; but
\* destroy_cluster is put in the background without a look at the registry.
Refused(kind, name) ==
    LET r == registry[<<kind, name>>] IN
    kind # "destroy" /\ r # 0 /\ task[r].status # "FINISHED"

\* install, start, stop: an old record is deleted, the function is queued
\* and will be registered when a thread runs it.
Request(kind, name) ==
    /\ Len(accepted) < MaxRequests
    /\ ~Refused(kind, name)
    /\ accepted' = Append(accepted, [kind |-> kind, name |-> name])
    /\ at' = [at EXCEPT ![Len(accepted')] = "queued"]
    /\ registry' = IF kind = "destroy" THEN registry
                   ELSE [registry EXCEPT ![<<kind, name>>] = 0]
    /\ UNCHANGED <<task, shared, local, cluster, did>>

\* Requests that look at a deployment, create one or check it leave it in
\* ObdHome.deploy.
Look(name) ==
    /\ home # name /\ home' = name
    /\ UNCHANGED <<accepted, at, task, registry, scope, local, cluster, did>>

-----------------------------------------------------------------------------
(* AutoRegister: what happens around every function.                        *)

Busy == {r \in Requests : at[r] \notin {"unused", "queued", "ended"}}

Register(r) ==
    /\ at[r] = "queued" /\ Cardinality(Busy) < PoolSize
    /\ registry' = [registry EXCEPT ![<<Kind(r), Name(r)>>] = r]
    /\ task' = [task EXCEPT ![r] = Running]
    /\ at' = [at EXCEPT ![r] = "begin"]
    /\ UNCHANGED <<accepted, shared, local, cluster, did>>

\* Mutant of Timeout: the time is measured but nothing is recorded.
TimeoutUnrecorded(r) ==
    /\ r \in Busy /\ task[r] = Running
    /\ UNCHANGED vars

\* The function did not end in time: its record says that it failed, and the
\* thread goes on.
Timeout(r) ==
    /\ r \in Busy /\ task[r] = Running
    /\ task' = [task EXCEPT ![r] = Finished("FAILED")]
    /\ UNCHANGED <<accepted, at, registry, shared, local, cluster, did>>

\* Mutant of Return: the record is written whether or not it was before.
ReturnAnyway(r, result) ==
    /\ at' = [at EXCEPT ![r] = "ended"]
    /\ task' = [task EXCEPT ![r] = Finished(result)]

\* The function returns or raises.  After a timeout nobody listens.
Return(r, result) ==
    /\ at' = [at EXCEPT ![r] = "ended"]
    /\ task' = IF task[r] = Running THEN [task EXCEPT ![r] = Finished(result)] ELSE task

Raise(r) == Return(r, "FAILED")

Goto(r, step) == at' = [at EXCEPT ![r] = step] /\ UNCHANGED task

Did(r, what, comps) == did' = [did EXCEPT ![r] = @ \cup {what} \X {home} \X comps]

-----------------------------------------------------------------------------
(* What plugins do: they work on the deployment in ObdHome.deploy, whichever *)
(* it is by then, and may stop half-way.                                     *)

Affect(comps, effect) ==
    up' = IF effect THEN up \cup ({home} \X comps) ELSE up \ ({home} \X comps)

Works(r, what, comps, effect) ==
    home # Nobody /\ Affect(comps, effect) /\ Did(r, what, comps)

\* Mutant of Breaks: plugins are run although there is no deployment.
BreaksAnywhere(r, what, comps, effect) ==
    \E some \in SUBSET comps : Affect(some, effect) /\ Did(r, what, some)

Breaks(r, what, comps, effect) ==
    \E some \in SUBSET comps :
        (home = Nobody => some = {}) /\ Affect(some, effect) /\ Did(r, what, some)

Chosen == IF scope = {} THEN Components ELSE scope

\* update_deploy_status, on the Deploy object that a function holds
Update(deploy, s) == status' = [status EXCEPT ![deploy] = s]

-----------------------------------------------------------------------------
(* _do_install                                                              *)

\* deploy_cluster takes the deployment and checks its status; whatever comes
\* of it, the components are started.  The function first uses ObdHome.deploy.
BeginInstall(r) ==
    LET n == Name(r) IN
    /\ at[r] = "begin" /\ Kind(r) = "install"
    /\ \/ home = Nobody
          /\ Raise(r) /\ UNCHANGED <<shared, local>>
       \/ home # Nobody /\ status[n] \in {"CONFIGURED", "DESTROYED"}
          /\ home' = n /\ scope' = {}
          /\ Goto(r, "init") /\ UNCHANGED local
       \/ home # Nobody /\ status[n] \notin {"CONFIGURED", "DESTROYED"}
          /\ scope' = {} /\ UNCHANGED home
          /\ local' = [local EXCEPT ![r].failed = {"deploy"}]
          /\ Goto(r, "choose")
    /\ UNCHANGED <<accepted, registry, cluster, did>>

InitServers(r) ==
    /\ at[r] = "init"
    /\ \/ home # Nobody /\ Did(r, "init", Components)
          /\ Goto(r, "deployed") /\ UNCHANGED local
       \/ local' = [local EXCEPT ![r].failed = {"deploy"}]
          /\ Goto(r, "choose") /\ UNCHANGED did
    /\ UNCHANGED <<accepted, registry, shared, cluster>>

RecordDeployed(r) ==
    /\ at[r] = "deployed"
    /\ Update(Name(r), "DEPLOYED")
    /\ Goto(r, "choose")
    /\ UNCHANGED <<accepted, registry, shared, local, up, did>>

\* The next component, on the deployment found in ObdHome.deploy.
ChooseComponent(r) ==
    LET n == local[r].next IN
    /\ at[r] = "choose" /\ n <= Len(Order)
    /\ \/ home = Nobody /\ Raise(r) /\ UNCHANGED <<scope, local>>
       \/ /\ home # Nobody
          /\ scope' = {Order[n]}
          /\ local' = [local EXCEPT ![r].deploy = home, ![r].comps = {Order[n]},
                                    ![r].next = n + 1]
          /\ Goto(r, "start")
    /\ UNCHANGED <<accepted, registry, home, cluster, did>>

\* Mutant of EndInstall: a failed start is only logged.
EndInstallAnyway(r) ==
    /\ at[r] = "choose" /\ local[r].next > Len(Order)
    /\ scope' = {}
    /\ IF "deploy" \in local[r].failed \/ home = Nobody
       THEN Raise(r) /\ UNCHANGED status
       ELSE Update(home, "RUNNING") /\ Goto(r, "recorded")
    /\ UNCHANGED <<accepted, registry, home, local, up, did>>

\* After the last component.
EndInstall(r) ==
    /\ at[r] = "choose" /\ local[r].next > Len(Order)
    /\ scope' = {}
    /\ IF local[r].failed # {} \/ home = Nobody
       THEN Raise(r) /\ UNCHANGED status
       ELSE Update(home, "RUNNING") /\ Goto(r, "recorded")
    /\ UNCHANGED <<accepted, registry, home, local, up, did>>

LeaveInstall(r) ==
    /\ at[r] = "recorded"
    /\ \/ home = Nobody /\ Raise(r)                  \* ObdHome.deploy.deploy_config
       \/ home # Nobody /\ Return(r, "SUCCESSFUL")
    /\ home' = Nobody
    /\ UNCHANGED <<accepted, registry, scope, local, cluster, did>>

-----------------------------------------------------------------------------
(* _do_start, _do_stop and the two parts of ObdHome they share with install  *)
(* and destroy.  They only log what the ObdHome answers.                     *)

Live == {"DEPLOYED", "STOPPED", "RUNNING"}

Begin(r) ==
    LET n == Name(r) IN
    /\ at[r] = "begin" /\ Kind(r) \in {"start", "stop"}
    /\ home' = n
    /\ IF status[n] \in Live /\ ~(Kind(r) = "start" /\ status[n] = "RUNNING"
                                  /\ {n} \X Components \subseteq up)
       THEN /\ local' = [local EXCEPT ![r].deploy = n, ![r].comps = Chosen]
            /\ Goto(r, Kind(r))
       ELSE Return(r, "SUCCESSFUL") /\ UNCHANGED local
    /\ UNCHANGED <<accepted, registry, scope, cluster, did>>

StartServers(r) ==
    LET comps == local[r].comps IN
    /\ at[r] = "start"
    /\ \/ /\ Works(r, "start", comps, TRUE) /\ UNCHANGED local
          /\ Goto(r, IF Kind(r) = "install" THEN "choose" ELSE "started")
       \/ /\ Breaks(r, "start", comps, TRUE)
          /\ IF Kind(r) = "install"
             THEN /\ local' = [local EXCEPT ![r].failed = @ \cup {"start"}]
                  /\ Goto(r, "choose")
             ELSE Return(r, "SUCCESSFUL") /\ UNCHANGED local
    /\ UNCHANGED <<accepted, registry, shared, status>>

RecordStarted(r) ==
    /\ at[r] = "started"
    /\ IF local[r].comps = Components THEN Update(local[r].deploy, "RUNNING")
       ELSE UNCHANGED status
    /\ Return(r, "SUCCESSFUL")
    /\ UNCHANGED <<accepted, registry, shared, local, up, did>>

StopServers(r) ==
    LET comps == local[r].comps IN
    /\ at[r] = "stop"
    /\ \/ /\ Works(r, "stop", comps, FALSE)
          /\ Goto(r, "stopped") /\ UNCHANGED status
       \/ /\ Breaks(r, "stop", comps, FALSE)
          /\ IF Kind(r) = "destroy"
             THEN Update(local[r].deploy, local[r].before) /\ Raise(r)
             ELSE Return(r, "SUCCESSFUL") /\ UNCHANGED status
    /\ UNCHANGED <<accepted, registry, shared, local>>

RecordStopped(r) ==
    /\ at[r] = "stopped"
    /\ IF local[r].comps = Components THEN Update(local[r].deploy, "STOPPED")
       ELSE UNCHANGED status
    /\ IF Kind(r) = "destroy" THEN Goto(r, "wipe") ELSE Return(r, "SUCCESSFUL")
    /\ UNCHANGED <<accepted, registry, shared, local, up, did>>

-----------------------------------------------------------------------------
(* destroy_cluster, with force_kill                                         *)

BeginDestroy(r) ==
    /\ at[r] = "begin" /\ Kind(r) = "destroy"
    /\ home' = Name(r) /\ scope' = {}
    /\ local' = [local EXCEPT ![r].deploy = Name(r)]
    /\ Goto(r, "check")
    /\ UNCHANGED <<accepted, registry, cluster, did>>

\* The status of the servers; running ones are stopped, for which the
\* deployment is recorded as running.
CheckServers(r) ==
    LET d == local[r].deploy IN
    /\ at[r] = "check"
    /\ \/ home = Nobody
          /\ Raise(r) /\ UNCHANGED <<local, status>>
       \/ home # Nobody /\ {home} \X Components \cap up = {}
          /\ Goto(r, "wipe") /\ UNCHANGED <<local, status>>
       \/ home # Nobody /\ {home} \X Components \cap up # {}
          /\ local' = [local EXCEPT ![r].before = status[d], ![r].comps = Chosen]
          /\ Update(d, "RUNNING") /\ Goto(r, "stop")
    /\ UNCHANGED <<accepted, registry, shared, up, did>>

\* Errors are ignored.
WipeServers(r) ==
    /\ at[r] = "wipe"
    /\ Breaks(r, "wipe", Components, FALSE)
    /\ Update(local[r].deploy, "DESTROYED")
    /\ Goto(r, "configured")
    /\ UNCHANGED <<accepted, registry, shared, local>>

RecordConfigured(r) ==
    /\ at[r] = "configured"
    /\ Update(local[r].deploy, "CONFIGURED")
    /\ scope' = {}
    /\ Return(r, "SUCCESSFUL")
    /\ UNCHANGED <<accepted, registry, home, local, up, did>>

-----------------------------------------------------------------------------
Function(r) ==
    \/ BeginInstall(r) \/ InitServers(r) \/ RecordDeployed(r) \/ ChooseComponent(r)
    \/ EndInstall(r) \/ LeaveInstall(r)
    \/ Begin(r) \/ StartServers(r) \/ RecordStarted(r) \/ StopServers(r) \/ RecordStopped(r)
    \/ BeginDestroy(r) \/ CheckServers(r) \/ WipeServers(r) \/ RecordConfigured(r)

Next ==
    \/ \E k \in Kinds, n \in Deployments : Request(k, n)
    \/ \E n \in Deployments : Look(n)
    \/ \E r \in Requests : Register(r) \/ Timeout(r) \/ Function(r)

Spec == Init /\ [][Next]_vars

\* Threads are run and time passes.  Nothing is assumed of a function: what
\* it waits for, on a server, may never come.
FairSpec ==
    Spec /\ \A r \in Requests : WF_vars(Register(r)) /\ WF_vars(Timeout(r))
-----------------------------------------------------------------------------
(* Properties.                                                              *)

\* What a client was told does not change: a record that is finished keeps
\* its result, although the thread of a task that took too long goes on and
\* may well succeed.
FinishedIsFinal ==
    [][\A r \in Requests : task[r].status = "FINISHED" => task'[r] = task[r]]_vars

\* Whoever is told that an installation was successful has had every one of
\* its servers set up and every component started by it, whatever other tasks
\* on that deployment do meanwhile.
InstallToldTrue ==
    [][\A r \in Requests :
        task[r] = Running /\ task'[r] = Finished("SUCCESSFUL") /\ Kind(r) = "install"
        => {"init", "start"} \X {Name(r)} \X Components \subseteq did[r]]_vars

\* Every accepted request gets a final answer, even if its function never
\* ends, as long as the pool has a thread for each.
RequestsAnswered ==
    \A r \in Requests : at[r] = "queued" ~> task[r].status = "FINISHED"

\* A task works on the servers of the deployment it was asked for ("stop the
\* cluster %s", deployment_handler.py 627): fails as soon as requests for
\* another deployment come in between, because they share ObdHome.deploy.
WorksOnNamed == \A r \in Requests : \A d \in did[r] : d[2] = Name(r)
=============================================================================
