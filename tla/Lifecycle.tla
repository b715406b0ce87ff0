------------------------------ MODULE Lifecycle ------------------------------
(***************************************************************************)
(* One deployment of obd, from edit-config or deploy to prune-config       *)
(* (src/core.py), with the files that remember it (src/_deploy.py): .data  *)
(* holds the status and the config status, config.yaml the configuration   *)
(* in force, tmp_config.yaml the one that waits to take effect.  A command *)
(* loads .data once, works on the servers of the components and writes its *)
(* files as it goes; any step may fail and obd may be killed between any   *)
(* two.  Commands on one deployment exclude each other by the lock of the  *)
(* deployment (module MixLock), so that one runs at a time.                *)
(*                                                                         *)
(* A running command is the sequence `todo` of its remaining steps.  A     *)
(* configuration is a version number.  Whether servers start, stop, reload *)
(* or clean up is up to the component plugins, which may fail half-way.    *)
(* The status UPRADEING is left to the upgrade.                            *)
(***************************************************************************)
EXTENDS ClusterStatus, SequencesExt

CONSTANTS
    Order,          \* the components, in the order of .data and of their dependencies
    Servers,        \* the servers of every component
    ComponentLists, \* values of the option --components, <<>> if not given
    ServerLists,    \* values of the option --servers, {} if not given
    Mishaps,        \* what may go wrong besides a failing plugin
    MaxMishaps,     \* bound: how often
    MaxEdits        \* bound: how many configurations are written

Components == ToSet(Order)
Instances  == Components \X Servers

None    == 0   \* no configuration
Garbled == -1  \* a configuration that cannot be read
Versions == 1..MaxEdits

Status       == {"CONFIGURED", "DEPLOYED", "STOPPED", "RUNNING", "DESTROYED"}
ConfigStatus == {"UNCHNAGE", "NEED_RELOAD", "NEED_RESTART", "NEED_REDEPLOY"}
DeployInfo   == [status : Status, config_status : ConfigStatus]

Fresh      == [status |-> "CONFIGURED", config_status |-> "UNCHNAGE"]
Absent     == [status |-> "ABSENT", config_status |-> "UNCHNAGE"]      \* no deployment
Unreadable == [status |-> "UNREADABLE", config_status |-> "UNCHNAGE"]  \* no or half a .data

ASSUME LifecycleAssumption ==
    /\ Len(Order) > 0 /\ IsFiniteSet(Components) /\ Cardinality(Components) = Len(Order)
    /\ Servers # {} /\ {} \in ServerLists /\ ServerLists \subseteq SUBSET Servers
    /\ <<>> \in ComponentLists /\ ComponentLists \subseteq Seq(Components)
    /\ Mishaps \subseteq {"crash", "torn", "write", "copy", "die", "stay"}
    /\ MaxMishaps \in Nat /\ MaxEdits \in Nat

VARIABLES
    info,     \* .data
    config,   \* config.yaml
    tmp,      \* tmp_config.yaml
    mem,      \* Deploy._info of the running command
    todo,     \* the remaining steps of the running command
    opts,     \* the options of the running command, Idle if there is none
    up,       \* the instances that run
    lost,     \* the instances that run without the directory that holds their pid
    files,    \* the instances whose directories are on their server
    runs,     \* the configuration each instance was last given
    stayed,   \* history: the instances whose last process a stop that succeeded left running
    done,     \* history: the instances the running command has started, or found running
    saved,    \* history: what the user was last told is saved, as far as it is known
    edits,    \* configurations written so far
    mishaps   \* things that went wrong so far

vars == <<info, config, tmp, mem, todo, opts, up, lost, files, runs, stayed, done, saved, edits,
          mishaps>>

disk    == <<info, config, tmp>>
cluster == <<up, lost, files, runs, stayed>>

Ops == {"status", "config_status", "info", "create", "copy", "apply", "reapply", "dump", "save",
        "install", "start", "stop", "restart", "reload", "check", "wipe"}

\* A step, and what a command does when it fails: end, go on, leave out the
\* next step, finish with one other step, or restore a status.
Step == [op : Ops, arg : Status \cup ConfigStatus \cup {""},
         orelse : {"abort", "ignore", "skip", "dump", "save"} \cup Status]

Options == [comps : ComponentLists, servers : ServerLists, force : BOOLEAN, wp : BOOLEAN,
            version : {None, Garbled} \cup Versions]

Idle == [comps |-> <<>>, servers |-> {}, force |-> FALSE, wp |-> FALSE, version |-> Garbled]

TypeOK ==
    /\ info \in DeployInfo \cup {Absent, Unreadable}
    /\ config \in {None, Garbled} \cup Versions
    /\ tmp \in {None, Garbled} \cup Versions
    /\ mem \in DeployInfo
    /\ todo \in Seq(Step)
    /\ opts \in Options
    /\ files \subseteq Instances /\ up \subseteq files
    /\ lost \subseteq Instances
    /\ runs \in [Instances -> {None} \cup Versions]
    /\ stayed \subseteq Instances
    /\ done \subseteq Instances
    /\ saved \subseteq {None} \cup Versions
    /\ edits \in 0..MaxEdits
    /\ mishaps \in 0..MaxMishaps

Init ==
    /\ info = Absent /\ config = None /\ tmp = None
    /\ mem = Fresh /\ todo = <<>> /\ opts = Idle
    /\ up = {} /\ lost = {} /\ files = {} /\ runs = [i \in Instances |-> None]
    /\ stayed = {} /\ done = {} /\ saved = {None} /\ edits = 0 /\ mishaps = 0

\* Deploy.deploy_info: what cannot be read counts as configured.
Loaded == IF info \in {Absent, Unreadable} THEN Fresh ELSE info

Changed(i) == i.config_status # "UNCHNAGE"

-----------------------------------------------------------------------------
(* The steps of commands.                                                   *)

S(op, arg, orelse) == <<[op |-> op, arg |-> arg, orelse |-> orelse]>>

When(condition, steps) == IF condition THEN steps ELSE <<>>

\* Mutant of NamesAll: some components are taken for all.
NamesAny(comps) == Len(comps) <= Len(Order)

\* The option lists as many components as there are, or is not given.
NamesAll(comps) == Len(comps) \in {0, Len(Order)}

\* _start_cluster; the option --servers has no effect.
StartSteps(comps) ==
    S("start", "", "abort")
    \o When(NamesAll(comps), S("status", "RUNNING", "skip") \o S("dump", "", "ignore"))

\* Mutant of StopSteps: the status is written whatever was stopped.
StopAndRecord(comps, servers, orelse) ==
    S("stop", "", orelse) \o S("status", "STOPPED", orelse)

\* _stop_cluster
StopSteps(comps, servers, orelse) ==
    S("stop", "", orelse)
    \o When(comps = <<>> /\ servers = {}, S("status", "STOPPED", orelse))

\* Mutant of RestartSteps: the new configuration is applied first.
ApplyThenRestart(comps, servers, apply) ==
    LET all == NamesAll(comps) /\ servers = {} IN
    When(all /\ apply, S("apply", "", "abort"))
    \o S("restart", "", "abort") \o When(all, S("status", "RUNNING", "abort"))

\* _restart_cluster, once every server has been seen running
RestartSteps(comps, servers, apply) ==
    LET all == NamesAll(comps) /\ servers = {} IN
    S("restart", "", "abort")
    \o When(all /\ apply, S("apply", "", "abort")) \o When(all, S("status", "RUNNING", "abort"))

\* Mutant of DestroySteps: nobody looks whether servers still run.
DestroyUnchecked(changed) ==
    S("wipe", "", "ignore")
    \o S("status", "DESTROYED", "abort") \o S("info", "", "ignore")
    \o When(changed, S("apply", "", "ignore"))

\* _destroy_cluster
DestroySteps(changed) ==
    S("check", "", "abort") \o S("wipe", "", "ignore")
    \o S("status", "DESTROYED", "abort") \o S("info", "", "ignore")
    \o When(changed, S("apply", "", "ignore"))

\* _deploy_cluster
DeploySteps ==
    S("install", "", "abort") \o S("status", "DEPLOYED", "abort") \o S("dump", "", "abort")

\* What destroy and redeploy do first to a running deployment.
ForcedStop == When(Loaded.status = "RUNNING", StopSteps(<<>>, {}, "abort"))

\* Mutant of NewConfig: going back to the configuration in force leaves the
\* deployment marked as changed.
NewConfigKeepsMark(k) ==
    IF k = "UNCHNAGE"
    THEN S("create", "", "abort") \o S("dump", "", "ignore") \o S("save", "", "abort")
    ELSE S("config_status", k, "save") \o S("copy", "", "ignore") \o S("save", "", "abort")

\* The end of edit_deploy_config: a change without effect on servers replaces
\* the configuration in force, any other one waits in tmp_config.yaml.
NewConfig(k) ==
    IF k = "UNCHNAGE"
    THEN S("create", "", "abort") \o S("config_status", k, "ignore")
         \o S("dump", "", "ignore") \o S("save", "", "abort")
    ELSE S("config_status", k, "save") \o S("copy", "", "ignore") \o S("save", "", "abort")

\* What cluster_status_check and the workflow status_check find.
StatusCheck ==
    ClusterStatusOf([n \in DOMAIN Order |->
        ComponentStatus(Servers, {s \in Servers : <<Order[n], s>> \in up})])

AllUp == up = Instances

-----------------------------------------------------------------------------
(* Commands.  A command that its guard refuses changes nothing.             *)

Begin(steps, o) ==
    /\ todo = <<>> /\ opts = Idle
    /\ todo' = steps /\ opts' = o
    /\ mem' = Loaded
    /\ UNCHANGED <<disk, cluster, done, mishaps>>

With(comps, servers, force, wp) ==
    [comps |-> comps, servers |-> servers, force |-> force, wp |-> wp, version |-> None]

NewVersion(v, force) == [Idle EXCEPT !.version = v, !.force = force]

Readable == config \notin {None, Garbled}

\* What a new configuration may need to take effect.
Effects(status) ==
    CASE status \in {"RUNNING", "STOPPED"} -> ConfigStatus \ {"UNCHNAGE"}
      [] status = "DEPLOYED"               -> {"UNCHNAGE", "NEED_REDEPLOY"}
      [] OTHER                             -> {"UNCHNAGE"}

EditConfig(k) ==
    /\ edits < MaxEdits /\ edits' = edits + 1
    /\ k \in Effects(Loaded.status)
    /\ Loaded.status \in {"CONFIGURED", "DESTROYED"} \/ Readable
    /\ saved' = saved \cup {edits'}
    /\ Begin(NewConfig(k), NewVersion(edits', FALSE))

\* edit-config back to the configuration in force.
RevertConfig ==
    /\ Loaded.status \in {"RUNNING", "STOPPED"} /\ Readable
    /\ Changed(Loaded)
    /\ saved' = saved \cup {config}
    /\ Begin(NewConfig("UNCHNAGE"), NewVersion(config, FALSE))
    /\ UNCHANGED edits

DeployCluster(force) ==
    /\ info # Absent /\ Loaded.status \in {"CONFIGURED", "DESTROYED"}
    /\ Begin(When(Changed(Loaded), S("apply", "", "abort")) \o DeploySteps,
             With(<<>>, {}, force, FALSE))
    /\ UNCHANGED <<saved, edits>>

\* deploy -c
DeployNewConfig(force) ==
    /\ Loaded.status \in {"CONFIGURED", "DESTROYED"}
    /\ edits < MaxEdits /\ edits' = edits + 1
    /\ saved' = saved \cup {edits'}
    /\ Begin(When(Changed(Loaded), S("apply", "", "abort"))
             \o S("create", "", "abort") \o S("save", "", "abort") \o DeploySteps,
             NewVersion(edits', force))

StartCluster(comps, servers, wp) ==
    /\ Loaded.status \in {"DEPLOYED", "STOPPED", "RUNNING"} /\ Readable
    /\ Loaded.config_status # "NEED_REDEPLOY"
    /\ ~(Changed(Loaded) /\ Loaded.status # "STOPPED" /\ wp)
    /\ ~(Loaded.status = "RUNNING" /\ StatusCheck = Running)
    /\ Begin(StartSteps(comps), With(comps, servers, FALSE, wp))
    /\ UNCHANGED <<saved, edits>>

StopCluster(comps, servers) ==
    /\ Loaded.status \in {"DEPLOYED", "STOPPED", "RUNNING"} /\ Readable
    /\ Begin(StopSteps(comps, servers, "abort"), With(comps, servers, FALSE, FALSE))
    /\ UNCHANGED <<saved, edits>>

RestartCluster(comps, servers, wp) ==
    LET apply == wp /\ Changed(Loaded) IN
    /\ Loaded.status \in {"STOPPED", "RUNNING"} /\ Readable
    /\ Loaded.config_status # "NEED_REDEPLOY"
    /\ apply => /\ tmp \notin {None, Garbled}
                /\ NamesAll(comps) /\ servers \in {{}, Servers}
    /\ Begin(When(StatusCheck \in {Mixed, Stopped}, StartSteps(comps))
             \o RestartSteps(comps, servers, apply),
             With(comps, servers, FALSE, wp))
    /\ UNCHANGED <<saved, edits>>

ReloadCluster ==
    /\ Loaded.status \in {"RUNNING", "STOPPED"} /\ Readable
    /\ Loaded.config_status = "NEED_RELOAD" /\ tmp \notin {None, Garbled}
    /\ Begin(When(~AllUp, StartSteps(<<>>))
             \o S("reload", "", "dump") \o S("apply", "", "abort"),
             With(<<>>, {}, FALSE, FALSE))
    /\ UNCHANGED <<saved, edits>>

DestroyCluster(force) ==
    /\ Loaded.status \in {"RUNNING", "STOPPED", "DEPLOYED"} /\ Readable
    /\ Begin(ForcedStop \o DestroySteps(Changed(Loaded)), With(<<>>, {}, force, FALSE))
    /\ UNCHANGED <<saved, edits>>

RedeployCluster(force) ==
    /\ Loaded.status \in {"RUNNING", "STOPPED", "DEPLOYED"} /\ Readable
    /\ Begin(ForcedStop \o DestroySteps(Changed(Loaded)) \o S("reapply", "", "abort")
             \o DeploySteps \o StartSteps(<<>>) \o S("dump", "", "abort"),
             With(<<>>, {}, force, FALSE))
    /\ UNCHANGED <<saved, edits>>

PruneConfig ==
    /\ todo = <<>> /\ opts = Idle
    /\ info # Absent /\ Loaded.status \in {"DESTROYED", "CONFIGURED"}
    /\ info' = Absent /\ config' = None /\ tmp' = None
    /\ saved' = {None}
    /\ UNCHANGED <<mem, todo, opts, cluster, done, edits, mishaps>>

-----------------------------------------------------------------------------
(* Steps that write the files of the deployment.                            *)

Doing(op) == todo # <<>> /\ Head(todo).op = op

Proceed == todo' = Tail(todo)

Abort == todo' = <<>>

Fail ==
    LET orelse == Head(todo).orelse IN
    todo' = CASE orelse = "abort"            -> <<>>
              [] orelse = "ignore"           -> Tail(todo)
              [] orelse = "skip"             -> Tail(Tail(todo))
              [] orelse \in {"dump", "save"} -> S(orelse, "", "abort")
              [] orelse \in Status           -> S("status", orelse, "ignore")

Mishap(k) == k \in Mishaps /\ mishaps < MaxMishaps /\ mishaps' = mishaps + 1

\* Mutant of Updated: the config status is stored as the status.
UpdatedStatus(step) ==
    IF step.op \in {"status", "config_status"} THEN [mem EXCEPT !.status = step.arg] ELSE mem

Updated(step) ==
    CASE step.op = "status"        -> [mem EXCEPT !.status = step.arg]
      [] step.op = "config_status" -> [mem EXCEPT !.config_status = step.arg]
      [] OTHER                     -> mem

\* Deploy.dump_deploy_info for the status, for the config status, and for the
\* component list that a destroyed deployment loses.  .data is truncated and
\* rewritten; when that fails the old value is restored in memory only.
DumpDeployInfo ==
    /\ Doing("status") \/ Doing("config_status") \/ Doing("info")
    /\ \/ /\ mem' = Updated(Head(todo)) /\ info' = mem'
          /\ Proceed /\ UNCHANGED mishaps
       \/ /\ Mishap("write")
          /\ Fail /\ UNCHANGED <<mem, info>>
       \/ /\ Mishap("torn")
          /\ info' = Unreadable
          /\ Fail \/ Abort
          /\ UNCHANGED mem
    /\ UNCHANGED <<config, tmp, opts, cluster, done, saved, edits>>

\* DeployManager.create_deploy_config.  A failed copy removes the directory.
CreateDeployConfig ==
    /\ Doing("create")
    /\ \/ /\ config' = opts.version /\ info' = (IF info = Absent THEN Unreadable ELSE info)
          /\ Proceed /\ UNCHANGED <<tmp, mishaps>>
       \/ /\ Mishap("copy")
          /\ info' = Absent /\ config' = None /\ tmp' = None
          /\ Abort
       \/ /\ Mishap("torn")
          /\ config' = Garbled /\ info' = (IF info = Absent THEN Unreadable ELSE info)
          /\ Abort /\ UNCHANGED tmp
    /\ mem' = Loaded
    /\ UNCHANGED <<opts, cluster, done, saved, edits>>

\* FileUtil.copy to tmp_config.yaml.  Its result is not looked at.
CopyTempConfig ==
    /\ Doing("copy")
    /\ \/ tmp' = opts.version /\ Proceed /\ UNCHANGED mishaps
       \/ Mishap("copy") /\ Proceed /\ UNCHANGED tmp
       \/ Mishap("torn") /\ tmp' = Garbled /\ (Proceed \/ Abort)
    /\ UNCHANGED <<info, config, mem, opts, cluster, done, saved, edits>>

\* Deploy.apply_temp_deploy_config.  The config status is written next; when
\* that fails nobody is told.
ApplyTempConfig ==
    /\ Doing("apply")
    /\ \/ /\ tmp # None
          /\ config' = tmp /\ tmp' = None
          /\ todo' = S("config_status", "UNCHNAGE", "ignore") \o Tail(todo)
       \/ /\ tmp = None
          /\ Fail /\ UNCHANGED <<config, tmp>>
    /\ UNCHANGED <<info, mem, opts, cluster, done, saved, edits, mishaps>>

\* redeploy applies the waiting configuration itself when destroy has not.
ReapplyTempConfig ==
    /\ Doing("reapply")
    /\ todo' = When(Changed(mem), S("apply", "", "abort")) \o Tail(todo)
    /\ UNCHANGED <<disk, mem, opts, cluster, done, saved, edits, mishaps>>

\* DeployConfig.dump rewrites config.yaml with what was read from it; being
\* killed meanwhile leaves half a file.
DumpDeployConfig ==
    /\ Doing("dump")
    /\ \/ Proceed /\ UNCHANGED <<config, mishaps>>
       \/ Mishap("write") /\ Fail /\ UNCHANGED config
       \/ Mishap("torn") /\ config' = Garbled /\ Abort
    /\ UNCHANGED <<info, tmp, mem, opts, cluster, done, saved, edits>>

\* The user is told that the configuration is saved.
Save ==
    /\ Doing("save")
    /\ saved' = {opts.version}
    /\ Proceed
    /\ UNCHANGED <<disk, mem, opts, cluster, done, edits, mishaps>>

-----------------------------------------------------------------------------
(* Steps on servers: a workflow of the components' plugins either succeeds   *)
(* or stops half-way, stage by stage on all components.                      *)

\* The instances of the components the option names; of all by default.
Targets == (IF opts.comps = <<>> THEN Components ELSE ToSet(opts.comps)) \X Servers

Chosen == {i \in Targets : opts.servers = {} \/ i[2] \in opts.servers}

\* A server starts in its directory, and not while a lost process of it holds
\* its ports.
Startable == files \ lost

\* What a started instance runs with: it keeps the parameters it has unless
\* it is started with parameters or for the first time.
GivenTo(started, cfg) ==
    [i \in Instances |->
        IF i \in started /\ (opts.wp \/ mem.status = "DEPLOYED" \/ runs[i] = None)
        THEN cfg ELSE runs[i]]

\* The directories of these instances are removed; their processes are
\* killed with them, if they are found.
RemoveFiles(removed) ==
    /\ up' = up \ removed
    /\ \E kept \in SUBSET (up \cap removed) : lost' = lost \cup kept

\* A stop succeeds although these instances stay: the stop plugins also return
\* true when a kill is not permitted or has no effect, and general/0.1 tries no
\* further server then.
Stay(kept) == IF kept = {} THEN UNCHANGED mishaps ELSE Mishap("stay")

InstallRepositories ==
    /\ Doing("install")
    /\ \/ /\ Readable /\ (files = {} \/ opts.force)
          /\ files' = Instances
          /\ runs' = [i \in Instances |-> None]
          /\ RemoveFiles(Instances)
          /\ Proceed
       \/ \E some \in SUBSET Instances :
          LET cleaned == IF opts.force THEN some ELSE some \ files IN
          /\ Readable
          /\ files' = files \cup some
          /\ runs' = [i \in Instances |-> IF i \in cleaned THEN None ELSE runs[i]]
          /\ RemoveFiles(cleaned)
          /\ Fail
       \/ ~Readable /\ Fail /\ UNCHANGED <<up, lost, files, runs>>
    /\ UNCHANGED <<disk, mem, opts, stayed, done, saved, edits, mishaps>>

StartServers ==
    /\ Doing("start")
    /\ \/ /\ Targets \subseteq Startable
          /\ up' = up \cup Targets
          /\ runs' = GivenTo(Targets \ up, config)
          /\ stayed' = stayed \ (Targets \ up)
          /\ done' = done \cup Targets
          /\ Proceed
       \/ \E some \in SUBSET (Targets \cap Startable) :
          /\ up' = up \cup some
          /\ runs' = GivenTo(some \ up, config)
          /\ stayed' = stayed \ (some \ up)
          /\ Fail /\ UNCHANGED done
    /\ UNCHANGED <<disk, mem, opts, lost, files, saved, edits, mishaps>>

StopServers ==
    /\ Doing("stop")
    /\ \/ /\ \E kept \in SUBSET (Chosen \cap up) :
              up' = (up \ Chosen) \cup kept /\ stayed' = stayed \cup kept /\ Stay(kept)
          /\ Proceed
       \/ /\ \E some \in SUBSET Chosen : up' = up \ some
          /\ Fail /\ UNCHANGED <<stayed, mishaps>>
    /\ UNCHANGED <<disk, mem, opts, lost, files, runs, done, saved, edits>>

\* What stays through the stop is skipped by the start: it keeps its process
\* and its parameters.
RestartServers ==
    LET new == IF opts.wp /\ Changed(mem) THEN tmp ELSE config IN
    /\ Doing("restart")
    /\ \/ /\ Chosen \subseteq Startable
          /\ \E kept \in SUBSET (Chosen \cap up) :
              /\ runs' = GivenTo(Chosen \ kept, new)
              /\ stayed' = (stayed \ Chosen) \cup kept
              /\ Stay(kept)
          /\ up' = up \cup Chosen
          /\ done' = done \cup Chosen
          /\ Proceed
       \/ \E stopped \in SUBSET Chosen : \E some \in SUBSET (stopped \cap Startable) :
          /\ up' = (up \ stopped) \cup some
          /\ runs' = GivenTo(some, new)
          /\ stayed' = stayed \ some
          /\ Fail /\ UNCHANGED <<done, mishaps>>
    /\ UNCHANGED <<disk, mem, opts, lost, files, saved, edits>>

ReloadServers ==
    LET Reloaded(some) == [i \in Instances |-> IF i \in some THEN tmp ELSE runs[i]] IN
    /\ Doing("reload")
    /\ \/ AllUp /\ runs' = Reloaded(Instances) /\ Proceed
       \/ \E some \in SUBSET up : runs' = Reloaded(some) /\ Fail
    /\ UNCHANGED <<disk, mem, opts, up, lost, files, stayed, done, saved, edits, mishaps>>

\* _destroy_cluster refuses a cluster whose servers run, or stops it.  For
\* the stop the deployment is recorded as running; if the stop fails, as what
\* it was before.
CheckServers ==
    /\ Doing("check")
    /\ \/ StatusCheck = Stopped /\ Proceed
       \/ StatusCheck # Stopped /\ ~opts.force /\ Fail
       \/ /\ StatusCheck # Stopped /\ opts.force
          /\ todo' = S("status", "RUNNING", "ignore")
                     \o StopSteps(<<>>, {}, mem.status) \o Tail(todo)
    /\ UNCHANGED <<disk, mem, opts, cluster, done, saved, edits, mishaps>>

\* The errors of the workflow destroy are ignored.
WipeServers ==
    /\ Doing("wipe")
    /\ \E some \in SUBSET Instances :
        files' = files \ some /\ RemoveFiles(some)
    /\ Proceed
    /\ UNCHANGED <<disk, mem, opts, runs, stayed, done, saved, edits, mishaps>>

-----------------------------------------------------------------------------
\* The end of a command.
Finish ==
    /\ todo = <<>> /\ opts # Idle
    /\ opts' = Idle /\ mem' = Fresh /\ done' = {}
    /\ UNCHANGED <<disk, todo, cluster, saved, edits, mishaps>>

\* obd is killed between two steps.
Crash ==
    /\ todo # <<>> /\ Mishap("crash")
    /\ Abort
    /\ UNCHANGED <<disk, mem, opts, cluster, done, saved, edits>>

\* A server dies.
Die(i) ==
    /\ i \in up \cup lost /\ Mishap("die")
    /\ up' = up \ {i} /\ lost' = lost \ {i}
    /\ UNCHANGED <<disk, mem, todo, opts, files, runs, stayed, done, saved, edits>>

Command ==
    \/ \E k \in ConfigStatus : EditConfig(k)
    \/ RevertConfig \/ ReloadCluster \/ PruneConfig
    \/ \E force \in BOOLEAN :
        DeployCluster(force) \/ DeployNewConfig(force) \/ DestroyCluster(force)
        \/ RedeployCluster(force)
    \/ \E comps \in ComponentLists, servers \in ServerLists :
        \/ StopCluster(comps, servers)
        \/ \E wp \in BOOLEAN :
            StartCluster(comps, servers, wp) \/ RestartCluster(comps, servers, wp)

FileStep ==
    \/ DumpDeployInfo \/ CreateDeployConfig \/ CopyTempConfig \/ ApplyTempConfig
    \/ ReapplyTempConfig \/ DumpDeployConfig \/ Save

ServerStep ==
    \/ InstallRepositories \/ StartServers \/ StopServers \/ RestartServers
    \/ ReloadServers \/ CheckServers \/ WipeServers

Next ==
    \/ Command \/ FileStep \/ ServerStep
    \/ Finish \/ Crash \/ \E i \in Instances : Die(i)

Spec == Init /\ [][Next]_vars
-----------------------------------------------------------------------------
(* What obd promises about a deployment, on what is read back from .data.   *)

Phase(status) ==
    IF info = Absent
    THEN "absent"
    ELSE CASE status = "CONFIGURED"                         -> "configured"
           [] status = "DESTROYED"                          -> "destroyed"
           [] status \in {"DEPLOYED", "STOPPED", "RUNNING"} -> "live"

Promise == INSTANCE DeploymentPromise WITH
    phase <- Phase(Loaded.status), serving <- (up \cup lost) \ stayed

\* Servers run only while the deployment is recorded as live, whatever fails
\* and wherever obd is killed between two steps, but for the servers that
\* stayed through a stop that reported success (general/0.1/stop.py:62,
\* oceanbase/4.2.1.4/stop.py:145).  Holds for one server per component (see
\* WipesNothingRunning), while no write is torn, since a .data that cannot
\* be read counts as configured, and while no copy fails, since that removes
\* .data.
KeepsPromise == Promise!Spec

-----------------------------------------------------------------------------
(* Properties.                                                              *)

Records(status) == info.status # status /\ info'.status = status

\* No component is named twice: the code compares numbers of names
\* (core.py:2441).
NoneTwice(comps) == Cardinality(ToSet(comps)) = Len(comps)

\* Only a command that has itself started or restarted, or found running,
\* every server of every component records the deployment as running ("If
\* not all components are started, it does not enter the running state",
\* docs/zh-CN, obd cluster start -c).  Excepted are a command that names a
\* component twice, as `start -c a,a`, which the code takes for one that
\* names two, and destroy -f, which borrows the status to stop servers.
RunningMeansStarted ==
    [][Records("RUNNING") /\ Head(todo).orelse # "ignore" /\ NoneTwice(opts.comps)
       => done = Instances]_vars

\* When a deployment is recorded as stopped none of its servers runs but
\* those that stayed through a stop that reported success, unless the record
\* restores the one destroy -f found.
StoppedMeansStopped ==
    [][Records("STOPPED") /\ Head(todo).orelse # "ignore" => up \subseteq stayed]_vars

\* The waiting configuration becomes the one in force only when every server
\* that runs has been given it: no server is left behind with the old one
\* while the deployment counts as unchanged, wherever a workflow fails, a write
\* is refused or obd is killed between two steps (for one server per component,
\* and neither torn writes nor failing copies, as KeepsPromise).  Excepted are
\* the servers that stayed through a stop that reported success, which the
\* start of a restart skips (oceanbase/3.1.0/start_pre.py:110), and a restart
\* that names a component twice.
ApplyMeansConfigured ==
    [][Doing("apply") /\ tmp # None /\ NoneTwice(opts.comps)
       => \A i \in up \ stayed : runs[i] = tmp]_vars

\* Between commands the configuration that is, or is going to be, in force
\* is the one the user saved last: none of edit-config, its return to the
\* old configuration, reload, restart, redeploy and destroy loses an edit,
\* wherever a workflow fails, as long as obd is not killed and can write its
\* files.
Effective ==
    IF Changed(Loaded) /\ tmp # None THEN tmp ELSE config

EditNotLost == opts = Idle /\ mishaps = 0 => Effective \in saved

\* destroy never removes the files of a component all of whose servers run,
\* although cluster_status_check takes False for 0: at worst all of them have
\* stayed through a stop that reported success.
WipesNoRunningComponent ==
    [][Doing("wipe") =>
        \A c \in Components : {c} \X Servers \subseteq up => {c} \X Servers \subseteq stayed]_vars

\* "If an ongoing process is found in the working directory, OBD will stop
\* the `obd cluster destroy` command." (docs/en-US/300.obd-command/
\* 100.cluster-command-groups.md)
WipesNothingRunning == [][Doing("wipe") => up = {}]_vars
=============================================================================
