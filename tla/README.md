# A formal model of OceanBase Deployer (obd)

obd installs, starts, reconfigures, upgrades and removes clusters of OceanBase
and its companion components (proxies, agents, monitoring, ...) over SSH. It has
no daemon: every `obd ...` command is a process that locks some files under
`~/.obd`, reads what earlier commands left there, works on servers through
plugins, and writes down how far it got. What can go wrong is therefore less in
any single function than between them: two commands at once, a command that
dies in the middle, a command whose server step fails half-way, and the command
that comes after.

This directory holds TLA+ modules for that behaviour, the TLC configurations
that check them, and proofs for TLAPS. `PROJECT.json` lists every run, what each
definition translates, and for each property a mutation of the model that
breaks it.

    tlc -workers 2 -config LifecycleRecovers.cfg MCLifecycle
    tlapm ComponentChange_proofs.tla

## 1. The system

### Inventory

| Component | Source | State it keeps | Operations |
|---|---|---|---|
| File locks | `_lock.py` | per process and path: shared and exclusive counts over one `flock`; per home: the requests to undo | shared and exclusive lock and unlock, escalation with retries, downgrade, lock modes, shutdown at exit |
| Life cycle of deployments | `core.py` (`ObdHome`), `_deploy.py` | `.data` (status, config status, components), `config.yaml`, `tmp_config.yaml`, `inner_config.yaml`; in memory `Deploy._info`, `Deploy._config` | edit-config, deploy, start, stop, restart, reload, redeploy, destroy, prune-config, list, display |
| Upgrade | `core.py` `upgrade_cluster`, `_deploy.py` | status `upgrading`, `.upgrade` (component, route, index, backup path) | start, one workflow per hop of the route, resume, stop |
| Component changes | `core.py`, `component_change_handler.py` | the same files, plus a configuration fragment | component add and del, scale_out, reinstall, change-repo, take-over |
| Configuration model | `_deploy.py`, `_types.py`, `config_parser` | the parsed configuration, its caches | load, include files, compare, encrypt passwords, dump, dependency order |
| Commands | `_cmd.py`, `_environ.py` | options, environment | parse, open a home, run, report |
| Workflow engine | `_workflow.py`, `core.py` `run_workflow` | stages of every component, sub-workflows | build, iterate stage by stage over the components, stop at the first failure |
| Plugins | `_plugin.py`, `_manager.py`, `plugins`, `workflows` | returns and variables of a namespace | choose the best version, import, call |
| Repositories | `_repository.py` | installed packages, instance and shadow (tag) directories, links | install a package, tag, search, delete |
| Mirrors | `_mirror.py`, `_rpm.py` | repository files, caches of package lists, their age | add, update, search, download |
| SSH | `ssh.py` | connections | run a command, send and fetch files |
| Web service | `service` | a registry of tasks, contexts of handlers | HTTP handlers that run `ObdHome` operations in background threads |
| Tools, optimizer, console | `_tool.py`, `_optimize.py`, `_stdio.py`, `tool.py`, `log.py`, `executer27.py` | installed tools; terminal | install, tune, print |
| Web front end | `web` | (none of the system's) | a user interface |

### How they interact

`ObdCommand.do_command` opens an `ObdHome`, which takes the global lock shared
and creates the managers (deployments, repositories, mirrors, plugins) lazily.
`DeployManager.get_deploy_config` locks the deployment exclusively (shared for
reading) and returns a `Deploy`, whose `deploy_info` is loaded from `.data` the
first time and then kept. A command checks the status, runs workflows - for
each stage the plugins of every component, in dependency order - and calls
`update_deploy_status`, which rewrites `.data`. A home can `fork()` another one
on the same lock manager (restart, reload, destroy and redeploy do), or a
command can construct a second `ObdHome` with a lock manager of its own that
shares the process's lock objects (tuning, mysqltest). Locks are undone when
the lock manager is collected and, for the rest, when the process exits.

### What is hard, and what makes each part correct

* **Locks.** Several processes; `flock` does not convert a lock atomically; the
  counts of a process may get ahead of the kernel; release happens in a
  destructor that may fail and whose errors Python ignores. *Correct* means: a
  command that counts an exclusive lock has it and is alone; a second home
  never releases what the first relies on; whoever waits stops waiting.
* **Life cycle.** Every command is a sequence of steps on servers and on files;
  each may fail or be the last one, and the next command sees only the files.
  *Correct* means: servers run only while the deployment is recorded as live;
  what is recorded as running was started and what is recorded as stopped is
  stopped; an edit is neither lost nor in force before all servers have it;
  nothing that runs is wiped. Stop plugins report success for servers they could
  not stop, so that each of these can only be true of the others (section 5).
* **Component changes.** What belongs to a deployment stands in two files,
  `.data` (components) and `config.yaml` (their servers), that are written one
  after the other, after work on servers that may fail anywhere. *Correct*
  means: the files fit each other wherever a command was cut off; a deletion
  touches only what it was told to, and nothing that another component needs;
  what has left the files has stopped.
* **Upgrade.** A chain of hops, each a list of steps, each step over all
  packages of the hop or all zones; any of them may fail, be interrupted or be
  the last thing obd does, and the next command resumes from a file. *Correct*
  means: scripts and versions keep step; one zone is down at a time; what is
  recorded is what runs; parameters come back.
* **Configuration.** Which of reload, restart and redeploy a change needs,
  decided in a loop that remembers drafts it has refused. *Correct* means never
  less than some change needs, and nothing written for a refused draft.
* **Workflows and dependencies.** Plugins of several components are merged stage
  by stage; a plugin may need another component to answer. *Correct* means:
  dependencies first, every plugin finds what it talks to, and a command that
  reports success has done its work.
* **Web service.** One process and one `ObdHome` for all requests, a registry of
  tasks, tasks that time out while their thread goes on. *Correct* means: a
  task ends once, tells the truth, and works on the deployment it was asked for.
* **Repositories, mirrors, plugin choice.** Files shared by commands under one
  lock, caches with an age, the greatest version not above the wanted one.

`PROJECT.json` lists the hazards at their lines, with the properties that
watch over each.

## 2. The modules

| Module | What it is |
|---|---|
| `LockPromise` | abstract: readers and writers of lock files |
| `MixLock` | the locks in detail; refines `LockPromise` with one home per process |
| `DeploymentPromise` | abstract: phases of a deployment, and servers that run only in the live one |
| `ClusterStatus` | `cluster_status_check` as operators, with Python's `==` |
| `Lifecycle` | the commands on one deployment; refines `DeploymentPromise` |
| `EditConfig` | the loop of edit-config: what is checked, and which effect a change gets |
| `ComponentChange` | component add and del, scale_out, and what the web service does to the same end |
| `UpgradePromise` | abstract: zones that advance together through the stages of a route |
| `Upgrade` | upgrade_cluster and the Upgrader of the database; refines `UpgradePromise` |
| `Workflow` | merging of workflows, and the templates of seven components, as operators |
| `Schedule` | dependencies, their order, and start, stop and restart plugin by plugin |
| `WebTask` | requests, background functions and timeouts of the web service |
| `MixLock_proofs`, `Lifecycle_proofs`, `EditConfig_proofs`, `ComponentChange_proofs`, `Upgrade_proofs`, `Schedule_proofs`, `WebTask_proofs` | theorems about the module of that name |
| `LifecycleRecords_proofs` | theorems about what `Lifecycle` records, over `Lifecycle_proofs` |
| `MC...` | instances for TLC |

How they fit: `MixLock` is what makes it right that the other modules let one
command at a time work on a deployment; `WebTask` is the place where that is
not so. `Lifecycle` takes a workflow as one step that may stop anywhere, and
the effect of an edit as a free choice; `Schedule` (with `Workflow`) opens the
first, `EditConfig` the second. `ComponentChange` and `Upgrade` continue a
deployment that `Lifecycle` has brought to RUNNING.

### MixLock

One process slot is one obd command, which `Launch`es at most `MaxLaunches`
times. `kernel` is the external `flock` table; `sh` and `ex` are `_sh_cnt` and
`_ex_cnt` of the process's `MixLock` of a path; `held` is `LockManager.locks`
of each home. `ShLock` and `ExLock` are the requests, `Escalate` and `Attempt*`
the conversion of a shared lock (`lock_escalation`): `flock` drops the old lock
before it tries for the new one, so a waiting process has nothing while it
still counts its shared request. `CloseHome`, `ShUnlock`, `ExUnlock` and
`Downgrade` are `LockManager.__del__`, which undoes requests last first; a
refused downgrade ends it, because an exception in `__del__` is ignored, and
the rest of that home's requests stay counted until the process exits
(`Shutdown`). `Crash` is a killed process: the kernel closes its files.
`SetLockMode` compares what the environment holds, a string, with the
enumeration's integers, and therefore never matches.

*Abstractions.* Paths are model values; which of them an operation of obd takes
is left open, so any sequence of requests is covered. A home is released as a
whole between two other actions of its process, as the interpreter does.
Sleeping between attempts is left out: an attempt may come at any time.

### Lifecycle

A running command is the sequence `todo` of its remaining steps, built when it
begins from the status it loaded (`mem`, the `Deploy._info` that is never read
again) and its options. Each step is an action: the writes of the four kinds of
files (`DumpDeployInfo`, `CreateDeployConfig`, `CopyTempConfig`,
`ApplyTempConfig`, `DumpDeployConfig`) and the workflows on servers
(`InstallRepositories`, `StartServers`, `StopServers`, `RestartServers`,
`ReloadServers`, `CheckServers`, `WipeServers`). A step says in `orelse` what
its command does when it fails: give up, go on, leave out the next step (the
`a() and b()` of the code), or put something back. A workflow succeeds or
affects any part of its servers and fails, which covers every place where one
of its plugins may stop. `Crash` kills obd between any two steps; a torn write
(`torn`) is a kill inside one. `Die` is a server that ends by itself. A stop, or
the stop of a restart, may succeed although servers stay (`Stay`, the mishap
`stay`): the stop plugins return true when a kill is not permitted or has no
effect. `stayed` remembers them until they are started as new processes; what
follows (STOPPED recorded, files wiped, the start skipping them) is what the
code does.

A configuration is its number. Which effect an edit needs is a free choice
among those the status allows (`Effects`); `EditConfig` says how it is made. `saved` remembers which configuration the user was last told
is saved, and is a set while a command has not yet told.

*Abstractions.* One step per workflow instead of one per plugin; the start
check, display and parameter checks of a command change no state and are part
of the failing branches. A server runs or does not; bootstrap, and processes
that start and then end, are a start that fails or a server that dies. `lost`
are processes whose directory was removed while they ran, which no later
command can find by their pid file; they keep their ports, so that a server of
the same name cannot start. Commands on one deployment exclude each other by
its lock, which is the business of `MixLock`; the deployment lock taken shared
in development mode is not modelled here. The options `--force-delete` and
`--skip-...`, password encryption, and the status `upgrading` are left out.

### EditConfig

One command is a walk of `pc` over the checks of `edit_deploy_config`, in their
order; `Refuse`, `Again` and `Return` are its `continue`s, questions and ends. A
draft is its difference to the configuration in force: components, groups of
attributes, and per component the strongest effect of a changed parameter.
`config_status`, `added` and `removed` survive from draft to draft, as the
variables of the Python loop do. `ClassifyComponent` takes the components one
by one; `SaveConfig` and `SaveWaiting` are the two ways to write. `drafts`,
`wider`, `written` and `result` are history, for the properties.

### ComponentChange

A site is a component on a server. `recorded` is the list of components in
`.data`, `config` the sites and the `depends` in `config.yaml`, `mem` both as
the running command has changed them in memory, `up` and `files` what runs and
what is installed. Commands begin with the guards of `add_components`,
`scale_out` and `delete_components` in `core.py`, or with the much weaker ones
of `component_change_handler.py` (`WebAddComponents`, `WebDelComponent`,
`RemoveComponent`), and walk through `InitServers`, `StartServers` or
`EraseServers` (the web service's own variants go component by component),
`DumpDeployConfig`, `DumpDeployInfo` and `RestartAdded`. Both files are rewritten
in place: a kill inside a write leaves a part of `config.yaml`, or a `.data` that
counts as configured (`TearDeployInfo`). What a deletion stops may stay although
the stop succeeded (`kept`); its directory is removed all the same, and it is then
`lost`: it holds its ports, and no command finds it by its pid file. Additions write
`config.yaml` first, deletions `.data`. `Added` and `Without` are the changes to
the configuration in memory, including the dependences that are dropped and
those that `add_component_pre` adds. `Erased` is what `get_workflows` makes of
an empty list.

*Abstractions.* Start and stop of the whole deployment are one step each that
may affect any part. Which components have which workflow is a constant. An
addition of the web service and the request that prepares it are one step, and
so is what `precheck` would do in between. Options only matter where they
change control (`--force`).

### Upgrade

The packages on the way are numbers; `plan.required` cuts the route into hops.
`ctx` is `upgrade_ctx` in memory and `meta` in `.upgrade`; `upgrader` is the
`Upgrader`, which copies the context when it is made and writes it back by
`_dump`. `Process` is its list of steps; `ExecPre` and `ExecPost` run one
package's script, `UpgradeZone`, `StartZone`, `Install`, `Stop`, `Start`, `Wait`
and `CheckZone` the rolling upgrade of one zone (of all at once with two zones
or less). Faults: a failing step, SIGINT (`SignalHandler` dumps and ends), a
kill, a torn `.upgrade`, and a `Stop` that succeeds with servers of the old package
still running, which `Start` then skips (`stayed`); the module also has the ignored
failures of installing, of `start_upgrade` and of recording the package, which no
run uses.

### Workflow and Schedule

`Workflow` builds a workflow as the templates do, from `Nothing` by adding plugins
to stages (`Add`), and merges those of all components as `WorkflowsIter` does
(`Merged`: stage by stage; `OfStage`: in a stage component by component, with the
component's own templates in order). It has the templates of start, display, stop, restart_pre and restart for ob-configserver, oceanbase,
obproxy, prometheus, alertmanager, ocp-express and obbinlog-ce. `Schedule` loads
the declared dependencies (`LoadDepends`, where a direct circle raises and the
rest is dropped), sorts them (`SortOne`, `SortAgain`: the loop of
`sorted_components`, one component per step), builds the workflows and runs
their plugins one by one. `Needs` says to which components a plugin connects.
A fault may be a plugin that fails half-way; a stop that succeeds with processes of
any component, the database included, still running (`denied`); or binlog instances
that `instance_manager` gives up on, after 30 questions, and still returns true
(`gaveUp`).

### WebTask

`Request` is the guard on the event loop, `Register` the start of the
background function in `AutoRegister`, which replaces the record of that name
and kind; `Return`, `Raise` and `Timeout` are its three ends; after a timeout
the function's own thread goes on. The functions (install, start, stop,
destroy) are steps between which other threads may run; what they read from
`ObdHome.deploy` and `options` they read from `home` and `scope` at that moment.

## 3. The runs

Sizes are distinct states, times those of TLC with two workers on a small
machine.

| Run | Instance | Shows |
|---|---|---|
| `lock_one_home` | 3 processes, 2 paths, one home each; up to 3 requests per home; one process polls for ever; fairness. 168,741 states, 3 min | `TypeOK`; `MixLock` implements `LockPromise`: nobody reads what another may write; `EscalationEnds` |
| `lock_two_homes` | 2 processes, 2 paths, 2 homes, one process in development mode, 2 attempts. 355,425 states | `ExclusiveHeld`, `OuterKeepsLock`, `RequestsCounted` |
| `recovers` | 2 components of one server; `-c` with none, one, or one named twice; 2 mishaps among a refused write, a kill, a dying server, a stop that leaves servers running; 3 configurations. 2,361,118 states, 1.5 min | `TypeOK`, `EditNotLost`, `ApplyMeansConfigured`; `Lifecycle` implements `DeploymentPromise` |
| `many_servers` | 2 components of 2 servers, `-c` (also with one name twice) and `-s`; one mishap among a kill, a torn write, a failing copy, a dying server, a stop that leaves servers running; 1 configuration. 779,582 states | `WipesNoRunningComponent`, `RunningMeansStarted`, `StoppedMeansStopped` |
| `wipes` | 2 components of 2 servers, no mishap | violates `WipesNothingRunning` (section 5) |
| `edit_config` | 4 names, 3 installed, 2 with a parameter plugin, one dependence; every draft with a difference of each kind and one that goes with it. 1,681,727 states, 1 min | `TypeOK`, `RefusedWritesNothing`, `EffectEnough`, `EffectNeeded`, `ComponentsKept` |
| `component_change` | a database that may grow by a server and two components that may come and go, one of which the others depend on and talk to; one mishap among a kill between or inside writes, a refused write, a dying server, a stop that leaves servers running. 515,059 states, 1 min | `TypeOK`, `RecordedConfigured`, `ErasesOnlyNamed`, `DeletedIsGone`, `NeededStays` |
| `web_tasks` | 1 deployment, 2 components, 2 requests of any kind, a thread for each; fairness. 44,467 states | `TypeOK`, `FinishedIsFinal`, `InstallToldTrue`, `RequestsAnswered` |
| `web_shared` | 2 deployments, 2 requests | violates `WorksOnNamed` (section 5) |
| `upgrade` | 2 or 3 zones, 3 packages, any of them required; 3 faults; fairness. 384,786 states | `TypeOK`, `ScriptsInStep`, `OneZoneDown`, `RecordedIsRun`, `ParametersRestored`, `UpgradeEnds`; `Upgrade` implements `UpgradePromise` |
| `schedules` | five lists of components (all seven occur), three of them with every declaration of a few dependencies, circles included; one fault; fairness. 408,780 states | `TypeOK`, `DependenciesSorted`, `NeedsMet`, `SuccessMeansDone`, `InstancesStoppedFirst`, `SortEnds` |
| `restart_rolling` | a database of 3 zones, no fault | violates `RestartsZoneByZone` (section 5) |

**Bounds.** *Locks:* three processes are what it takes for a third one to
interfere with a conversion that two others fight for; two paths for crossing
waits; three requests for a shared request below and above an exclusive one.
*Life cycle:* two components with two servers are what it takes to have one
stopped, one half-running and one running component, the only distinctions
`cluster_status_check` makes. Steps on servers fail without a bound. With one
server per component, two mishaps are one and another while recovering from it;
with two servers one is allowed, and the proofs lift both bounds. Three configurations are one in force, one waiting and one
that replaces the waiting one. *edit-config:* any number of drafts follow each
other, since only what they leave in three variables is kept; a draft with two
differences is enough for one to hide the other. *Component changes:* a
component that another depends on, one that depends on it, and a database,
which no deletion can erase; commands come in any number and order, so
that failed additions and deletions pile up. Failing plugins are not bounded;
a kill, a refused write, a death or a stop that leaves servers running is one per
behaviour, and the proofs lift that bound. *Upgrade:* with three packages there is one before, one at and one
after the point where a hop ends; three zones are upgraded one by one, two at
once; the third fault hits the recovery of a recovery. *Schedules:* circles of
two and three, a name that is no component, the order of listing that makes the
sort loop go round most often, and a binlog service without a database of its
own. A command begins on a deployment that runs, that does not, of which only the
database does, or whose last rolling restart left a zone stopped. *Web tasks:* one request whose task times out
and goes on, and one that comes after it. `MaxHeld`, `MaxShared`, `MaxLaunches`,
`MaxMishaps`, `MaxEdits`, `MaxFaults` and `MaxRequests` bound what is unbounded
in the code, and each appears in a guard.

**Deadlock** is checked in `edit_config`, where a command can always begin.
Elsewhere the system may really stop: every launch, request or edit is used up,
a command of `Schedule` is done, half a `config.yaml` or a component in `.data`
that `config.yaml` lacks is more than any command can load.

**Fairness.** Nothing is assumed of launching, interrupting or killing, nor of
what a user asks for.

* `lock_one_home`: a waiting process keeps polling (`_lock_escalation` is a loop
  with a sleep), a running command ends, and a process that ends undoes its
  locks: weak fairness of `Attempt`, `EndCommand` and `Release`. With two
  commands that poll for ever the property is false: each can keep the shared
  lock the other waits for. That is a limit of the code (`set_try_times(-1)` in
  edit-config) and the reason why the instance has one such command.
* `web_tasks`: the pool takes up what is queued (`Register`), and the wait for a
  function ends after an hour (`Timeout`). Nothing is assumed of the functions
  themselves: they may hang for ever. With fewer threads than requests, such a
  function would keep the others waiting, because it keeps its thread.
* `upgrade`: a command goes on; the operator repeats a command that has failed
  (`ResumeUpgrade`), and interrupts one that waits for servers which are down
  (`GiveUp`), for its loop would never end.
* `schedules`: the sorting loop goes on, as a loop does.

## 4. The proofs

From the assumptions on the constants (`LockAssumption`, `LifecycleAssumption`,
`EditAssumption`, `ComponentAssumption`, `UpgradeAssumption`,
`ScheduleAssumption`, `WebTaskAssumption`), for any number of processes, paths,
components, servers, zones, drafts, requests and mishaps. A theorem that needs
more says so in its `ASSUME`; each such hypothesis is false of obd in general,
and what then goes wrong is told in section 5:

| Hypothesis | Theorems | Without it |
|---|---|---|
| `Homes = {Main}`: one home per process | `LocksKeepPromise` | two homes of a process share its counts, so that its mode is not that of one reader or writer |
| `Careful` of the upgrade: none of the three failures whose results are ignored | `ScriptsKeepStep`, `RecordedRuns`, `ParametersBack`, `UpgradeKeepsPromise` | zones restart with the package they had and count as upgraded |
| `OneServer`: one server per component | `DeploymentKeepsPromise`, `AppliedIsConfigured` | the run `wipes`: a half-running component passes for a stopped one |
| `Careful` of the life cycle: no torn `.data`, no failing copy | the same two | both make a deployment that runs look as if it had just been configured |
| `Single`: one deployment | `InstallTrue` | the run `web_shared` |

Two things are excepted in the properties themselves, so that the runs check and the
theorems state the same: what a stop that reported success left running
(`stayed` in `KeepsPromise`, `StoppedMeansStopped`, `ApplyMeansConfigured`,
`WipesNoRunningComponent`, `ScriptsInStep`, `RecordedIsRun` and the `KeepsPromise` of
the upgrade; `lost` in `DeletedIsGone`; `denied` and `gaveUp` in `SuccessMeansDone` and
`InstancesStoppedFirst`), and a command whose `-c` names a component twice
(`RunningMeansStarted`, `ApplyMeansConfigured`). Without its exception each of these
fails. The exceptions are of single servers and commands (of the binlog instances, which
the model has as one, together): a server that stayed must not make obd go wrong about
any other.

Of the constants the assumptions ask what the configuration and the templates do:
the modelled components have different names (`WorkflowAssumption`); in
`ScheduleAssumption` a component is listed once (the keys of a dictionary), zones
and components have different names, and there is a database where a template
calls plugins of one: for ocp-express, and for a binlog service that depends on
something (`ob_repository.name` raises otherwise).

Each invariant was first checked by TLC on the instance of a run. Where a proof
did not go through, the reason was in the model twice: two branches of `Phase`
overlapped, so that it was not determined which one counts; and
`ApplyMeansConfigured` had been stated without mishaps only, and holds with them.

`MixLock_proofs`

* `TypeCorrect`: `Spec => []TypeOK`. It needs `Waiting` and the other parts of
  `Control`: a process that waits to convert a lock waits for a path, so that
  what it then counts and remembers is a path.
* `ExclusiveSafe`: `Spec => []ExclusiveHeld`. The invariant is not inductive: the
  kernel's table must itself be exclusive (`KernelExclusive`); and the end of a
  downgrade turns the kernel's lock into a shared one, which keeps
  `CountedIsHeld` only if no exclusive count is left on that path
  (`Converting`) and a process that runs is not in the middle of one
  (`NotConverting`). `IInv` is their conjunction; there is one lemma per
  action, then `InvInit`, `InvNext`, `InvSafe` and the theorem.
* `CountsSuffice`: `Spec => []RequestsCounted`, by the same statement for every
  path and both kinds (`AllCounted`): there are never more requests of the homes
  of a process on a path than it counts. A release takes one request and one
  count, in either order; a release that is cut off leaves counts, never requests.
* `OuterLockKept`: `Spec => []OuterKeepsLock` follows: the outer home's request is
  counted, and by `CountedIsHeld` what is counted exclusively is held.
* `LocksKeepPromise`: `MixLock` implements `LockPromise` with one home per process.
  `PInv`: a process that reads has the kernel's lock (`Backing`), one that runs no
  command counts nothing (`Fresh`), and there is no second home to close
  (`NeverClosing`). Every action is then a request, a release or a stutter of the
  readers and writers.

`Lifecycle_proofs`: a command is the sequence of its remaining steps, and what
must be known of it is which kinds of steps are still to come (`Has`), which
never after which (`Never`) and which only behind which (`Behind`). These three
are kept by concatenation and by whatever a step leaves of the sequence (`Rest`:
the tail, the tail without its next step, a step put back, nothing), so that
each command is looked at once, when it begins, and each action once for all
commands.

* `LifecycleTypeCorrect`: `Spec => []TypeOK`. That a server is only given a
  configuration that exists needs `Formed` (what a command writes is a version),
  `Configured` (what reads `config.yaml` comes while it can be read or behind the
  step that writes it) and `Waiting` (what applies a change comes while
  `tmp_config.yaml` is there).
* `EditKept`: `Spec => []EditNotLost`. `Remembered` follows the edit that was saved
  last through edit-config (in force, or written but not yet marked), deploy and
  the commands that put a waiting configuration into force, up to the end of the
  command, and through the failures of steps on servers.

`LifecycleRecords_proofs`

* `StoppedIsStopped`, `RunningIsStarted` and `RunningKept` state
  `StoppedMeansStopped`, `RunningMeansStarted` and `WipesNoRunningComponent`.
  `Recorded`: what records STOPPED comes behind a stop, or nothing runs that a stop
  has not left behind (`Obeying`); what removes files comes behind the check or the
  stop, or no component runs whole but one that stayed whole (`NoneWhole`);
  what records RUNNING comes behind the start of everything, or all has been
  started; and after a step that may start servers none of these comes
  (`Ordered`).
* `DeploymentKeepsPromise`: `Lifecycle` implements `DeploymentPromise`. `Promised`
  adds that the status in memory is the one in `.data`, that servers run only
  while it is a live one, and none whose files are gone, those that stayed aside, and, of the
  steps to come, that what starts servers is behind the record that makes the
  deployment live.
* `AppliedIsConfigured`: `Spec => ApplyMeansConfigured`. `Supplied`: what puts the
  waiting configuration into force is behind the steps that give it to the
  servers, or those that run have it and nothing that starts comes before; a
  restart that is followed by it names all components and works with the waiting
  parameters.

`ComponentChange_proofs`: all five properties of the run. One invariant carries
them: `Loaded` says for each step of a command which of the two files may already
be written and that what is written next keeps every component of `.data`
configured, while every write is made as a whole (`Written`); `Agreed` is the
converse inclusion, which holds while obd has not been killed either
(`Unharmed`); `Fresh`, `Chosen` and `Placed` keep what the
guards of a command established (added components are new, deleted ones are
removable, what starts was installed) until the step that relies on it;
`Stopped` carries what a deletion stopped to the write that forgets it;
`LostStayed` says that only a stop which left servers running makes some lose their
directory. All
commands begin by one lemma (`Begun`), all ends by another (`Returned`), the two
deletions share a third (`ErasureStep`).

* `ChangeTypeCorrect`, `AlwaysLoadable`, `OnlyNamedErased`, `NeededKept` and
  `DeletedStopped` state `TypeOK`, `RecordedConfigured`, `ErasesOnlyNamed`,
  `NeededStays` and `DeletedIsGone`.

`EditConfig_proofs`

* `EditTypeCorrect`: `Spec => []TypeOK`, which needs that a command that waits to
  record an effect works on a deployed cluster (`OnlyDeployed`).
* `EffectIsEnough`: `Spec => EffectEnough`. `Broken` and `Found` say for each step
  of the loop what the draft's differences that were looked at have left in
  `config_status`; refused drafts can only have raised it.
* `EffectIsNeeded`: `Spec => EffectNeeded`. `Needed` goes the other way, for the
  first draft: whatever `config_status` is, one of the differences asks for it.
* `RefusedIsHarmless`: `Spec => []RefusedWritesNothing`, by `Untouched`: unless some
  draft had a component more, nothing is written before the end.
* `DeployedComponentsKept`: `Spec => ComponentsKept`, by `Compared`: which drafts
  have passed the comparison of the components, and what the comparison has put
  into `added` and `removed` for those that will end in a KeyError.

`Upgrade_proofs`

* `UpgradeTypeCorrect`: `Spec => []TypeOK`, from `TInv`: a context past its first
  step has a backup of the parameters (`Backed`, so that what is restored has a
  type), and a command is in a zone only in the step of the process that goes
  through them (`Placed`).
* `OneZoneAtATime`: `Spec => []OneZoneDown`, by `OneByOne`: of more than two zones
  at most one is down, and none where the next one is about to stop. Neither
  theorem restricts the faults.
* `ScriptsKeepStep`, `RecordedRuns`: `Spec => []ScriptsInStep` and
  `Spec => []RecordedIsRun`, from `SInv`. Three copies of the progress exist (the
  file, the command, the plugin); `Reached` says what each copy is worth: scripts
  that have run and versions that servers have. `Inside` says which copies agree
  at which step, `Outside` that before the deployment is recorded as upgrading
  nothing has changed and after it everything, `ZonesDone` how far the rolling
  upgrade is, `Scripted` that no server is ahead of the scripts. A zone whose server
  stayed counts with the package it was given (`Version`).
* `ParametersBack`: `Spec => []ParametersRestored`, by `Restorable`: as long as obd
  was not killed, whoever goes on with the upgrade has the user's parameters in
  the backup, and they are changed only between the steps that save and restore
  them.
* `UpgradeKeepsPromise`: `Upgrade` implements `UpgradePromise`: a zone advances only
  to the end of the hop all zones are in.

`Schedule_proofs`

* `SortedRespectsDependencies`: `Spec => []DependenciesSorted`, by `SortInv`: the
  three lists of the loop hold each component once between them (`Split`), a
  component depends on none that it does not declare (`DependsDeclared`), and what
  is sorted respects the dependencies.
* `ScheduleTypeCorrect`, `PluginsFindTheirNeeds`, `CommandKeepsItsWord`,
  `InstancesEndFirst`: `Spec => []TypeOK`, `Spec => []NeedsMet`,
  `Spec => []SuccessMeansDone` and `Spec => InstancesStoppedFirst`. The argument has
  three parts.
  (1) Flattening lays sequences out one after the other (`Laid`, `FlatIsLaid`), so
  every plugin of a merged workflow has a place - its stage, its component's
  place in the sorted list, its place in the template - and the plugins are in
  the order of their places (`Places`, `MergedPlaces`).
  (2) Each template is in order by itself (`StartRow`, `RestartRow`, ...: a
  component is checked before it is talked to, what is stopped is started and
  checked again, a stopped zone is started). With the order of the sorted
  components that gives what the properties need of the merged workflow, as
  relations between sets of its plugins: `Behind(q, A, B)`, each of A has one of
  B before it; `Closes(q, A, B)`, each of A has one of B after it;
  `Kept(q, A, B, C)`, between a C and a later A there is a B; `Has` and `Never`
  (`StartMerged`, `RestartMerged`, `StopMerged`, `QuietMerged`).
  (3) Each relation is kept when the first plugin is taken, and says something of
  that plugin (`TailBehind`, `TailCloses`, ...). So the relations of the queue,
  together with what has been done so far, are inductive (`RunInv`): every
  component is whole or will be checked before a plugin talks to it (`Checked`),
  its processes are accounted for or will be killed (`Bounced`), a stopped zone
  will be started (`ZonesBack`), and while binlog instances run, their end comes
  before that of what they need (`Instances`). There is one lemma per kind of
  plugin (`StartEffect`, `StopEffect`, ...) and one per step of a command.

`WebTask_proofs`

* `WebTypeCorrect`: `Spec => []TypeOK`, from `BInv`: the types, that a request is at
  a step exactly if it was accepted (`Accepted`), that a function that is not
  registered has written nothing (`Untouched`), that a destruction holds the
  deployment it works on (`Owned`, without which the status it would restore has
  no type), and that an installation takes none of the steps of the other
  functions (`OwnSteps`). Every step of a function is brought into one form
  (`Moved`) that keeps `BInv`.
* `RecordsFinal`: `Spec => FinishedIsFinal`. Only three steps write a record: a
  registration, of a record that by `Untouched` is pending; a timeout and a
  return, which look first whether it is running.
* `InstallTrue`: `ASSUME Single PROVE Spec => InstallToldTrue`, for one deployment
  and any number of tasks on it. `Progress` says at each step of an installation
  which components it has set up and started, unless it has noted a failure. That
  the others may set `ObdHome.deploy` to None in between is harmless, since the
  installation then fails; that they may set it to another deployment is what
  `Single` excludes and `web_shared` shows.

Some of these proofs reason by induction over data: along the list that is
flattened, along the recursive function that loads the dependencies. The library's
induction theorems take an operator as a parameter, which the provers cannot
instantiate; `UpTo` states induction with a set of numbers in its place, and follows from
the theorem that such a set has a least element (`WFMin`).

Only model-checked: liveness (`EscalationEnds`, `RequestsAnswered`, `UpgradeEnds`,
`SortEnds`), which is out of the prover's reach; and the properties that the runs
with an expected violation refute.

## 5. Where the code and its words differ

Three runs show it:

* `wipes`: `cluster_status_check` promises False for inconsistent states and
  returns 0 when the first component is stopped and a later one half-running,
  because Python's `0 != False` is false. destroy then wipes servers that run.
  What does hold is `WipesNoRunningComponent`.
* `web_shared`: all tasks of the web service share `ObdHome.deploy`; a task
  "to stop the cluster" of one name stops servers of another when a request for
  that one comes in between.
* `restart_rolling`: the zones of a "#rolling" restart are set on the shared
  configuration while the templates are built; the first stop kills all zones.

Met while modelling, told here without a violation run:

*Stops that report success.* `plugins/general/0.1/stop.py:61-68` returns true as soon as
one process may not be killed, and tries no further server;
`plugins/oceanbase/4.2.1.4/stop.py` ignores what its kills return (106) and, when ports
are still taken after 30 attempts, warns and returns true (145-152);
`plugins/obbinlog-ce/4.0.1/instance_manager.py:43-68` goes on after 30 questions with
the instances running, and returns true. Nobody looks again: stop records STOPPED
(`core.py:2965-2974`); destroy -f and redeploy remove the directories of running servers,
whose processes keep their ports and are lost to every later command, and record
DESTROYED; component del forgets such a server; a restart, or a zone of an upgrade,
starts nothing where a pid file names a running process
(`oceanbase/3.1.0/start_pre.py:110`), so that the old process, configuration or package
counts as the new one, and the upgrade runs its closing scripts. All four modules have
these steps, and their properties except the servers that stayed and no others.

*Locks and life cycle.* `OBD_LOCK_MODE` has no effect. `start -s` is computed and
ignored; `start -c a,a` counts names, not components, and records RUNNING while `b`
is down, and `restart --wp -c a,a` puts into force a configuration that `b` lacks (in
the runs, excepted by `RunningMeansStarted` and `ApplyMeansConfigured`). `.data` is rewritten in place and what cannot be read counts as configured, so that a kill
inside a write makes obd forget servers that run. edit-config answers success
when the config status could not be written or the copy to `tmp_config.yaml`
failed (`EditNotLost` is stated without those mishaps). A return to the old
configuration leaves `tmp_config.yaml` in place; obd killed in the next edit
between writing the config status and copying the file would later apply the
edit that was taken back. A failing copy of a new configuration removes the
deployment's whole directory, also when it is deployed. destroy ignores the
errors of its workflow.

*edit-config.* Declining the question about a changed version or hash leaves
NEED_REDEPLOY for the next draft (`core.py:876`). A draft with another component,
or the one after it, is copied to `config.yaml` before it is accepted
(`core.py:979`); adding or removing a component of a deployed cluster ends in a
KeyError, so that the advice to use `component add` is never given.

*Component changes.* (1) `get_workflows` takes an empty list for all
(`core.py:214`): after an addition that was killed, or refused, between its two
writes, `component del` of what it had added stops and removes every erasable
component. (2) Components without a workflow `delete_component` (ob-configserver,
obbinlog-ce, the database) are taken out of the files while they run; the same
holds for the servers of an addition or growth that failed: nothing names them.
(3) `component del prometheus alertmanager` stops prometheus in the first stage,
and alertmanager's second stage must then connect to it; the order computed in
`delete_components` has no effect, since workflows run in sorted order. The web
service has the right order. (4) `scale_out` of a component without that
workflow succeeds without starting anything. (5) A deletion whose write of
`.data` is refused leaves a component in `.data` that `config.yaml` lacks, and
every later command ends in a KeyError; the result of that write is ignored. A kill
inside a write of `config.yaml` does the same, one inside a write of `.data` leaves a
deployment that counts as configured.
(6) Additions and deletions of the web service look at the status of neither the
deployment nor its servers, and leave a dependence of others on a component
that failed. When a deletion fails, its handler fails too (it takes `.name` of
a string). (7) What `-f` of `component del` tolerates is not reached: the
status check before it already gives up when a server cannot be connected.

*Dependencies and workflows.* A direct circle makes `add_depend` raise inside
`_load`, which drops every dependency still to be read; a circle of three passes
and `sorted_components` never ends. A failed rolling restart leaves a zone stopped. A binlog
service that does not declare the database restarts before it.
`workflows/oceanbase/4.0.0.0/stop.py:22` reads its option from the wrong place.

*Upgrade.* The results of installing the new package on the servers, of
`start_upgrade` and of recording the package are ignored; each makes
`RecordedIsRun` fail. A kill in a hop loses the backup of the parameters, and a
torn `.upgrade` makes every resumption fail. `wait()` loops for ever when a
server is down. In `upgrade_route` a node is appended to its own list of direct
predecessors, so that a direct upgrade is never found. The guard against a
second upgrade of OCP looks for a kind of task that is never registered.

## 6. The plan

Done: the locks, the life cycle, edit-config, component changes, the upgrade,
workflows and dependencies, the web service's tasks; proofs of every safety
property that a passing run checks, and of the three refinements.

Next, in this order:

1. `Repository`: instances, tags and links, and their removal.
2. `Lifecycle` with `WebTask`'s interleavings, for the handlers that are missing.
3. `Schedule` with the stages of `upgrade`, `reload` and `destroy`, for which the
   relations of its proof should do as they are.

### Not modelled

* *Choice of the upgrade route* (`upgrade_route`): a search over data in a file of
  the package; `Upgrade` takes any route as given.
* *Plugin choice, package and mirror formats, option parsing, configuration
  parsing and password encryption*: pure functions over data, or I/O, without
  control that the properties could tell apart.
* *Repositories and mirrors*: file operations on the local host under the locks
  that `MixLock` models; planned in part.
* *reinstall, change-repo, take-over, tenant commands, tools, tuning, mysqltest*:
  commands over the same files and workflows; tuning and mysqltest enter
  `MixLock` as the second home they open.
* *Handlers of OCP, OMS, metadb, and the HTTP layer*: they repeat the pattern of
  `WebTask` over other components.
* *Other plugins*: most of the repository's files are scripts that run commands on
  one server; they enter as steps that succeed or fail half-way.
* *SSH, console, log, front end*: input and output.
