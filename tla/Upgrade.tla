-------------------------------- MODULE Upgrade --------------------------------
(***************************************************************************)
(* `obd cluster upgrade` of an OceanBase cluster: upgrade_cluster in       *)
(* core.py, the .upgrade file and the status in _deploy.py, and the        *)
(* Upgrader of plugins/oceanbase/4.2.1.4/upgrade.py.                       *)
(*                                                                         *)
(* The packages on the way are numbered 0 (current) to Last (target).  The *)
(* route is cut into hops at the packages whose binary is required; in a   *)
(* hop the scripts of each of its packages are run, and the servers go     *)
(* straight to the last one.  What is done is kept in upgrade_ctx, which   *)
(* goes to the file .upgrade after a hop, after a failure and on SIGINT,   *)
(* and from which the same command, called again, resumes.                 *)
(*                                                                         *)
(* One server stands for the servers of a zone.  The database, its SQL and *)
(* its scripts are outside: a call may succeed or fail.                    *)
(***************************************************************************)
EXTENDS Integers, Sequences, FiniteSetsExt

CONSTANTS
    AllZones,  \* zones that clusters may have
    Last,      \* the number of the target package
    Plans,     \* instances: the zones in order, the packages whose binary is required
    Faults,    \* what may go wrong: see Fault below
    MaxFaults  \* bound: how often

ASSUME UpgradeAssumption ==
    /\ Last \in Nat \ {0} /\ MaxFaults \in Nat
    /\ Plans \subseteq [zones : Seq(AllZones) \ {<<>>}, required : SUBSET (1..Last)]
    /\ Faults \subseteq {"step", "signal", "kill", "meta", "install", "start", "record", "stay"}

VARIABLES
    plan,      \* the zones and the route of this cluster; never changes
    status,    \* the deployment is RUNNING or UPGRADING (.data)
    recorded,  \* the package of the component (.data and config.yaml)
    meta,      \* upgrade_ctx in .upgrade
    pc,        \* where the command is; "idle" if there is none
    ctx,       \* upgrade_ctx in memory
    upgrader,  \* the fields of the Upgrader
    zone,      \* position of the zone that is being upgraded
    bin,       \* the package installed for each zone
    run,       \* the package that runs in each zone
    stayed,    \* history: zones where a stop succeeded whose server still runs
    pre, post, \* packages whose upgrade_pre.py, upgrade_post.py has succeeded
    param,     \* the parameters that scripts change: "user" if as before
    faults,    \* what went wrong so far
    killed     \* history: a command was killed since the upgrade was begun

deployment == <<status, recorded, meta>>
memory     == <<ctx, upgrader>>
cluster    == <<bin, run, stayed>>
database   == <<pre, post, param>>
history    == <<faults, killed>>
vars == <<plan, deployment, pc, memory, zone, cluster, database, history>>

Zones    == {plan.zones[i] : i \in DOMAIN plan.zones}
Down     == -1
NoCtx    == [index |-> 0, process |-> 1, script |-> 0, backup |-> "none"]
Versions == 0..Last

\* Upgrader.process; the one after the last ends the hop.
Process == <<"backup_config", "disable_ddl_and_check", "exec_upgrade_checker",
             "exec_upgrade_pre", "exec_upgrade_health_checker", "upgrade_zone",
             "exec_upgrade_post", "restore_config", "take_over", "next">>

Steps == {"idle", "meta", "status", "loop", "start_servers", "process", "start_zone",
          "install", "stop", "start", "wait", "health", "save", "failed", "stop_upgrade",
          "record"}

Ctx == [index : 0..(Last + 1), process : 1..Len(Process), script : 0..(Last + 1),
        backup : {"none", "user", "upgrade"}]

TypeOK ==
    /\ plan \in Plans
    /\ status \in {"RUNNING", "UPGRADING"}
    /\ recorded \in {0, Last}
    /\ meta \in Ctx /\ ctx \in Ctx /\ upgrader \in Ctx
    /\ pc \in Steps
    /\ zone \in 0..Len(plan.zones)
    /\ bin \in [Zones -> Versions] /\ run \in [Zones -> Versions \cup {Down}]
    /\ stayed \subseteq {z \in Zones : run[z] # Down}
    /\ pre \subseteq Versions /\ post \subseteq Versions
    /\ param \in {"user", "upgrade"}
    /\ faults \in 0..MaxFaults /\ killed \in BOOLEAN

Init ==
    /\ plan \in Plans
    /\ status = "RUNNING" /\ recorded = 0 /\ meta = NoCtx
    /\ pc = "idle" /\ ctx = NoCtx /\ upgrader = NoCtx /\ zone = 0
    /\ bin = [z \in Zones |-> 0] /\ run = bin /\ stayed = {}
    /\ pre = {} /\ post = {} /\ param = "user"
    /\ faults = 0 /\ killed = FALSE

\* Something of this kind goes wrong: a "step" (a script, SQL, a workflow) fails; the
\* operator sends a "signal"; obd is "kill"ed; a write of .upgrade fails and leaves it
\* unreadable ("meta"); servers "stay" through a stop that succeeds.
Fault(kind) == kind \in Faults /\ faults < MaxFaults /\ faults' = faults + 1

NoFault == UNCHANGED faults

Rolling == Len(plan.zones) > 2

\* The zones that are stopped and started together.
Group == IF Rolling /\ zone > 0 THEN {plan.zones[zone]} ELSE Zones

\* Mutant of NextStage: the package whose binary is required is not looked for.
NextStageAlwaysLast(i) == Last

\* The last package of the hop that begins with package i.
NextStage(i) == Min({j \in i..Last : j \in plan.required \cup {Last}})

Target == NextStage(upgrader.index)
-----------------------------------------------------------------------------
(* upgrade_cluster                                                          *)

\* A new upgrade: all servers must run; the progress is to be written first.
BeginUpgrade ==
    /\ pc = "idle" /\ status = "RUNNING" /\ recorded < Last
    /\ \A z \in Zones : run[z] # Down
    /\ ctx' = [NoCtx EXCEPT !.index = 1, !.script = 1]
    /\ pc' = "meta" /\ killed' = FALSE
    /\ UNCHANGED <<plan, deployment, upgrader, zone, cluster, database, faults>>

\* The same command while the deployment is upgrading: nothing is checked; if
\* .upgrade cannot be read the command dies.
ResumeUpgrade ==
    /\ pc = "idle" /\ status = "UPGRADING" /\ meta # NoCtx
    /\ ctx' = meta /\ pc' = "loop"
    /\ UNCHANGED <<plan, deployment, upgrader, zone, cluster, database, history>>

\* start_upgrade writes .upgrade and the status.  Its result is not looked at:
\* refused writes (fault "start") do not keep the upgrade from going on.
StartUpgrade ==
    /\ pc = "meta"
    /\ \E refused \in IF "start" \in Faults THEN BOOLEAN ELSE {FALSE} :
          /\ meta' = IF refused THEN NoCtx ELSE ctx
          /\ pc' = IF refused THEN "loop" ELSE "status"
    /\ UNCHANGED <<plan, status, recorded, memory, zone, cluster, database, history>>

MarkUpgrading ==
    /\ pc = "status" /\ pc' = "loop"
    /\ status' \in {"UPGRADING"} \cup (IF "start" \in Faults THEN {"RUNNING"} ELSE {})
    /\ UNCHANGED <<plan, recorded, meta, memory, zone, cluster, database, history>>

\* Mutant of Upgrader: the steps that were done are forgotten.
UpgraderAfresh(c) == [c EXCEPT !.process = 1, !.script = c.index, !.backup = "none"]

\* Upgrader.__init__: goes on where the context says
Upgrader(c) == c

NextHop ==
    /\ pc = "loop" /\ ctx.index <= Last
    /\ upgrader' = Upgrader(ctx) /\ pc' = "start_servers"
    /\ UNCHANGED <<plan, deployment, ctx, zone, cluster, database, history>>

LastHopDone ==
    /\ pc = "loop" /\ ctx.index > Last
    /\ pc' = "stop_upgrade"
    /\ UNCHANGED <<plan, deployment, memory, zone, cluster, database, history>>

\* update_upgrade_ctx; nothing is written unless the deployment is upgrading.
Written == IF status = "UPGRADING" THEN ctx ELSE meta

\* Mutant of UpdateUpgradeCtx: the hop's result is not looked at.
UpdateUpgradeCtxGoOn ==
    /\ pc \in {"save", "failed"}
    /\ meta' = Written /\ NoFault
    /\ ctx' = [ctx EXCEPT !.index = IF pc = "failed" THEN NextStage(ctx.index) + 1 ELSE @]
    /\ pc' = "loop"
    /\ UNCHANGED <<plan, status, recorded, upgrader, zone, cluster, database, killed>>

\* After a hop, and after one that failed, which ends the command.
UpdateUpgradeCtx ==
    /\ pc \in {"save", "failed"}
    /\ \/ meta' = Written /\ NoFault
       \/ status = "UPGRADING" /\ Fault("meta") /\ meta' = NoCtx
    /\ pc' = IF pc = "save" THEN "loop" ELSE "idle"
    /\ UNCHANGED <<plan, status, recorded, memory, zone, cluster, database, killed>>

\* stop_upgrade: first the status, then .upgrade and the recorded package.
StopUpgrade ==
    /\ pc = "stop_upgrade"
    /\ status' = "RUNNING" /\ meta' = NoCtx /\ pc' = "record"
    /\ UNCHANGED <<plan, recorded, memory, zone, cluster, database, history>>

\* update_component_repository; a refused write (fault "record") goes unnoticed.
RecordRepository ==
    /\ pc = "record" /\ pc' = "idle"
    /\ recorded' \in {Last} \cup (IF "record" \in Faults THEN {recorded} ELSE {})
    /\ UNCHANGED <<plan, status, meta, memory, zone, cluster, database, history>>
-----------------------------------------------------------------------------
(* Upgrader.run                                                             *)

Dump == ctx' = upgrader'

\* A step of the process has succeeded: progress is noted in memory.
Succeed ==
    /\ upgrader' = [upgrader EXCEPT !.process = @ + 1, !.script = upgrader.index]
    /\ Dump /\ pc' = "process" /\ NoFault

\* A step has failed: the hop ends here.
StepFails ==
    /\ Fault("step") /\ UNCHANGED upgrader
    /\ Dump /\ pc' = "failed"

At(step) == pc = "process" /\ Process[upgrader.process] = step

\* Mutant of StartServers: servers that an interrupted upgrade left down stay down.
StartServersNot ==
    /\ pc = "start_servers" /\ pc' = "process"
    /\ UNCHANGED <<plan, deployment, memory, zone, cluster, database, history>>

\* The workflow upgrade_start, whose result is not looked at, starts servers that
\* are down; then obd must connect.
StartServers ==
    LET down == {z \in Zones : run[z] = Down} IN
    /\ pc = "start_servers"
    /\ \/ /\ run' = [z \in Zones |-> IF z \in down THEN bin[z] ELSE run[z]]
          /\ pc' = "process" /\ NoFault
       \/ /\ Fault("step") /\ down # {} /\ run' = run
          /\ pc' = "process"
       \/ /\ Fault("step")
          /\ run' = [z \in Zones |-> IF z \in down THEN bin[z] ELSE run[z]]
          /\ pc' = "failed"
    /\ UNCHANGED <<plan, deployment, memory, zone, bin, stayed, database, killed>>

\* backup_config reads the parameters as they are now.
BackupConfig ==
    /\ At("backup_config")
    /\ \/ /\ upgrader' = [upgrader EXCEPT !.process = @ + 1, !.script = upgrader.index,
                                          !.backup = param]
          /\ Dump /\ UNCHANGED pc /\ NoFault
       \/ StepFails
    /\ UNCHANGED <<plan, deployment, zone, cluster, database, killed>>

\* disable_ddl_and_check, exec_upgrade_checker, exec_upgrade_health_checker and, in
\* the last hop, take_over change nothing that is modelled.
Check ==
    /\ \E step \in {"disable_ddl_and_check", "exec_upgrade_checker",
                    "exec_upgrade_health_checker", "take_over"} : At(step)
    /\ Succeed \/ StepFails
    /\ UNCHANGED <<plan, deployment, zone, cluster, database, killed>>

\* Mutant of ExecPre: one package too many.
ExecPreBeyond ==
    /\ At("exec_upgrade_pre") /\ upgrader.script <= Target + 1
    /\ upgrader' = [upgrader EXCEPT !.script = @ + 1]
    /\ pre' = pre \cup {upgrader.script} /\ param' = "upgrade"
    /\ UNCHANGED <<plan, deployment, pc, ctx, zone, cluster, post, history>>

\* _exec_script_all_repositories: the scripts of the packages of this hop, one after
\* the other, from the one that failed before.
ExecPre ==
    /\ At("exec_upgrade_pre") /\ upgrader.script <= Target
    /\ \/ /\ upgrader' = [upgrader EXCEPT !.script = @ + 1]
          /\ pre' = pre \cup {upgrader.script} /\ param' = "upgrade"
          /\ UNCHANGED <<ctx, pc>> /\ NoFault
       \/ StepFails /\ UNCHANGED pre /\ param' \in {param, "upgrade"}
    /\ UNCHANGED <<plan, deployment, zone, cluster, post, killed>>

ExecPost ==
    /\ At("exec_upgrade_post") /\ upgrader.script <= Target
    /\ \/ /\ upgrader' = [upgrader EXCEPT !.script = @ + 1]
          /\ post' = post \cup {upgrader.script}
          /\ UNCHANGED <<ctx, pc>> /\ NoFault
       \/ StepFails /\ UNCHANGED post
    /\ UNCHANGED <<plan, deployment, zone, cluster, pre, param, killed>>

ScriptsDone ==
    /\ At("exec_upgrade_pre") \/ At("exec_upgrade_post")
    /\ upgrader.script > Target
    /\ Succeed
    /\ UNCHANGED <<plan, deployment, zone, cluster, database, killed>>

RestoreConfig ==
    /\ At("restore_config")
    /\ \/ Succeed /\ param' = upgrader.backup
       \/ StepFails /\ UNCHANGED param
    /\ UNCHANGED <<plan, deployment, zone, cluster, pre, post, killed>>

\* After the process, the next hop; process_route_index stays behind until the first
\* step of the next hop has succeeded.
EndHop ==
    /\ At("next")
    /\ upgrader' = [upgrader EXCEPT !.process = 1, !.index = Target + 1]
    /\ Dump /\ pc' = "save"
    /\ UNCHANGED <<plan, deployment, zone, cluster, database, history>>
-----------------------------------------------------------------------------
(* upgrade_zone: zone by zone if there are more than two, else all at once.  *)

AllUp == \A z \in Zones : run[z] # Down

UpgradeZone ==
    /\ At("upgrade_zone")
    /\ IF Rolling THEN zone' = 1 /\ pc' = "start_zone" ELSE zone' = 0 /\ pc' = "install"
    /\ UNCHANGED <<plan, deployment, memory, cluster, database, history>>

\* Mutant of StartZone: the next zone is stopped without waiting for the others.
StartZoneAtOnce ==
    /\ pc = "start_zone"
    /\ pc' = "install" /\ UNCHANGED memory /\ NoFault
    /\ UNCHANGED <<plan, deployment, zone, cluster, database, killed>>

\* start_zone and stop_zone: the previous zone takes part again; obd waits, for ever if
\* need be, until all servers are active; then the next zone is isolated.
StartZone ==
    /\ pc = "start_zone"
    /\ \/ AllUp /\ pc' = "install" /\ UNCHANGED memory /\ NoFault
       \/ StepFails
    /\ UNCHANGED <<plan, deployment, zone, cluster, database, killed>>

\* install_repository_to_servers; its result (fault "install") is not looked at.
Install ==
    /\ pc = "install" /\ pc' = "stop"
    /\ bin' \in {[z \in Zones |-> IF z \in Group THEN Target ELSE bin[z]]}
                \cup (IF "install" \in Faults THEN {bin} ELSE {})
    /\ UNCHANGED <<plan, deployment, memory, zone, run, stayed, database, history>>

Stopped(some) == run' = [z \in Zones |-> IF z \in some THEN Down ELSE run[z]]

\* The stop plugin does not look at what its kills return, waits for the ports and
\* then succeeds in any case: servers may stay.
Stop ==
    /\ pc = "stop"
    /\ \/ /\ \E kept \in SUBSET {z \in Group : run[z] # Down} :
                /\ Stopped(Group \ kept) /\ stayed' = (stayed \ Group) \cup kept
                /\ IF kept = {} THEN NoFault ELSE Fault("stay")
          /\ pc' = "start" /\ UNCHANGED memory
       \/ /\ StepFails
          /\ \E some \in SUBSET Group : Stopped(some) /\ stayed' = stayed \ some
    /\ UNCHANGED <<plan, deployment, zone, bin, database, killed>>

\* What runs is not started again.
Start ==
    LET down == {z \in Group : run[z] = Down} IN
    /\ pc = "start"
    /\ \/ /\ run' = [z \in Zones |-> IF z \in down THEN bin[z] ELSE run[z]]
          /\ pc' = "wait" /\ UNCHANGED memory /\ NoFault
       \/ /\ StepFails
          /\ \E some \in SUBSET down :
                run' = [z \in Zones |-> IF z \in some THEN bin[z] ELSE run[z]]
    /\ UNCHANGED <<plan, deployment, zone, bin, stayed, database, killed>>

\* Until all servers are active; then, zone by zone, the health checker.
Wait ==
    /\ pc = "wait" /\ AllUp
    /\ IF Rolling THEN pc' = "health" /\ UNCHANGED <<memory, faults>> ELSE Succeed
    /\ UNCHANGED <<plan, deployment, zone, cluster, database, killed>>

\* Mutant of CheckZone: the last zone is left out.
CheckZoneButLast ==
    /\ pc = "health"
    /\ \/ /\ zone < Len(plan.zones) - 1 /\ zone' = zone + 1
          /\ pc' = "start_zone" /\ UNCHANGED memory /\ NoFault
       \/ /\ zone = Len(plan.zones) - 1 /\ UNCHANGED zone
          /\ AllUp /\ Succeed
    /\ UNCHANGED <<plan, deployment, cluster, database, killed>>

CheckZone ==
    /\ pc = "health"
    /\ \/ /\ zone < Len(plan.zones) /\ zone' = zone + 1
          /\ pc' = "start_zone" /\ UNCHANGED memory /\ NoFault
       \/ /\ zone = Len(plan.zones) /\ UNCHANGED zone
          /\ AllUp /\ Succeed
       \/ StepFails /\ UNCHANGED zone
    /\ UNCHANGED <<plan, deployment, cluster, database, killed>>
-----------------------------------------------------------------------------
(* Interruptions.                                                           *)

\* SIGINT ends the command.  The handler, installed before the first hop, writes
\* the context as it was dumped last.
SignalHandler ==
    /\ pc' = "idle"
    /\ IF pc \in {"meta", "status"} THEN UNCHANGED meta
       ELSE meta' \in {Written} \cup (IF "meta" \in Faults THEN {NoCtx} ELSE {})
    /\ UNCHANGED <<plan, status, recorded, memory, zone, cluster, database, killed>>

\* The two writes of stop_upgrade are not interrupted: fault "record" covers that.
Signal ==
    /\ pc \notin {"idle", "record"} /\ Fault("signal")
    /\ SignalHandler

\* The operator interrupts a command that waits for servers which are down.
GiveUp ==
    /\ pc \in {"start_zone", "wait"} /\ ~AllUp
    /\ SignalHandler /\ NoFault

Kill ==
    /\ pc \notin {"idle", "record"} /\ Fault("kill")
    /\ pc' = "idle" /\ killed' = TRUE
    /\ UNCHANGED <<plan, deployment, memory, zone, cluster, database>>
-----------------------------------------------------------------------------
Command ==
    \/ StartUpgrade \/ MarkUpgrading \/ NextHop \/ LastHopDone \/ UpdateUpgradeCtx
    \/ StopUpgrade \/ RecordRepository
    \/ StartServers \/ BackupConfig \/ Check \/ ExecPre \/ ExecPost \/ ScriptsDone
    \/ RestoreConfig \/ EndHop
    \/ UpgradeZone \/ StartZone \/ Install \/ Stop \/ Start \/ Wait \/ CheckZone

Next == BeginUpgrade \/ ResumeUpgrade \/ Command \/ Signal \/ GiveUp \/ Kill

Spec == Init /\ [][Next]_vars

\* A command takes its steps, an operator repeats a command that has ended and
\* interrupts one that hangs; begin is up to the operator.
FairSpec ==
    Spec /\ WF_vars(Command) /\ WF_vars(ResumeUpgrade) /\ WF_vars(GiveUp)
-----------------------------------------------------------------------------
(* Properties.                                                              *)

\* The version of a zone: what runs, or would be started; where a server stayed,
\* what the upgrade takes to run.
Version(z) == IF run[z] = Down \/ z \in stayed THEN bin[z] ELSE run[z]

\* No server runs a package before the upgrade_pre.py of every package up to it has
\* succeeded, and no upgrade_post.py before every zone has come to its package, but
\* one whose server stayed through its stop: whatever was interrupted and resumed.
ScriptsInStep ==
    /\ \A z \in Zones : run[z] # Down => 1..run[z] \subseteq pre
    /\ \A v \in post, z \in Zones \ stayed : Version(z) >= v

\* A cluster of more than two zones never has two of them down.
OneZoneDown == Rolling => Cardinality({z \in Zones : run[z] = Down}) <= 1

\* A deployment that is not recorded as upgrading runs the recorded package in every
\* zone, but where a server stayed through its stop: it can be restarted, and upgraded
\* again, from what is recorded.  What is installed there is the recorded package, too.
RecordedIsRun ==
    status = "RUNNING" /\ pc # "record" =>
        \A z \in Zones : bin[z] = recorded /\ (z \notin stayed => run[z] = recorded)

\* When an upgrade has ended, the parameters its scripts had changed are as before,
\* however often it failed or was interrupted, unless obd was killed: then the backup
\* may be lost and taken again when the parameters are already changed.
ParametersRestored == status = "RUNNING" /\ ~killed => param = "user"

\* Zones advance together through the stages of the route (UpgradePromise); one whose
\* server stayed through its stop counts with the package it was given.
Promise ==
    INSTANCE UpgradePromise WITH
        zones <- Zones, stages <- plan.required \cup {Last}, version <- [z \in Zones |-> Version(z)]

KeepsPromise == Promise!Spec

\* An upgrade that is begun ends, if the operator repeats the command, unless .upgrade
\* has become unreadable: then nothing can be resumed.
UpgradeEnds == status = "UPGRADING" ~> (status = "RUNNING" \/ meta = NoCtx)
=============================================================================
