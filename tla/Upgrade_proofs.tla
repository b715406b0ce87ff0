---------------------------- MODULE Upgrade_proofs ----------------------------
(***************************************************************************)
(* Theorems about the upgrade of a cluster (module Upgrade), for any       *)
(* zones, route and number of faults.                                      *)
(*                                                                         *)
(* TInv has the types and the places; SInv relates the three contexts      *)
(* (what is stored, what the command holds, what the plugin works with) to *)
(* what the zones run and which scripts have run; Restorable follows the   *)
(* user's parameters.  All but the types and OneZoneDown leave out the     *)
(* three failures that the code does not look at (Silent).  A stop that    *)
(* succeeds although servers stay is not left out: what it may break is    *)
(* excepted in the properties, zone by zone.                               *)
(***************************************************************************)
EXTENDS Upgrade, FiniteSetTheorems, WellFoundedInduction, TLAPS

ZoneSteps == {"start_zone", "install", "stop", "start", "wait", "health"}
InHop     == {"start_servers", "process"} \cup ZoneSteps

\* A context past its first step has a backup of the parameters.
Backed ==
    /\ meta.process > 1 => meta.backup # "none"
    /\ ctx.process > 1 => ctx.backup # "none"
    /\ upgrader.process > 1 => upgrader.backup # "none"

\* Where a command is, and what it works on.
Placed ==
    /\ pc \in InHop => upgrader.index <= Last
    /\ pc \in ZoneSteps => upgrader.process = 6 /\ (Rolling <=> zone > 0)
    /\ pc \in {"start_zone", "health"} => Rolling

\* Zones that go down one by one.
OneByOne ==
    Rolling =>
        /\ \A x, y \in Zones : run[x] = Down /\ run[y] = Down => x = y
        /\ pc \in {"install", "stop"} => AllUp

TInv == TypeOK /\ Backed /\ Placed /\ OneByOne

-----------------------------------------------------------------------------
Silent == {"install", "start", "record"}
Careful == Faults \cap Silent = {}

\* The package at which the hop ends that begins with package i.
Hop == [i \in 0..Last |-> NextStage(i)]

Ver == [z \in Zones |-> Version(z)]

\* What the upgrade takes to run: where a server stayed, what is installed.
Taken == [z \in Zones |-> IF z \in stayed THEN bin[z] ELSE run[z]]

\* The cluster has come at least as far as context c says, and not beyond its hop.
Reached(c, hop, version, ran, scripts) ==
    /\ c.index >= 1 /\ 1..(c.index - 1) \subseteq scripts
    /\ \A z \in DOMAIN version :
         version[z] = c.index - 1 \/ (c.index <= Last /\ version[z] = hop[c.index])
    /\ c.index > Last => \A z \in DOMAIN version : ran[z] = Last
    /\ c.process > 1 => c.index <= Last
    /\ c.process = 4 => 1..(c.script - 1) \subseteq scripts
    /\ c.process > 4 => 1..hop[c.index] \subseteq scripts
    /\ c.process > 6 => \A z \in DOMAIN version : ran[z] = hop[c.index]

ReachedBy(c) == Reached(c, Hop, Ver, Taken, pre)

\* Before the deployment is recorded as upgrading nothing has changed; after it,
\* everything.
Outside ==
    status = "RUNNING" =>
        /\ pc \in {"idle", "meta", "status", "record"}
        /\ recorded = 0 /\ pc # "record" =>
             /\ \A z \in Zones : run[z] = 0 /\ bin[z] = 0
             /\ param = "user" /\ post = {}
        /\ recorded = Last \/ pc = "record" => \A z \in Zones : Taken[z] = Last
        /\ pc \in {"meta", "status"} =>
             recorded = 0 /\ ctx = [NoCtx EXCEPT !.index = 1, !.script = 1]
        /\ pc = "status" => meta = ctx

\* While it is, the three contexts are of one hop, and none is ahead of the cluster.
Inside ==
    status = "UPGRADING" =>
        /\ recorded = 0 /\ pc \notin {"meta", "status", "record"}
        /\ meta = NoCtx \/ ReachedBy(meta)
        /\ pc # "idle" => ReachedBy(ctx)
        /\ pc \in InHop =>
             /\ ReachedBy(upgrader) /\ upgrader.index = ctx.index
             /\ upgrader.process = ctx.process /\ upgrader.backup = ctx.backup
             /\ meta = NoCtx \/ (meta.index = ctx.index /\ meta.process <= ctx.process)
        /\ pc = "loop" => meta \in {NoCtx, ctx}
        /\ pc = "stop_upgrade" => ctx.index > Last

\* What upgrade_zone has done so far.
ZonesDone ==
    /\ pc \in ZoneSteps /\ Rolling => \A k \in 1..(zone - 1) : Ver[plan.zones[k]] = Target
    /\ pc \in {"stop", "start"} => \A z \in Group : bin[z] = Target
    /\ pc = "start" => \A z \in Group : run[z] = Down \/ z \in stayed
    /\ pc \in {"wait", "health"} => \A z \in Group : Ver[z] = Target

Scripted ==
    /\ \A z \in Zones : 1..bin[z] \subseteq pre /\ 1..run[z] \subseteq pre /\ Ver[z] <= bin[z]
    /\ \A v \in post, z \in Zones : Ver[z] >= v

\* The parameters are changed only between the scripts and restore_config.
Restorable ==
    ~killed =>
        /\ status = "UPGRADING" =>
             LET c == IF pc = "idle" THEN meta ELSE ctx IN
             /\ param = "upgrade" => c = NoCtx \/ c.process \in 4..8
             /\ c.process > 1 => c.backup = "user"
        /\ status = "RUNNING" => param = "user"

SInv == Outside /\ Inside /\ ZonesDone /\ Scripted

-----------------------------------------------------------------------------
(* The route.                                                               *)

\* Every set of packages has a first one: initial segments of the route that
\* become shorter cannot do so for ever.
LEMMA FirstExists ==
    ASSUME NEW S \in SUBSET (0..Last), S # {}
    PROVE  \E m \in S : \A j \in S : m <= j
<1>0. Last \in Nat
    BY UpgradeAssumption
<1> DEFINE Upto(j) == 0..j
           T       == {Upto(j) : j \in S}
           R       == StrictSubsetOrdering(0..Last)
<1>1. T \subseteq FiniteSubsetsOf(0..Last) /\ T # {}
    <2>1. ASSUME NEW j \in S PROVE Upto(j) \in SUBSET (0..Last) /\ IsFiniteSet(Upto(j))
        BY <1>0, FS_Interval
    <2> QED
        BY <2>1 DEF FiniteSubsetsOf
<1>2. PICK t \in T : \A u \in T : <<u, t>> \notin R
    <2>1. IsWellFoundedOn(R, FiniteSubsetsOf(0..Last))
        BY FS_StrictSubsetOrderingWellFounded
    <2> HIDE DEF T, R
    <2> QED
        BY <1>1, <2>1, WFMin
<1>3. PICK m \in S : t = Upto(m)
    BY <1>2
<1>4. ASSUME NEW j \in S, j < m PROVE FALSE
    <2>1. Upto(j) \subseteq Upto(m) /\ m \in Upto(m) /\ m \notin Upto(j)
        BY <1>0, <1>4
    <2>2. Upto(j) \in SUBSET (0..Last) /\ Upto(m) \in SUBSET (0..Last)
        BY <1>0
    <2>3. <<Upto(j), Upto(m)>> \in R
        BY <2>1, <2>2 DEF StrictSubsetOrdering
    <2> QED
        BY <1>2, <1>3, <2>3
<1> QED
    BY <1>0, <1>4

LEMMA MinIs ==
    ASSUME NEW S \in SUBSET (0..Last), S # {}
    PROVE  Min(S) \in S /\ \A j \in S : Min(S) <= j
<1>1. \E m \in S : \A j \in S : m <= j
    BY FirstExists
<1> QED
    BY <1>1 DEF Min

\* What NextStage returns: the first required package that is not before i, or the last
\* one.
LEMMA NextStageIs ==
    ASSUME plan \in Plans, NEW i \in 0..Last
    PROVE  /\ NextStage(i) \in i..Last /\ NextStage(i) \in plan.required \cup {Last}
           /\ \A j \in i..Last : j \in plan.required \cup {Last} => NextStage(i) <= j
<1> DEFINE S == {j \in i..Last : j \in plan.required \cup {Last}}
<1>1. S \in SUBSET (0..Last) /\ S # {}
    <2>1. Last \in S
        BY UpgradeAssumption
    <2>2. i..Last \subseteq 0..Last
        BY UpgradeAssumption
    <2> QED
        BY <2>1, <2>2
<1>2. Min(S) \in S /\ \A j \in S : Min(S) <= j
    BY <1>1, MinIs
<1>3. NextStage(i) = Min(S)
    BY DEF NextStage
<1> QED
    BY <1>2, <1>3

-----------------------------------------------------------------------------
(* Types.                                                                   *)

LEMMA CtxIs ==
    ASSUME NEW c \in Ctx
    PROVE  /\ c.index \in 0..(Last + 1) /\ c.process \in 1..10 /\ c.script \in 0..(Last + 1)
           /\ c.backup \in {"none", "user", "upgrade"}
<1>1. Len(Process) = 10
    BY DEF Process
<1> QED
    BY <1>1 DEF Ctx

LEMMA Steps10 ==
    ASSUME upgrader \in Ctx
    PROVE  /\ At("backup_config") <=> pc = "process" /\ upgrader.process = 1
           /\ At("disable_ddl_and_check") <=> pc = "process" /\ upgrader.process = 2
           /\ At("exec_upgrade_checker") <=> pc = "process" /\ upgrader.process = 3
           /\ At("exec_upgrade_pre") <=> pc = "process" /\ upgrader.process = 4
           /\ At("exec_upgrade_health_checker") <=> pc = "process" /\ upgrader.process = 5
           /\ At("upgrade_zone") <=> pc = "process" /\ upgrader.process = 6
           /\ At("exec_upgrade_post") <=> pc = "process" /\ upgrader.process = 7
           /\ At("restore_config") <=> pc = "process" /\ upgrader.process = 8
           /\ At("take_over") <=> pc = "process" /\ upgrader.process = 9
           /\ At("next") <=> pc = "process" /\ upgrader.process = 10
BY CtxIs DEF At, Process

\* What it means that a step has succeeded.
LEMMA Succeeded ==
    ASSUME TInv, upgrader.index <= Last, upgrader.process \in 1..9, Succeed
    PROVE  /\ upgrader' \in Ctx /\ ctx' = upgrader' /\ pc' = "process" /\ faults' = faults
           /\ upgrader'.process = upgrader.process + 1 /\ upgrader'.index = upgrader.index
           /\ upgrader'.script = upgrader.index /\ upgrader'.backup = upgrader.backup
<1>1. upgrader \in Ctx /\ Len(Process) = 10
    BY DEF TInv, TypeOK, Process
<1>2. upgrader' = [index   |-> upgrader.index, process |-> upgrader.process + 1,
                   script  |-> upgrader.index, backup  |-> upgrader.backup]
    BY <1>1 DEF Succeed, Ctx
<1>3. upgrader.index \in 0..(Last + 1) /\ upgrader.process + 1 \in 1..Len(Process)
      /\ upgrader.backup \in {"none", "user", "upgrade"}
    BY <1>1 DEF Ctx
<1>4. upgrader' \in Ctx
    BY <1>2, <1>3 DEF Ctx
<1> QED
    BY <1>2, <1>4 DEF Succeed, Dump, NoFault

LEMMA StepFailed ==
    ASSUME TInv, StepFails
    PROVE  upgrader' = upgrader /\ ctx' = upgrader /\ pc' = "failed" /\ faults' \in 0..MaxFaults
BY UpgradeAssumption DEF TInv, TypeOK, StepFails, Fault, Dump

\* A step outside upgrade_zone, and what it may change.
Elsewhere ==
    /\ pc' \in Steps \ ZoneSteps
    /\ pc' \in InHop => upgrader'.index <= Last
    /\ UNCHANGED <<plan, zone, bin, run, stayed>>
    /\ status' \in {"RUNNING", "UPGRADING"} /\ recorded' \in {0, Last}
    /\ meta' \in Ctx /\ ctx' \in Ctx /\ upgrader' \in Ctx
    /\ Backed'
    /\ pre' \subseteq Versions /\ post' \subseteq Versions /\ param' \in {"user", "upgrade"}
    /\ faults' \in 0..MaxFaults /\ killed' \in BOOLEAN

LEMMA ElsewhereTInv == ASSUME TInv, Elsewhere PROVE TInv'
<1> USE DEF TInv, Elsewhere
<1>1. Zones' = Zones /\ (Rolling' <=> Rolling)
    BY DEF Zones, Rolling
<1>2. TypeOK'
    BY <1>1 DEF TypeOK
<1>3. Placed'
    BY DEF Placed, ZoneSteps
<1>4. OneByOne'
    BY <1>1 DEF OneByOne, ZoneSteps
<1> QED
    BY <1>2, <1>3, <1>4

LEMMA NoCtxIs == NoCtx \in Ctx /\ NoCtx.process = 1 /\ NoCtx.backup = "none" /\ NoCtx.index = 0
<1>1. Len(Process) = 10
    BY DEF Process
<1> QED
    BY <1>1, UpgradeAssumption DEF NoCtx, Ctx

LEMMA InitTInv == Init => TInv
<1> SUFFICES ASSUME Init PROVE TInv
    OBVIOUS
<1> USE DEF Init
<1>1. plan.zones \in Seq(AllZones)
    BY UpgradeAssumption
<1>2. 0 \in 0..Len(plan.zones) /\ 0 \in Versions
    BY <1>1, UpgradeAssumption DEF Versions
<1>3. TypeOK
    <2>1. bin \in [Zones -> Versions] /\ run \in [Zones -> Versions \cup {Down}]
        BY <1>2
    <2>2. faults \in 0..MaxFaults /\ stayed \subseteq {z \in Zones : run[z] # Down}
        BY UpgradeAssumption
    <2> QED
        BY <1>2, <2>1, <2>2, NoCtxIs DEF TypeOK, Steps
<1>4. Backed /\ Placed
    BY NoCtxIs DEF Backed, Placed, InHop, ZoneSteps
<1>5. OneByOne
    <2>1. \A z \in Zones : run[z] # Down
        BY DEF Down
    <2> QED
        BY <2>1 DEF OneByOne
<1> QED
    BY <1>3, <1>4, <1>5 DEF TInv

\* What the steps of upgrade_cluster and the interruptions do.
LEMMA OutsideHopTInv ==
    ASSUME TInv,
           \/ BeginUpgrade \/ ResumeUpgrade \/ StartUpgrade \/ MarkUpgrading \/ NextHop
           \/ LastHopDone \/ UpdateUpgradeCtx \/ StopUpgrade \/ RecordRepository
           \/ Signal \/ GiveUp \/ Kill
    PROVE  TInv'
<1> USE DEF TInv, TypeOK, deployment, memory, cluster, database, history
<1>1. CASE BeginUpgrade
    <2>1. ctx' = [NoCtx EXCEPT !.index = 1, !.script = 1]
        BY <1>1 DEF BeginUpgrade
    <2>2. ctx' \in Ctx /\ ctx'.process = 1
        <3>1. ctx' = [index |-> 1, process |-> 1, script |-> 1, backup |-> "none"]
            BY <2>1 DEF NoCtx
        <3>2. 1 \in 0..(Last + 1) /\ 1 \in 1..Len(Process)
            BY UpgradeAssumption DEF Process
        <3> QED
            BY <3>1, <3>2 DEF Ctx
    <2>3. /\ pc' = "meta" /\ killed' = FALSE
          /\ UNCHANGED <<plan, deployment, upgrader, zone, cluster, database, faults>>
        BY <1>1 DEF BeginUpgrade
    <2>4. Backed'
        BY <2>2, <2>3 DEF Backed
    <2>5. pc' \in Steps \ ZoneSteps /\ pc' \notin InHop
        BY <2>3 DEF Steps, ZoneSteps, InHop
    <2>6. killed' \in BOOLEAN
        BY <2>3
    <2>7. Elsewhere
        BY <2>2, <2>3, <2>4, <2>5, <2>6 DEF Elsewhere
    <2> QED
        BY <2>7, ElsewhereTInv
<1>2. CASE ResumeUpgrade
    <2>1. Elsewhere
        BY <1>2 DEF ResumeUpgrade, Elsewhere, Steps, ZoneSteps, InHop, Backed
    <2> QED
        BY <2>1, ElsewhereTInv
<1>3. CASE StartUpgrade
    <2>1. Elsewhere
        BY <1>3, NoCtxIs DEF StartUpgrade, Elsewhere, Steps, ZoneSteps, InHop, Backed
    <2> QED
        BY <2>1, ElsewhereTInv
<1>4. CASE MarkUpgrading
    <2>1. Elsewhere
        BY <1>4 DEF MarkUpgrading, Elsewhere, Steps, ZoneSteps, InHop, Backed
    <2> QED
        BY <2>1, ElsewhereTInv
<1>5. CASE NextHop
    <2>1. Elsewhere
        BY <1>5 DEF NextHop, Upgrader, Elsewhere, Steps, ZoneSteps, InHop, Backed
    <2> QED
        BY <2>1, ElsewhereTInv
<1>6. CASE LastHopDone
    <2>1. Elsewhere
        BY <1>6 DEF LastHopDone, Elsewhere, Steps, ZoneSteps, InHop, Backed
    <2> QED
        BY <2>1, ElsewhereTInv
<1>7. CASE UpdateUpgradeCtx
    <2>1. Elsewhere
        BY <1>7, NoCtxIs, UpgradeAssumption
        DEF UpdateUpgradeCtx, Written, NoFault, Fault, Elsewhere, Steps, ZoneSteps, InHop, Backed
    <2> QED
        BY <2>1, ElsewhereTInv
<1>8. CASE StopUpgrade
    <2>1. Elsewhere
        BY <1>8, NoCtxIs DEF StopUpgrade, Elsewhere, Steps, ZoneSteps, InHop, Backed
    <2> QED
        BY <2>1, ElsewhereTInv
<1>9. CASE RecordRepository
    <2>1. Elsewhere
        BY <1>9 DEF RecordRepository, Elsewhere, Steps, ZoneSteps, InHop, Backed
    <2> QED
        BY <2>1, ElsewhereTInv
<1>10. CASE Signal \/ GiveUp
    <2>1. SignalHandler /\ faults' \in 0..MaxFaults
        BY <1>10, UpgradeAssumption DEF Signal, GiveUp, Fault, NoFault
    <2>2. Elsewhere
        BY <2>1, NoCtxIs DEF SignalHandler, Written, Elsewhere, Steps, ZoneSteps, InHop, Backed
    <2> QED
        BY <2>2, ElsewhereTInv
<1>11. CASE Kill
    <2>1. Elsewhere
        BY <1>11, UpgradeAssumption DEF Kill, Fault, Elsewhere, Steps, ZoneSteps, InHop, Backed
    <2> QED
        BY <2>1, ElsewhereTInv
<1> QED
    BY <1>1, <1>2, <1>3, <1>4, <1>5, <1>6, <1>7, <1>8, <1>9, <1>10, <1>11

LEMMA TargetIs ==
    ASSUME TInv, upgrader.index <= Last
    PROVE  /\ Target \in upgrader.index..Last /\ Target \in Versions
           /\ Target \in plan.required \cup {Last}
           /\ \A j \in upgrader.index..Last : j \in plan.required \cup {Last} => Target <= j
<1>1. plan \in Plans /\ upgrader.index \in 0..Last
    BY CtxIs DEF TInv, TypeOK
<1> QED
    BY <1>1, NextStageIs, UpgradeAssumption DEF Target, Versions

\* The steps of the process but upgrade_zone.
LEMMA ProcessTInv ==
    ASSUME TInv,
           \/ StartServers \/ BackupConfig \/ Check \/ ExecPre \/ ExecPost \/ ScriptsDone
           \/ RestoreConfig \/ EndHop
    PROVE  TInv'
<1> USE DEF deployment, memory, cluster, database, history
<1>0. /\ upgrader \in Ctx /\ ctx \in Ctx /\ meta \in Ctx /\ Last \in Nat
      /\ status \in {"RUNNING", "UPGRADING"} /\ recorded \in {0, Last}
      /\ pre \subseteq Versions /\ post \subseteq Versions /\ param \in {"user", "upgrade"}
      /\ faults \in 0..MaxFaults /\ killed \in BOOLEAN
      /\ meta.process > 1 => meta.backup # "none"
      /\ upgrader.process > 1 => upgrader.backup # "none"
      /\ pc \in {"process", "start_servers"} => upgrader.index <= Last
    BY UpgradeAssumption DEF TInv, TypeOK, Backed, Placed, InHop
<1>1. CASE StartServers
    <2>1. bin \in [Zones -> Versions] /\ run \in [Zones -> Versions \cup {Down}] /\ plan' = plan
        BY <1>1 DEF TInv, TypeOK, StartServers
    <2>2. Zones' = Zones /\ (Rolling' <=> Rolling)
        BY <2>1 DEF Zones, Rolling
    <2>3. /\ run' \in [Zones -> Versions \cup {Down}]
          /\ \A z \in Zones : run'[z] = Down => run[z] = Down
        BY <1>1, <2>1 DEF StartServers
    <2>4. pc' \in {"process", "failed"} /\ faults' \in 0..MaxFaults
        BY <1>0, <1>1, UpgradeAssumption DEF StartServers, Fault, NoFault
    <2>8. stayed' \subseteq {z \in Zones' : run'[z] # Down}
        BY <1>1, <2>2, <2>3 DEF StartServers, TInv, TypeOK
    <2>5. TypeOK'
        BY <1>1, <2>1, <2>2, <2>3, <2>4, <2>8 DEF StartServers, TInv, TypeOK, Steps
    <2>6. Backed' /\ Placed'
        BY <1>0, <1>1, <2>4 DEF StartServers, TInv, Backed, Placed, InHop, ZoneSteps
    <2>7. OneByOne'
        BY <2>2, <2>3, <2>4 DEF TInv, OneByOne
    <2> QED
        BY <2>5, <2>6, <2>7 DEF TInv
<1>2. ASSUME StepFails, upgrader.index <= Last, UNCHANGED <<plan, deployment, zone, cluster, killed>>,
             pre' \subseteq Versions, post' \subseteq Versions, param' \in {"user", "upgrade"}
      PROVE  TInv'
    <2>1. Elsewhere
        BY <1>0, <1>2, StepFailed DEF Elsewhere, Steps, ZoneSteps, InHop, Backed
    <2> QED
        BY <2>1, ElsewhereTInv
<1>3. ASSUME Succeed, upgrader.index <= Last, upgrader.process \in 2..9,
             UNCHANGED <<plan, deployment, zone, cluster, killed>>,
             pre' \subseteq Versions, post' \subseteq Versions, param' \in {"user", "upgrade"}
      PROVE  TInv'
    <2>1. Elsewhere
        BY <1>0, <1>3, Succeeded DEF Elsewhere, Steps, ZoneSteps, InHop, Backed
    <2> QED
        BY <2>1, ElsewhereTInv
<1>4. CASE BackupConfig
    <2>1. pc = "process" /\ upgrader.process = 1
        BY <1>0, <1>4, Steps10 DEF BackupConfig
    <2>2. CASE StepFails
        BY <1>0, <1>2, <1>4, <2>1, <2>2 DEF BackupConfig
    <2>3. CASE ~StepFails
        <3>0. /\ upgrader' = [upgrader EXCEPT !.process = @ + 1, !.script = upgrader.index,
                                              !.backup = param]
              /\ ctx' = upgrader' /\ pc' = "process" /\ faults' = faults
            BY <1>4, <2>1, <2>3 DEF BackupConfig, Dump, NoFault
        <3>1. /\ upgrader' = [index |-> upgrader.index, process |-> upgrader.process + 1,
                              script |-> upgrader.index, backup |-> param]
              /\ ctx' = upgrader' /\ pc' = "process" /\ faults' = faults
            BY <1>0, <3>0 DEF Ctx
        <3>2. upgrader.index \in 0..Last /\ upgrader.process + 1 \in 1..Len(Process)
            BY <1>0, <2>1, CtxIs DEF Process
        <3>3. upgrader' \in Ctx
            BY <1>0, <3>1, <3>2 DEF Ctx
        <3>4. UNCHANGED <<plan, deployment, zone, cluster, database, killed>>
            BY <1>4 DEF BackupConfig
        <3>5. Elsewhere
            BY <1>0, <3>1, <3>2, <3>3, <3>4 DEF Elsewhere, Steps, ZoneSteps, InHop, Backed
        <3> QED
            BY <3>5, ElsewhereTInv
    <2> QED
        BY <2>2, <2>3
<1>5. CASE Check
    <2>1. pc = "process" /\ upgrader.process \in {2, 3, 5, 9}
        BY <1>0, <1>5, Steps10 DEF Check
    <2> QED
        BY <1>0, <1>2, <1>3, <1>5, <2>1 DEF Check
<1>6. CASE ExecPre \/ ExecPost
    <2>1. pc = "process" /\ upgrader.process \in {4, 7} /\ upgrader.script <= Target
        BY <1>0, <1>6, Steps10 DEF ExecPre, ExecPost
    <2>2. Target \in Versions /\ upgrader.script \in Versions
        BY <1>0, <2>1, TargetIs, CtxIs, UpgradeAssumption DEF Versions
    <2>3. pre' \subseteq Versions /\ post' \subseteq Versions /\ param' \in {"user", "upgrade"}
        BY <1>0, <1>6, <2>2 DEF ExecPre, ExecPost
    <2>4. UNCHANGED <<plan, deployment, zone, cluster, killed>>
        BY <1>6 DEF ExecPre, ExecPost
    <2>5. CASE StepFails
        BY <1>0, <1>2, <2>1, <2>3, <2>4, <2>5
    <2>6. CASE ~StepFails
        <3>1. /\ upgrader' = [index |-> upgrader.index, process |-> upgrader.process,
                              script |-> upgrader.script + 1, backup |-> upgrader.backup]
              /\ UNCHANGED <<ctx, pc, faults>>
            BY <1>0, <1>6, <2>6 DEF ExecPre, ExecPost, NoFault, Ctx
        <3>2. /\ upgrader.index \in 0..(Last + 1) /\ upgrader.process \in 1..Len(Process)
              /\ upgrader.script + 1 \in 0..(Last + 1) /\ upgrader.backup \in {"none", "user", "upgrade"}
            BY <1>0, <2>2 DEF Ctx, Versions
        <3>3. upgrader' \in Ctx
            BY <3>1, <3>2 DEF Ctx
        <3>4. Elsewhere
            BY <1>0, <2>1, <2>3, <2>4, <3>1, <3>3
            DEF Elsewhere, Steps, ZoneSteps, InHop, Backed, TInv
        <3> QED
            BY <3>4, ElsewhereTInv
    <2> QED
        BY <2>5, <2>6
<1>7. CASE ScriptsDone
    <2>1. pc = "process" /\ upgrader.process \in {4, 7}
        BY <1>0, <1>7, Steps10 DEF ScriptsDone
    <2> QED
        BY <1>0, <1>3, <1>7, <2>1 DEF ScriptsDone
<1>8. CASE RestoreConfig
    <2>1. pc = "process" /\ upgrader.process = 8
        BY <1>0, <1>8, Steps10 DEF RestoreConfig
    <2>2. upgrader.backup \in {"user", "upgrade"}
        BY <1>0, <2>1, CtxIs
    <2> QED
        BY <1>0, <1>2, <1>3, <1>8, <2>1, <2>2 DEF RestoreConfig
<1>9. CASE EndHop
    <2>1. pc = "process" /\ upgrader.process = 10
        BY <1>0, <1>9, Steps10 DEF EndHop
    <2>2. /\ upgrader' = [index |-> Target + 1, process |-> 1,
                          script |-> upgrader.script, backup |-> upgrader.backup]
          /\ ctx' = upgrader' /\ pc' = "save"
        BY <1>0, <1>9 DEF EndHop, Dump, Ctx
    <2>3. Target + 1 \in 0..(Last + 1) /\ 1 \in 1..Len(Process)
        BY <1>0, <2>1, TargetIs DEF Versions, Process
    <2>4. upgrader' \in Ctx
        BY <1>0, <2>2, <2>3 DEF Ctx
    <2>5. UNCHANGED <<plan, deployment, zone, cluster, database, history>>
        BY <1>9 DEF EndHop
    <2>6. Elsewhere
        BY <1>0, <2>2, <2>4, <2>5 DEF Elsewhere, Steps, ZoneSteps, InHop, Backed
    <2> QED
        BY <2>6, ElsewhereTInv
<1> QED
    BY <1>1, <1>4, <1>5, <1>6, <1>7, <1>8, <1>9

LEMMA GroupIs ==
    ASSUME plan \in Plans, zone \in 0..Len(plan.zones)
    PROVE  /\ Group \subseteq Zones
           /\ Rolling /\ zone > 0 => Group = {plan.zones[zone]} /\ plan.zones[zone] \in Zones
           /\ ~Rolling => Group = Zones
           /\ DOMAIN plan.zones = 1..Len(plan.zones) /\ Len(plan.zones) \in Nat
           /\ \A z \in Zones : \E k \in 1..Len(plan.zones) : z = plan.zones[k]
<1>1. plan.zones \in Seq(AllZones)
    BY UpgradeAssumption
<1>2. DOMAIN plan.zones = 1..Len(plan.zones) /\ Len(plan.zones) \in Nat
    BY <1>1
<1>3. zone > 0 => plan.zones[zone] \in Zones
    BY <1>2 DEF Zones
<1> QED
    BY <1>2, <1>3 DEF Group, Zones

\* The steps of upgrade_zone.
LEMMA ZonesTInv ==
    ASSUME TInv,
           \/ UpgradeZone \/ StartZone \/ Install \/ Stop \/ Start \/ Wait \/ CheckZone
    PROVE  TInv'
<1> USE DEF deployment, memory, cluster, database, history
<1>0. /\ plan \in Plans /\ upgrader \in Ctx /\ ctx \in Ctx /\ meta \in Ctx
      /\ status \in {"RUNNING", "UPGRADING"} /\ recorded \in {0, Last}
      /\ pre \subseteq Versions /\ post \subseteq Versions /\ param \in {"user", "upgrade"}
      /\ bin \in [Zones -> Versions] /\ run \in [Zones -> Versions \cup {Down}]
      /\ zone \in 0..Len(plan.zones) /\ stayed \subseteq {z \in Zones : run[z] # Down}
      /\ faults \in 0..MaxFaults /\ killed \in BOOLEAN
      /\ meta.process > 1 => meta.backup # "none"
      /\ upgrader.process > 1 => upgrader.backup # "none"
      /\ pc \in {"process"} \cup ZoneSteps => upgrader.index <= Last
      /\ pc \in ZoneSteps => upgrader.process = 6 /\ (Rolling <=> zone > 0)
    BY DEF TInv, TypeOK, Backed, Placed, InHop
<1>1. /\ plan' = plan /\ UNCHANGED <<status, recorded, meta, pre, post, param, killed>>
    BY DEF UpgradeZone, StartZone, Install, Stop, Start, Wait, CheckZone
<1>2. Zones' = Zones /\ (Rolling' <=> Rolling)
    BY <1>1 DEF Zones, Rolling
\* A step within upgrade_zone, which does not touch the contexts.
<1>3. ASSUME pc' \in ZoneSteps, UNCHANGED <<ctx, upgrader>>, faults' \in 0..MaxFaults,
             upgrader.process = 6, stayed' \subseteq {z \in Zones : run'[z] # Down}, upgrader.index <= Last, zone' \in 0..Len(plan.zones), Rolling <=> zone' > 0,
             pc' \in {"start_zone", "health"} => Rolling,
             bin' \in [Zones -> Versions], run' \in [Zones -> Versions \cup {Down}], OneByOne'
      PROVE  TInv'
    <2>1. TypeOK'
        BY <1>0, <1>1, <1>2, <1>3 DEF TypeOK, Steps, ZoneSteps
    <2>2. Backed'
        BY <1>1, <1>3 DEF TInv, Backed
    <2>3. Placed'
        BY <1>1, <1>2, <1>3 DEF Placed, InHop
    <2> QED
        BY <1>3, <2>1, <2>2, <2>3 DEF TInv
\* A step out of it.
<1>4. ASSUME pc' \in {"process", "failed"}, upgrader.index <= Last,
             upgrader.process = 6, StepFails \/ Succeed, zone' = zone,
             bin' = bin, run' \in [Zones -> Versions \cup {Down}],
             stayed' \subseteq {z \in Zones : run'[z] # Down},
             Rolling => \A x, y \in Zones : run'[x] = Down /\ run'[y] = Down => x = y
      PROVE  TInv'
    <2>1. /\ ctx' \in Ctx /\ upgrader' \in Ctx /\ faults' \in 0..MaxFaults
          /\ upgrader'.process > 1 => upgrader'.backup # "none"
          /\ ctx' = upgrader' /\ upgrader'.index <= Last
        BY <1>0, <1>4, Succeeded, StepFailed
    <2>2. TypeOK'
        BY <1>0, <1>1, <1>2, <1>4, <2>1 DEF TypeOK, Steps
    <2>3. Backed' /\ Placed'
        BY <1>0, <1>1, <1>4, <2>1 DEF Backed, Placed, InHop, ZoneSteps
    <2>4. OneByOne'
        BY <1>2, <1>4 DEF OneByOne
    <2> QED
        BY <2>2, <2>3, <2>4 DEF TInv
<1>5. Rolling => \A x, y \in Zones : run[x] = Down /\ run[y] = Down => x = y
    BY DEF TInv, OneByOne
<1>6. pc \in {"install", "stop"} /\ Rolling => AllUp
    BY DEF TInv, OneByOne
<1>7. CASE UpgradeZone
    <2>1. pc = "process" /\ upgrader.process = 6
        BY <1>0, <1>7, Steps10 DEF UpgradeZone
    <2>2. Rolling => 1 \in 0..Len(plan.zones)
        BY <1>0, GroupIs DEF Rolling
    <2>3. 0 \in 0..Len(plan.zones)
        BY <1>0, GroupIs
    <2>4. OneByOne'
        BY <1>2, <1>5, <1>7 DEF UpgradeZone, OneByOne
    <2> QED
        BY <1>0, <1>3, <1>7, <2>1, <2>2, <2>3, <2>4 DEF UpgradeZone, ZoneSteps
<1>8. CASE StartZone
    <2>1. pc = "start_zone" /\ Rolling /\ UNCHANGED <<zone, bin, run, stayed>>
        BY <1>8 DEF StartZone, TInv, Placed
    <2>2. CASE StepFails
        BY <1>0, <1>4, <1>5, <2>1, <2>2, StepFailed DEF ZoneSteps
    <2>3. CASE AllUp /\ pc' = "install" /\ UNCHANGED memory /\ NoFault
        <3>1. OneByOne'
            BY <1>2, <1>5, <2>1, <2>3 DEF OneByOne, AllUp
        <3> QED
            BY <1>0, <1>3, <2>1, <2>3, <3>1 DEF NoFault, ZoneSteps
    <2> QED
        BY <1>8, <2>2, <2>3 DEF StartZone
<1>9. CASE Install
    <2>1. pc = "install" /\ pc' = "stop" /\ UNCHANGED <<ctx, upgrader, faults, zone, run, stayed>>
        BY <1>9 DEF Install
    <2>2. Target \in Versions
        BY <1>0, <2>1, TargetIs DEF ZoneSteps
    <2>3. bin' \in [Zones -> Versions]
        BY <1>0, <1>9, <2>2 DEF Install
    <2>4. OneByOne'
        BY <1>2, <1>5, <1>6, <2>1 DEF OneByOne, AllUp
    <2> QED
        BY <1>0, <1>3, <2>1, <2>3, <2>4 DEF ZoneSteps
<1>10. CASE Stop
    <2>1. pc = "stop" /\ UNCHANGED <<zone, bin>>
        BY <1>10 DEF Stop
    <2>2. PICK some \in SUBSET Group, kept \in SUBSET {z \in Group : run[z] # Down} :
            /\ Stopped(some)
            /\ \/ /\ some = Group \ kept /\ stayed' = (stayed \ Group) \cup kept
                  /\ IF kept = {} THEN NoFault ELSE Fault("stay")
                  /\ pc' = "start" /\ UNCHANGED memory
               \/ kept = {} /\ StepFails /\ stayed' = stayed \ some
        <3>1. CASE \E kept \in SUBSET {z \in Group : run[z] # Down} :
                    /\ Stopped(Group \ kept) /\ stayed' = (stayed \ Group) \cup kept
                    /\ IF kept = {} THEN NoFault ELSE Fault("stay")
                    /\ pc' = "start" /\ UNCHANGED memory
            BY <3>1
        <3>2. CASE \E some \in SUBSET Group : Stopped(some) /\ stayed' = stayed \ some /\ StepFails
            BY <3>2
        <3> QED
            BY <1>10, <3>1, <3>2 DEF Stop
    <2>3. run' \in [Zones -> Versions \cup {Down}] /\ run' = [z \in Zones |-> IF z \in some THEN Down ELSE run[z]]
        BY <1>0, <2>2 DEF Stopped
    <2>4. Rolling => \A x, y \in Zones : run'[x] = Down /\ run'[y] = Down => x = y
        <3>1. Rolling => Group = {plan.zones[zone]}
            BY <1>0, <2>1, GroupIs DEF ZoneSteps
        <3> QED
            BY <1>6, <2>1, <2>3, <3>1 DEF AllUp
    <2>7. stayed' \subseteq {z \in Zones : run'[z] # Down}
        <3>1. Group \subseteq Zones
            BY <1>0, GroupIs
        <3>2. stayed' \subseteq {z \in Zones : run[z] # Down} /\ stayed' \cap some = {}
            BY <1>0, <2>2, <3>1
        <3> QED
            BY <2>3, <3>2
    <2>5. CASE StepFails /\ pc' # "start"
        BY <1>0, <1>4, <2>1, <2>3, <2>4, <2>5, <2>7, StepFailed DEF ZoneSteps
    <2>6. CASE pc' = "start"
        <3>1. OneByOne'
            BY <1>2, <2>4, <2>6 DEF OneByOne
        <3>2. UNCHANGED memory /\ faults' \in 0..MaxFaults
            BY <1>0, <2>2, <2>6, StepFailed, UpgradeAssumption DEF NoFault, Fault
        <3> QED
            BY <1>0, <1>3, <2>1, <2>3, <2>6, <2>7, <3>1, <3>2 DEF ZoneSteps
    <2> QED
        BY <2>2, <2>5, <2>6, StepFailed
<1>11. CASE Start
    <2>1. pc = "start" /\ UNCHANGED <<zone, bin, stayed>>
        BY <1>11 DEF Start
    <2>2. PICK some \in SUBSET {z \in Group : run[z] = Down} :
            run' = [z \in Zones |-> IF z \in some THEN bin[z] ELSE run[z]]
        BY <1>11 DEF Start
    <2>3. run' \in [Zones -> Versions \cup {Down}]
        BY <1>0, <2>2
    <2>4. \A z \in Zones : run'[z] = Down => run[z] = Down
        BY <1>0, <2>2, UpgradeAssumption DEF Versions, Down
    <2>7. stayed' \subseteq {z \in Zones : run'[z] # Down}
        BY <1>0, <2>1, <2>4
    <2>5. CASE StepFails
        BY <1>0, <1>4, <1>5, <2>1, <2>3, <2>4, <2>5, <2>7, StepFailed DEF ZoneSteps
    <2>6. CASE pc' = "wait" /\ UNCHANGED memory /\ NoFault
        <3>1. OneByOne'
            BY <1>2, <1>5, <2>4, <2>6 DEF OneByOne
        <3> QED
            BY <1>0, <1>3, <2>1, <2>3, <2>6, <2>7, <3>1 DEF NoFault, ZoneSteps
    <2> QED
        BY <1>11, <2>5, <2>6 DEF Start
<1>12. CASE Wait
    <2>1. pc = "wait" /\ UNCHANGED <<zone, bin, run, stayed>>
        BY <1>12 DEF Wait
    <2>2. CASE Rolling
        <3>1. pc' = "health" /\ UNCHANGED <<ctx, upgrader, faults>>
            BY <1>12, <2>2 DEF Wait
        <3>2. OneByOne'
            BY <1>2, <1>5, <2>1, <3>1 DEF OneByOne
        <3> QED
            BY <1>0, <1>3, <2>1, <2>2, <3>1, <3>2 DEF ZoneSteps
    <2>3. CASE ~Rolling
        BY <1>0, <1>4, <1>12, <2>1, <2>3, Succeeded DEF Wait, ZoneSteps
    <2> QED
        BY <2>2, <2>3
<1>13. CASE CheckZone
    <2>1. pc = "health" /\ Rolling /\ UNCHANGED <<bin, run, stayed>>
        BY <1>13 DEF CheckZone, TInv, Placed
    <2>2. CASE (StepFails \/ Succeed) /\ zone' = zone
        BY <1>0, <1>4, <1>5, <2>1, <2>2, StepFailed, Succeeded DEF ZoneSteps
    <2>3. CASE /\ zone < Len(plan.zones) /\ zone' = zone + 1
               /\ pc' = "start_zone" /\ UNCHANGED memory /\ NoFault
        <3>1. OneByOne'
            BY <1>2, <1>5, <2>1, <2>3 DEF OneByOne
        <3>2. zone' \in 0..Len(plan.zones) /\ zone' > 0
            BY <1>0, <2>3, GroupIs
        <3> QED
            BY <1>0, <1>3, <2>1, <2>3, <3>1, <3>2 DEF NoFault, ZoneSteps
    <2> QED
        BY <1>13, <2>2, <2>3 DEF CheckZone
<1> QED
    BY <1>7, <1>8, <1>9, <1>10, <1>11, <1>12, <1>13

LEMMA NextTInv == TInv /\ [Next]_vars => TInv'
<1> SUFFICES ASSUME TInv, [Next]_vars PROVE TInv'
    OBVIOUS
<1>1. CASE Next
    BY <1>1, OutsideHopTInv, ProcessTInv, ZonesTInv DEF Next, Command
<1>2. CASE UNCHANGED vars
    BY <1>2 DEF vars, deployment, memory, cluster, database, history, TInv, TypeOK, Zones,
       Backed, Placed, OneByOne, Rolling, AllUp
<1> QED
    BY <1>1, <1>2

LEMMA AlwaysTInv == Spec => []TInv
<1> QED
    BY InitTInv, NextTInv, PTL DEF Spec

\* Every variable of the upgrade keeps its type, whatever fails, is interrupted
\* or killed: in particular process and script index stay within the process
\* and the route (plugins/oceanbase/4.2.1.4/upgrade.py, Upgrader.run), and
\* restore_config never runs without a backup.
THEOREM UpgradeTypeCorrect == Spec => []TypeOK
<1>1. TInv => TypeOK
    BY DEF TInv
<1> QED
    BY <1>1, AlwaysTInv, PTL

\* A cluster of more than two zones never has two of them down, whatever goes
\* wrong in whichever zone and however often the upgrade is resumed: upgrade_zone
\* waits for all servers before it stops the next zone.
THEOREM OneZoneAtATime == Spec => []OneZoneDown
<1>1. ASSUME TInv PROVE OneZoneDown
    <2> SUFFICES ASSUME Rolling PROVE Cardinality({z \in Zones : run[z] = Down}) <= 1
        BY DEF OneZoneDown
    <2> DEFINE D == {z \in Zones : run[z] = Down}
    <2>1. \A x, y \in D : x = y
        BY <1>1 DEF TInv, OneByOne
    <2>2. CASE D = {}
        BY <2>2, FS_EmptySet
    <2>3. CASE D # {}
        <3>1. PICK z \in D : TRUE
            BY <2>3
        <3>2. D = {z}
            BY <2>1, <3>1
        <3> HIDE DEF D
        <3>3. Cardinality(D) = 1
            BY <3>2, FS_Singleton
        <3> QED
            BY <3>3 DEF D
    <2> QED
        BY <2>2, <2>3
<1> QED
    BY <1>1, AlwaysTInv, PTL

-----------------------------------------------------------------------------
(* The cluster and the contexts.                                            *)

LEMMA HopIs ==
    ASSUME TInv
    PROVE  /\ Hop \in [0..Last -> 0..Last]
           /\ \A i \in 0..Last :
                /\ Hop[i] \in i..Last /\ Hop[i] \in plan.required \cup {Last}
                /\ \A j \in i..Last : j \in plan.required \cup {Last} => Hop[i] <= j
           /\ upgrader.index <= Last => Target = Hop[upgrader.index]
<1>1. plan \in Plans /\ upgrader.index \in 0..(Last + 1) /\ Last \in Nat
    BY CtxIs, UpgradeAssumption DEF TInv, TypeOK
<1>2. \A i \in 0..Last : /\ NextStage(i) \in i..Last /\ NextStage(i) \in plan.required \cup {Last}
                         /\ \A j \in i..Last : j \in plan.required \cup {Last} => NextStage(i) <= j
    BY <1>1, NextStageIs
<1>3. \A i \in 0..Last : Hop[i] = NextStage(i)
    BY DEF Hop
<1>4. Hop \in [0..Last -> 0..Last]
    BY <1>1, <1>2 DEF Hop
<1>5. upgrader.index <= Last => Target = Hop[upgrader.index]
    BY <1>1, <1>3 DEF Target
<1> QED
    BY <1>2, <1>3, <1>4, <1>5

LEMMA VerIs ==
    ASSUME TInv
    PROVE  /\ DOMAIN Ver = Zones
           /\ \A z \in Zones : /\ Ver[z] \in Versions /\ bin[z] \in Versions
                               /\ Taken[z] \in Versions \cup {Down}
                               /\ run[z] \in Versions \cup {Down}
                               /\ Ver[z] = IF Taken[z] = Down THEN bin[z] ELSE Taken[z]
                               /\ run[z] = Down <=> Taken[z] = Down
<1>1. \A z \in Zones : bin[z] # Down
    BY UpgradeAssumption DEF TInv, TypeOK, Versions, Down
<1> QED
    BY <1>1 DEF TInv, TypeOK, Ver, Version, Taken

\* Which does not change with the rest of the state.
LEMMA SameRoute == ASSUME UNCHANGED plan PROVE Zones' = Zones /\ Hop' = Hop /\ (Rolling' <=> Rolling)
BY DEF Zones, Hop, NextStage, Rolling

LEMMA SameVersions ==
    ASSUME UNCHANGED <<plan, bin, run, stayed>> PROVE Ver' = Ver /\ Taken' = Taken
BY DEF Ver, Version, Taken, Zones

\* A context stays reached while zones come to the end of its hop, as long as it does not
\* say yet that they have, and while scripts succeed.
LEMMA ReachedStill ==
    ASSUME NEW c \in Ctx, NEW hop \in [0..Last -> 0..Last], NEW version, NEW ran, NEW scripts,
           NEW version2, NEW ran2, NEW scripts2,
           Reached(c, hop, version, ran, scripts),
           scripts \subseteq scripts2, DOMAIN version2 = DOMAIN version,
           \A z \in DOMAIN version : \/ version2[z] = version[z]
                                     \/ c.index <= Last /\ version2[z] = hop[c.index],
           c.process > 6 \/ c.index > Last => ran2 = ran
    PROVE  Reached(c, hop, version2, ran2, scripts2)
<1>1. c.index \in 0..(Last + 1) /\ c.process \in 1..10 /\ Last \in Nat
    BY CtxIs, UpgradeAssumption
<1> QED
    BY <1>1 DEF Reached

\* A step of the hop that keeps to the hop, or fails.
LEMMA InsideHop ==
    ASSUME TInv, TInv', Inside, status = "UPGRADING", pc \in InHop, pc' \in InHop \cup {"failed"},
           UNCHANGED <<plan, status, recorded, meta>>,
           ctx' \in {ctx, upgrader'}, upgrader'.index = upgrader.index,
           upgrader'.process = ctx'.process, upgrader'.backup = ctx'.backup,
           upgrader.process <= upgrader'.process,
           pre \subseteq pre',
           \A z \in Zones : Ver'[z] \in {Ver[z], Target},
           upgrader.process > 6 => Taken' = Taken,
           Reached(upgrader', Hop, Ver', Taken', pre')
    PROVE  Inside'
<1>1. /\ meta \in Ctx /\ ctx \in Ctx /\ upgrader \in Ctx /\ upgrader' \in Ctx
      /\ upgrader.index <= Last
    BY DEF TInv, TypeOK, Placed
<1>2. /\ Reached(ctx, Hop, Ver, Taken, pre) /\ ctx.index = upgrader.index
      /\ ctx.process = upgrader.process /\ recorded = 0
      /\ meta # NoCtx => /\ Reached(meta, Hop, Ver, Taken, pre)
                         /\ meta.index = ctx.index /\ meta.process <= ctx.process
    BY DEF Inside, ReachedBy, InHop, ZoneSteps
<1>3. Hop' = Hop /\ Hop \in [0..Last -> 0..Last] /\ Target = Hop[upgrader.index] /\ Zones' = Zones
    BY <1>1, HopIs, SameRoute
<1>4. DOMAIN Ver = Zones /\ DOMAIN Ver' = Zones
    BY <1>3, VerIs DEF Ver
<1>5. \A c \in Ctx : c.index \in Int /\ c.process \in Int
    BY CtxIs
<1>6. ASSUME NEW c \in Ctx, Reached(c, Hop, Ver, Taken, pre), c.index = upgrader.index,
             c.process <= upgrader.process
      PROVE  Reached(c, Hop, Ver', Taken', pre')
    <2>1. DOMAIN Ver' = DOMAIN Ver
        BY <1>4
    <2>2. \A z \in DOMAIN Ver : Ver'[z] = Ver[z] \/ (c.index <= Last /\ Ver'[z] = Hop[c.index])
        <3>1. c.index <= Last /\ Hop[c.index] = Target
            BY <1>1, <1>3, <1>6
        <3>2. \A z \in DOMAIN Ver : Ver'[z] = Ver[z] \/ Ver'[z] = Target
            BY <1>4
        <3> QED
            BY <3>1, <3>2
    <2>3. c.process > 6 \/ c.index > Last => Taken' = Taken
        BY <1>1, <1>5, <1>6, UpgradeAssumption
    <2> HIDE DEF Hop, Ver
    <2> QED
        BY <1>3, <1>6, <2>1, <2>2, <2>3, ReachedStill
<1>7. Reached(ctx, Hop, Ver', Taken', pre')
    BY <1>1, <1>2, <1>5, <1>6
<1>8. meta # NoCtx => Reached(meta, Hop, Ver', Taken', pre')
    BY <1>1, <1>2, <1>5, <1>6
<1>9. Reached(ctx', Hop, Ver', Taken', pre')
    BY <1>7
<1>10. /\ ctx'.index = upgrader.index /\ upgrader.process <= ctx'.process
       /\ meta # NoCtx => meta.index = ctx'.index /\ meta.process <= ctx'.process
    BY <1>1, <1>2, <1>5
<1>11. meta' # NoCtx => ReachedBy(meta)'
    BY <1>3, <1>8 DEF ReachedBy
<1>12. ReachedBy(ctx)' /\ ReachedBy(upgrader)'
    BY <1>3, <1>9 DEF ReachedBy
<1> QED
    BY <1>2, <1>10, <1>11, <1>12 DEF Inside, InHop, ZoneSteps

LEMMA InsideEnds ==
    ASSUME TInv, Inside, status = "UPGRADING", pc # "idle", pc' = "idle",
           UNCHANGED <<plan, status, recorded, bin, run, stayed, pre>>, meta' \in {meta, ctx, NoCtx}
    PROVE  Inside'
<1>1. Hop' = Hop /\ Ver' = Ver /\ Taken' = Taken
    BY SameRoute, SameVersions
<1> QED
    BY <1>1 DEF Inside, ReachedBy, InHop, ZoneSteps

LEMMA SameTarget ==
    ASSUME UNCHANGED <<plan, upgrader>> PROVE Target' = Target
BY DEF Target, NextStage

\* Outside upgrade_zone nothing is said of its steps, and a cluster that does not change
\* stays in step with the scripts.
LEMMA ZonesLeft == ASSUME pc' \notin ZoneSteps PROVE ZonesDone'
BY DEF ZonesDone, ZoneSteps

LEMMA StillScripted ==
    ASSUME Scripted, UNCHANGED <<plan, bin, run, stayed, post>>, pre \subseteq pre' PROVE Scripted'
<1>1. Zones' = Zones /\ Ver' = Ver
    BY SameRoute, SameVersions
<1> QED
    BY <1>1 DEF Scripted

LEMMA InitSInv == Init => SInv
<1> SUFFICES ASSUME Init PROVE SInv
    OBVIOUS
<1> USE DEF Init
<1>1. \A z \in Zones : bin[z] = 0 /\ run[z] = 0
    OBVIOUS
<1>2. Outside /\ Inside
    BY <1>1, UpgradeAssumption DEF Outside, Inside
<1>3. ZonesDone
    BY DEF ZonesDone, ZoneSteps
<1>5. \A z \in Zones : Ver[z] = 0
    BY <1>1 DEF Ver, Version
<1>4. Scripted
    BY <1>1, <1>5 DEF Scripted
<1> QED
    BY <1>2, <1>3, <1>4 DEF SInv

\* The steps of upgrade_cluster.
LEMMA ControlSInv ==
    ASSUME Careful, TInv, TInv', SInv,
           \/ BeginUpgrade \/ ResumeUpgrade \/ StartUpgrade \/ MarkUpgrading \/ NextHop
           \/ LastHopDone \/ UpdateUpgradeCtx \/ StopUpgrade \/ RecordRepository
    PROVE  SInv'
<1> USE DEF SInv, deployment, memory, cluster, database, history
<1>0. UNCHANGED <<plan, bin, run, stayed, pre, post, param>> /\ pc' \notin ZoneSteps
    BY DEF BeginUpgrade, ResumeUpgrade, StartUpgrade, MarkUpgrading, NextHop, LastHopDone,
           UpdateUpgradeCtx, StopUpgrade, RecordRepository, ZoneSteps
<1>1. Zones' = Zones /\ Hop' = Hop /\ Ver' = Ver /\ Taken' = Taken
    BY <1>0, SameRoute, SameVersions
<1>2. ZonesDone' /\ Scripted'
    BY <1>0, ZonesLeft, StillScripted
<1>3. status \in {"RUNNING", "UPGRADING"} /\ recorded \in {0, Last} /\ Last # 0
    BY UpgradeAssumption DEF TInv, TypeOK
<1>4. CASE BeginUpgrade
    <2>1. /\ pc = "idle" /\ status = "RUNNING" /\ recorded # Last /\ pc' = "meta"
          /\ ctx' = [NoCtx EXCEPT !.index = 1, !.script = 1] /\ UNCHANGED <<status, recorded, meta>>
        BY <1>4, UpgradeAssumption DEF BeginUpgrade
    <2>2. Inside'
        BY <2>1 DEF Inside
    <2>3. Outside'
        BY <1>0, <1>1, <1>3, <2>1 DEF Outside
    <2> QED
        BY <1>2, <2>2, <2>3
<1>5. CASE ResumeUpgrade
    <2>1. Outside'
        BY <1>5 DEF ResumeUpgrade, Outside
    <2>2. ReachedBy(ctx)' /\ ReachedBy(meta)'
        BY <1>0, <1>1, <1>5 DEF ResumeUpgrade, Inside, ReachedBy
    <2>3. Inside'
        BY <1>5, <2>2 DEF ResumeUpgrade, Inside, InHop, ZoneSteps
    <2> QED
        BY <1>2, <2>1, <2>3
<1>6. CASE StartUpgrade
    <2>1. /\ pc = "meta" /\ pc' = "status" /\ meta' = ctx /\ UNCHANGED <<status, recorded, ctx>>
        BY <1>6 DEF StartUpgrade, Careful, Silent
    <2>2. status = "RUNNING"
        BY <1>3, <2>1 DEF Inside
    <2>3. Outside' /\ Inside'
        BY <1>0, <1>1, <2>1, <2>2 DEF Outside, Inside
    <2> QED
        BY <1>2, <2>3
<1>7. CASE MarkUpgrading
    <2>1. /\ pc = "status" /\ pc' = "loop" /\ status' = "UPGRADING"
          /\ UNCHANGED <<recorded, meta, ctx>>
        BY <1>7 DEF MarkUpgrading, Careful, Silent
    <2>2. /\ recorded = 0 /\ ctx = [NoCtx EXCEPT !.index = 1, !.script = 1] /\ meta = ctx
          /\ \A z \in Zones : run[z] = 0 /\ bin[z] = 0
        BY <1>3, <2>1 DEF Outside, Inside
    <2>3. ctx.index = 1 /\ ctx.process = 1
        BY <2>2 DEF NoCtx
    <2>4. \A z \in DOMAIN Ver : Ver[z] = 0
        BY <2>2, VerIs DEF Taken
    <2>5. Reached(ctx, Hop, Ver, Taken, pre)
        BY <2>3, <2>4, UpgradeAssumption DEF Reached
    <2>6. ReachedBy(ctx)' /\ ReachedBy(meta)'
        BY <1>0, <1>1, <2>1, <2>2, <2>5 DEF ReachedBy
    <2>7. Inside'
        BY <2>1, <2>2, <2>6 DEF Inside, InHop, ZoneSteps
    <2>8. Outside'
        BY <2>1 DEF Outside
    <2> QED
        BY <1>2, <2>7, <2>8
<1>8. CASE NextHop
    <2>1. /\ pc = "loop" /\ pc' = "start_servers" /\ upgrader' = ctx
          /\ UNCHANGED <<status, recorded, meta, ctx>>
        BY <1>8 DEF NextHop, Upgrader
    <2>2. status = "UPGRADING"
        BY <1>3, <2>1 DEF Outside
    <2>3. ReachedBy(ctx)' /\ ReachedBy(upgrader)' /\ (meta # NoCtx => ReachedBy(meta)')
        BY <1>0, <1>1, <2>1, <2>2 DEF Inside, ReachedBy
    <2>4. meta = NoCtx \/ (meta.index = ctx.index /\ meta.process <= ctx.process)
        <3>1. ctx \in Ctx
            BY DEF TInv, TypeOK
        <3>2. ctx.process \in Int
            BY <3>1, CtxIs
        <3> QED
            BY <2>1, <2>2, <3>2 DEF Inside
    <2>5. Outside'
        BY <2>1, <2>2 DEF Outside
    <2>6. Inside'
        BY <2>1, <2>2, <2>3, <2>4 DEF Inside
    <2> QED
        BY <1>2, <2>5, <2>6
<1>9. CASE LastHopDone
    <2>1. /\ pc = "loop" /\ pc' = "stop_upgrade" /\ ctx.index > Last
          /\ UNCHANGED <<status, recorded, meta, ctx>>
        BY <1>9 DEF LastHopDone
    <2>2. status = "UPGRADING"
        BY <1>3, <2>1 DEF Outside
    <2>3. ReachedBy(ctx)' /\ (meta # NoCtx => ReachedBy(meta)')
        BY <1>0, <1>1, <2>1, <2>2 DEF Inside, ReachedBy
    <2>4. Outside'
        BY <2>1, <2>2 DEF Outside
    <2>5. Inside'
        BY <2>1, <2>2, <2>3 DEF Inside, InHop, ZoneSteps
    <2> QED
        BY <1>2, <2>4, <2>5
<1>10. CASE UpdateUpgradeCtx
    <2>1. /\ pc \in {"save", "failed"} /\ pc' \in {"loop", "idle"}
          /\ UNCHANGED <<status, recorded, ctx>>
        BY <1>10 DEF UpdateUpgradeCtx
    <2>2. status = "UPGRADING"
        BY <1>3, <2>1 DEF Outside
    <2>3. meta' \in {ctx, NoCtx}
        BY <1>10, <2>2 DEF UpdateUpgradeCtx, Written
    <2>4. ReachedBy(ctx)' /\ (meta' # NoCtx => ReachedBy(meta)')
        BY <1>0, <1>1, <2>1, <2>2, <2>3 DEF Inside, ReachedBy
    <2>5. Outside'
        BY <2>1, <2>2 DEF Outside
    <2>6. Inside'
        BY <2>1, <2>2, <2>3, <2>4 DEF Inside, InHop, ZoneSteps
    <2> QED
        BY <1>2, <2>5, <2>6
<1>11. CASE StopUpgrade
    <2>1. pc = "stop_upgrade" /\ pc' = "record" /\ status' = "RUNNING" /\ UNCHANGED recorded
        BY <1>11 DEF StopUpgrade
    <2>2. status = "UPGRADING"
        BY <1>3, <2>1 DEF Outside
    <2>3. Reached(ctx, Hop, Ver, Taken, pre) /\ ctx.index > Last
        BY <2>1, <2>2 DEF Inside, ReachedBy
    <2>4. \A z \in Zones : Taken[z] = Last
        BY <2>3, VerIs DEF Reached
    <2>5. Outside' /\ Inside'
        BY <1>0, <1>1, <2>1, <2>4 DEF Outside, Inside
    <2> QED
        BY <1>2, <2>5
<1>12. CASE RecordRepository
    <2>1. pc = "record" /\ pc' = "idle" /\ recorded' = Last /\ UNCHANGED status
        BY <1>12 DEF RecordRepository, Careful, Silent
    <2>2. status = "RUNNING"
        BY <1>3, <2>1 DEF Inside
    <2>3. Outside' /\ Inside'
        BY <1>0, <1>1, <1>3, <2>1, <2>2 DEF Outside, Inside
    <2> QED
        BY <1>2, <2>3
<1> QED
    BY <1>4, <1>5, <1>6, <1>7, <1>8, <1>9, <1>10, <1>11, <1>12

\* A command that is interrupted or killed.
LEMMA InterruptedSInv ==
    ASSUME TInv, TInv', SInv, Signal \/ GiveUp \/ Kill PROVE SInv'
<1> USE DEF SInv, deployment, memory, cluster, database, history
<1>1. /\ pc \notin {"idle", "record"} /\ pc' = "idle"
      /\ UNCHANGED <<plan, status, recorded, bin, run, stayed, pre, post, param>>
    BY DEF Signal, GiveUp, SignalHandler, Kill
<1>2. ZonesDone' /\ Scripted' /\ Zones' = Zones /\ Taken' = Taken
    BY <1>1, ZonesLeft, StillScripted, SameRoute, SameVersions DEF ZoneSteps
<1>3. CASE status = "RUNNING"
    <2>1. Outside'
        BY <1>1, <1>2, <1>3 DEF Outside
    <2> QED
        BY <1>1, <1>2, <1>3, <2>1 DEF Inside
<1>4. CASE status = "UPGRADING"
    <2>1. meta' \in {meta, ctx, NoCtx}
        BY <1>4 DEF Signal, GiveUp, SignalHandler, Kill, Written
    <2>2. Inside'
        BY <1>1, <1>4, <2>1, InsideEnds
    <2> QED
        BY <1>1, <1>2, <1>4, <2>2 DEF Outside
<1> QED
    BY <1>3, <1>4 DEF TInv, TypeOK

\* In a hop, what the invariants say of it.
LEMMA InHopIs ==
    ASSUME TInv, Outside, Inside, pc \in InHop
    PROVE  /\ status = "UPGRADING" /\ upgrader \in Ctx /\ upgrader.index \in 1..Last
           /\ upgrader.process \in 1..10 /\ upgrader.script \in 0..(Last + 1)
           /\ Last \in Nat /\ Target \in upgrader.index..Last /\ Target = Hop[upgrader.index]
           /\ Reached(upgrader, Hop, Ver, Taken, pre)
           /\ \A z \in Zones : Ver[z] \in {upgrader.index - 1, Target}
           /\ upgrader.process > 4 => 1..Target \subseteq pre
           /\ upgrader.process > 6 => \A z \in Zones : Taken[z] = Target /\ Ver[z] = Target
<1>1. status = "UPGRADING"
    BY DEF Outside, TInv, TypeOK, InHop, ZoneSteps
<1>2. Reached(upgrader, Hop, Ver, Taken, pre)
    BY <1>1 DEF Inside, ReachedBy
<1>3. upgrader \in Ctx /\ upgrader.index <= Last /\ Last \in Nat
    BY UpgradeAssumption DEF TInv, TypeOK, Placed
<1>4. upgrader.index \in 1..Last /\ upgrader.process \in 1..10 /\ upgrader.script \in 0..(Last + 1)
    BY <1>2, <1>3, CtxIs DEF Reached
<1>5. Target \in upgrader.index..Last /\ Target = Hop[upgrader.index]
    BY <1>3, TargetIs, HopIs
<1>6. DOMAIN Ver = Zones
    BY VerIs
<1>7. \A z \in Zones : Ver[z] \in {upgrader.index - 1, Target}
    BY <1>2, <1>5, <1>6 DEF Reached
<1>8. upgrader.process > 4 => 1..Target \subseteq pre
    BY <1>2, <1>5 DEF Reached
<1>9. upgrader.process > 6 => \A z \in Zones : Taken[z] = Target /\ Ver[z] = Target
    BY <1>2, <1>4, <1>5, <1>6, VerIs DEF Reached, Down
<1> QED
    BY <1>1, <1>2, <1>3, <1>4, <1>5, <1>7, <1>8, <1>9

\* The next step of the process may begin.
LEMMA ReachedNext ==
    ASSUME TInv, Outside, Inside, pc \in InHop, Succeed, upgrader.process <= 9,
           upgrader.process = 4 => upgrader.script > Target,
           upgrader.process = 6 => \A z \in Zones : Taken[z] = Target
    PROVE  Reached(upgrader', Hop, Ver, Taken, pre)
<1>1. /\ upgrader.index \in 1..Last /\ upgrader.process \in 1..9 /\ upgrader.script \in 0..(Last + 1)
      /\ Last \in Nat /\ Target \in upgrader.index..Last /\ Target = Hop[upgrader.index]
      /\ Reached(upgrader, Hop, Ver, Taken, pre)
    BY InHopIs
<1>2. /\ upgrader'.process = upgrader.process + 1 /\ upgrader'.index = upgrader.index
      /\ upgrader'.script = upgrader.index
    BY <1>1, Succeeded
<1>3. DOMAIN Ver = Zones
    BY VerIs
<1>4. upgrader.process = 4 => 1..Target \subseteq pre
    BY <1>1 DEF Reached
<1> QED
    BY <1>1, <1>2, <1>3, <1>4 DEF Reached

\* A step of the process succeeds, or fails.
LEMMA SucceedInside ==
    ASSUME TInv, TInv', Outside, Inside, pc \in InHop, Succeed,
           UNCHANGED <<plan, status, recorded, meta, bin, run, stayed, pre>>, upgrader.process <= 9,
           upgrader.process = 4 => upgrader.script > Target,
           upgrader.process = 6 => \A z \in Zones : Taken[z] = Target
    PROVE  Outside' /\ Inside'
<1>1. status = "UPGRADING" /\ upgrader.index <= Last /\ upgrader.process \in 1..9
    BY InHopIs
<1>2. /\ ctx' = upgrader' /\ pc' = "process" /\ upgrader'.process = upgrader.process + 1
      /\ upgrader'.index = upgrader.index
    BY <1>1, Succeeded
<1>3. Ver' = Ver /\ Taken' = Taken
    BY SameVersions
<1>4. Reached(upgrader', Hop, Ver', Taken', pre')
    BY <1>3, ReachedNext
<1>5. upgrader.process <= upgrader'.process
    BY <1>1, <1>2
<1>6. Inside'
    BY <1>1, <1>2, <1>3, <1>4, <1>5, InsideHop DEF InHop
<1> QED
    BY <1>1, <1>6 DEF Outside

\* A step that changes the cluster, within the hop, or fails half-way.
LEMMA HopInside ==
    ASSUME TInv, TInv', Outside, Inside, pc \in InHop, pc' \in InHop \cup {"failed"},
           UNCHANGED <<plan, status, recorded, meta, upgrader>>, ctx' \in {ctx, upgrader},
           pre \subseteq pre', \A z \in Zones : Ver'[z] \in {Ver[z], Target},
           upgrader.process > 6 => Taken' = Taken
    PROVE  Outside' /\ Inside'
<1>1. /\ status = "UPGRADING" /\ Reached(upgrader, Hop, Ver, Taken, pre) /\ upgrader \in Ctx
      /\ upgrader.index \in 1..Last /\ Target = Hop[upgrader.index] /\ Last \in Nat
      /\ upgrader.process \in 1..10
    BY InHopIs
<1>2. DOMAIN Ver = Zones /\ DOMAIN Ver' = Zones
    BY VerIs, SameRoute DEF Ver
<1>3. \A z \in DOMAIN Ver : Ver'[z] = Ver[z] \/ (upgrader.index <= Last /\ Ver'[z] = Hop[upgrader.index])
    BY <1>1, <1>2
<1>4. upgrader.process > 6 \/ upgrader.index > Last => Taken' = Taken
    BY <1>1
<1>5. Hop \in [0..Last -> 0..Last]
    BY HopIs
<1>6. Reached(upgrader, Hop, Ver', Taken', pre')
    BY <1>1, <1>2, <1>3, <1>4, <1>5, ReachedStill
<1>7. ctx.process = upgrader.process /\ ctx.backup = upgrader.backup
    BY <1>1 DEF Inside
<1>8. /\ upgrader'.index = upgrader.index /\ upgrader'.process = ctx'.process
      /\ upgrader'.backup = ctx'.backup /\ upgrader.process <= upgrader'.process
    BY <1>1, <1>7
<1>9. Reached(upgrader', Hop, Ver', Taken', pre') /\ ctx' \in {ctx, upgrader'}
    BY <1>6
<1>10. Inside'
    BY <1>1, <1>8, <1>9, InsideHop
<1> QED
    BY <1>1, <1>10 DEF Outside

LEMMA ProcessSInv ==
    ASSUME TInv, TInv', SInv,
           \/ StartServers \/ BackupConfig \/ Check \/ ExecPre \/ ExecPost \/ ScriptsDone
           \/ RestoreConfig \/ EndHop
    PROVE  SInv'
<1> USE DEF SInv, deployment, memory, cluster, database, history
<1>0. upgrader \in Ctx
    BY DEF TInv, TypeOK
<1>1. /\ pc \in InHop /\ pc' \notin ZoneSteps
      /\ UNCHANGED <<plan, status, recorded, meta, bin, stayed>>
    BY <1>0, Steps10 DEF StartServers, BackupConfig, Check, ExecPre, ExecPost, ScriptsDone, RestoreConfig,
       EndHop, StepFails, Succeed, InHop, ZoneSteps, At
<1>2. ZonesDone' /\ Zones' = Zones
    BY <1>1, ZonesLeft, SameRoute
<1>3. /\ status = "UPGRADING" /\ upgrader \in Ctx /\ upgrader.index \in 1..Last
      /\ upgrader.process \in 1..10 /\ upgrader.script \in 0..(Last + 1)
      /\ Last \in Nat /\ Target \in upgrader.index..Last /\ Target = Hop[upgrader.index]
      /\ Reached(upgrader, Hop, Ver, Taken, pre)
      /\ \A z \in Zones : Ver[z] \in {upgrader.index - 1, Target}
      /\ upgrader.process > 4 => 1..Target \subseteq pre
      /\ upgrader.process > 6 => \A z \in Zones : Taken[z] = Target /\ Ver[z] = Target
    BY <1>1, InHopIs
<1>4. DOMAIN Ver = Zones
    BY VerIs
\* A step fails without touching the cluster.
<1>5. ASSUME StepFails, UNCHANGED <<run, post>>, pre \subseteq pre' PROVE SInv'
    <2>1. UNCHANGED upgrader /\ ctx' = upgrader /\ pc' = "failed"
        BY <1>5, StepFailed
    <2>2. Ver' = Ver /\ Taken' = Taken
        BY <1>1, <1>5, SameVersions
    <2>3. Outside' /\ Inside'
        BY <1>1, <1>5, <2>1, <2>2, HopInside
    <2>4. Scripted'
        BY <1>1, <1>5, StillScripted
    <2> QED
        BY <1>2, <2>3, <2>4
<1>6. ASSUME Succeed, UNCHANGED <<run, pre, post>>, upgrader.process \in {2, 3, 4, 5, 7, 8, 9},
             upgrader.process = 4 => upgrader.script > Target
      PROVE  SInv'
    <2>1. upgrader.process <= 9 /\ upgrader.process # 6
        BY <1>6
    <2>2. Outside' /\ Inside'
        BY <1>1, <1>6, <2>1, SucceedInside
    <2>3. Scripted'
        BY <1>1, <1>6, StillScripted
    <2> QED
        BY <1>2, <2>2, <2>3
<1>7. CASE StartServers
    <2>1. UNCHANGED <<upgrader, ctx, pre, post>> \/ StepFails
        BY <1>7 DEF StartServers
    <2> DEFINE down == {z \in Zones : run[z] = Down}
    <2>2. run' = [z \in Zones |-> IF z \in down THEN bin[z] ELSE run[z]] \/ run' = run
        BY <1>7 DEF StartServers
    <2>3. \A z \in Zones : run'[z] \in {bin[z], run[z]}
        BY <2>2
    <2>4. run \in [Zones -> Versions \cup {Down}] /\ bin \in [Zones -> Versions]
        BY DEF TInv, TypeOK
    <2>5. \A z \in Zones : Ver'[z] = Ver[z]
        BY <1>1, <1>2, <2>2, <2>4 DEF Ver, Version
    <2>6. upgrader.process > 6 => Taken' = Taken
        <3>1. ASSUME upgrader.process > 6 PROVE down = {}
            BY <1>3, <3>1, VerIs DEF Down
        <3>2. ASSUME upgrader.process > 6 PROVE run' = run
            BY <2>2, <2>4, <3>1, <3>2
        <3> QED
            BY <1>1, <3>2, SameVersions
    <2>7. UNCHANGED <<upgrader, ctx, pre, post>> /\ pc' \in {"process", "failed"}
        BY <1>7 DEF StartServers
    <2>8. Outside' /\ Inside'
        BY <1>1, <2>5, <2>6, <2>7, HopInside DEF InHop
    <2>9. Scripted'
        BY <1>1, <1>2, <2>3, <2>5, <2>7 DEF Scripted
    <2> QED
        BY <1>2, <2>8, <2>9
<1>8. CASE BackupConfig
    <2>1. pc = "process" /\ upgrader.process = 1 /\ UNCHANGED <<run, pre, post>>
        BY <1>0, <1>8, Steps10 DEF BackupConfig
    <2>2. CASE StepFails
        BY <1>5, <2>1, <2>2
    <2>3. CASE ~StepFails
        <3>1. /\ upgrader' = [upgrader EXCEPT !.process = @ + 1, !.script = upgrader.index,
                                              !.backup = param]
              /\ ctx' = upgrader' /\ UNCHANGED pc
            BY <1>8, <2>3 DEF BackupConfig, Dump
        <3>2. upgrader'.process = 2 /\ upgrader'.index = upgrader.index
            BY <1>3, <2>1, <3>1 DEF Ctx
        <3>3. Ver' = Ver /\ Taken' = Taken
            BY <1>1, <2>1, SameVersions
        <3>4. Reached(upgrader', Hop, Ver', Taken', pre')
            BY <1>3, <2>1, <3>2, <3>3 DEF Reached
        <3>5. Inside'
            <4>1. upgrader.process <= upgrader'.process /\ ~(upgrader.process > 6)
                BY <2>1, <3>2
            <4> QED
                BY <1>1, <1>3, <2>1, <3>1, <3>2, <3>3, <3>4, <4>1, InsideHop DEF InHop
        <3>6. Outside' /\ Scripted'
            BY <1>1, <1>3, <2>1, StillScripted DEF Outside
        <3> QED
            BY <1>2, <3>5, <3>6
    <2> QED
        BY <2>2, <2>3
<1>9. CASE Check
    <2>1. upgrader.process \in {2, 3, 5, 9} /\ UNCHANGED <<run, pre, post>>
        BY <1>0, <1>9, Steps10 DEF Check
    <2> QED
        BY <1>5, <1>6, <1>9, <2>1 DEF Check
<1>10. CASE ScriptsDone
    <2>1. upgrader.process \in {4, 7} /\ upgrader.script > Target /\ UNCHANGED <<run, pre, post>>
        BY <1>0, <1>10, Steps10 DEF ScriptsDone
    <2> QED
        BY <1>6, <1>10, <2>1 DEF ScriptsDone
<1>11. CASE RestoreConfig
    <2>1. upgrader.process = 8 /\ UNCHANGED <<run, pre, post>>
        BY <1>0, <1>11, Steps10 DEF RestoreConfig
    <2> QED
        BY <1>5, <1>6, <1>11, <2>1 DEF RestoreConfig
<1>12. CASE ExecPre \/ ExecPost
    <2>1. /\ pc = "process" /\ upgrader.script <= Target /\ UNCHANGED run
          /\ (ExecPre /\ upgrader.process = 4 /\ UNCHANGED post) \/ (ExecPost /\ upgrader.process = 7 /\ UNCHANGED pre)
        BY <1>0, <1>12, Steps10 DEF ExecPre, ExecPost
    <2>2. Ver' = Ver /\ Taken' = Taken
        BY <1>1, <2>1, SameVersions
    <2>3. CASE StepFails
        <3>1. pc' = "failed" /\ pc = "process"
            BY <2>1, <2>3, StepFailed
        <3>2. UNCHANGED post /\ pre \subseteq pre'
            BY <1>12, <2>1, <3>1 DEF ExecPre, ExecPost
        <3> QED
            BY <1>5, <2>1, <2>3, <3>2
    <2>4. CASE ~StepFails
        <3>1. /\ upgrader' = [upgrader EXCEPT !.script = @ + 1] /\ UNCHANGED <<ctx, pc>>
              /\ ExecPre => pre' = pre \cup {upgrader.script}
              /\ ExecPost => post' = post \cup {upgrader.script}
            BY <1>12, <2>4 DEF ExecPre, ExecPost
        <3>2. /\ upgrader'.index = upgrader.index /\ upgrader'.process = upgrader.process
              /\ upgrader'.script = upgrader.script + 1 /\ upgrader'.backup = upgrader.backup
            BY <1>3, <3>1 DEF Ctx
        <3>3. pre \subseteq pre'
            BY <2>1, <3>1
        <3>4. upgrader.process = 4 => 1..(upgrader'.script - 1) \subseteq pre'
            <4>1. ASSUME upgrader.process = 4 PROVE 1..(upgrader.script - 1) \subseteq pre
                BY <1>3, <4>1 DEF Reached
            <4> QED
                BY <1>3, <2>1, <3>1, <3>2, <4>1
        <3>5. Reached(upgrader', Hop, Ver', Taken', pre')
            BY <1>3, <2>1, <2>2, <3>2, <3>3, <3>4 DEF Reached
        <3>6. ctx.process = upgrader.process /\ ctx.backup = upgrader.backup
            BY <1>1, <1>3 DEF Inside
        <3>7. Inside'
            <4>1. upgrader'.process = ctx'.process /\ upgrader'.backup = ctx'.backup
                  /\ upgrader.process <= upgrader'.process /\ ctx' \in {ctx, upgrader'}
                BY <1>3, <3>1, <3>2, <3>6
            <4>2. pc' \in InHop \cup {"failed"}
                BY <1>1, <3>1
            <4> QED
                BY <1>1, <1>3, <2>1, <2>2, <3>2, <3>3, <3>5, <4>1, <4>2, InsideHop
        <3>8. Outside'
            BY <1>1, <1>3 DEF Outside
        <3>9. Scripted'
            <4>1. CASE UNCHANGED post
                BY <1>1, <2>1, <3>3, <4>1, StillScripted
            <4>2. CASE ExecPost /\ upgrader.process = 7 /\ UNCHANGED pre
                <5>1. \A z \in Zones : Ver[z] >= upgrader.script
                    BY <1>3, <2>1, <4>2
                <5> QED
                    BY <1>1, <1>2, <2>1, <2>2, <3>1, <4>2, <5>1 DEF Scripted
            <4> QED
                BY <2>1, <4>1, <4>2
        <3> QED
            BY <1>2, <3>7, <3>8, <3>9
    <2> QED
        BY <2>3, <2>4
<1>13. CASE EndHop
    <2>1. pc = "process" /\ upgrader.process = 10 /\ UNCHANGED <<run, pre, post>>
        BY <1>0, <1>13, Steps10 DEF EndHop
    <2>2. /\ upgrader' = [upgrader EXCEPT !.process = 1, !.index = Target + 1]
          /\ ctx' = upgrader' /\ pc' = "save"
        BY <1>13 DEF EndHop, Dump
    <2>3. ctx'.process = 1 /\ ctx'.index = Target + 1
        BY <1>3, <2>2 DEF Ctx
    <2>4. Ver' = Ver /\ Taken' = Taken /\ Hop' = Hop
        BY <1>1, <2>1, SameVersions, SameRoute
    <2>5. 1..Target \subseteq pre /\ \A z \in Zones : Taken[z] = Target /\ Ver[z] = Target
        BY <1>3, <2>1
    <2>6. Reached(ctx', Hop, Ver, Taken, pre)
        BY <1>3, <1>4, <2>3, <2>5 DEF Reached
    <2>7. Inside'
        BY <1>1, <1>3, <2>1, <2>2, <2>4, <2>6 DEF Inside, ReachedBy, InHop, ZoneSteps
    <2>8. Outside' /\ Scripted'
        BY <1>1, <1>3, <2>1, StillScripted DEF Outside
    <2> QED
        BY <1>2, <2>7, <2>8
<1> QED
    BY <1>7, <1>8, <1>9, <1>10, <1>11, <1>12, <1>13

LEMMA SameGroup ==
    ASSUME UNCHANGED <<plan, zone>> PROVE Group' = Group
BY DEF Group, Zones, Rolling

LEMMA ZonesSInv ==
    ASSUME Careful, TInv, TInv', SInv,
           \/ UpgradeZone \/ StartZone \/ Install \/ Stop \/ Start \/ Wait \/ CheckZone
    PROVE  SInv'
<1> USE DEF SInv, deployment, memory, cluster, database, history
<1>0. /\ upgrader \in Ctx /\ plan \in Plans /\ zone \in 0..Len(plan.zones)
      /\ bin \in [Zones -> Versions] /\ run \in [Zones -> Versions \cup {Down}]
      /\ post \subseteq Versions /\ Last \in Nat
    BY UpgradeAssumption DEF TInv, TypeOK
<1>1. /\ pc \in InHop /\ upgrader.process = 6
      /\ UNCHANGED <<plan, status, recorded, meta, pre, post, param>>
    BY <1>0, Steps10 DEF UpgradeZone, StartZone, Install, Stop, Start, Wait, CheckZone,
       TInv, Placed, InHop, ZoneSteps
<1>2. Zones' = Zones /\ (Rolling' <=> Rolling)
    BY <1>1, SameRoute
<1>3. /\ status = "UPGRADING" /\ upgrader.index \in 1..Last
      /\ Target \in upgrader.index..Last
      /\ \A z \in Zones : Ver[z] \in {upgrader.index - 1, Target}
      /\ 1..Target \subseteq pre
    BY <1>1, InHopIs
<1>4. /\ Group \subseteq Zones
      /\ Rolling /\ zone > 0 => Group = {plan.zones[zone]} /\ plan.zones[zone] \in Zones
      /\ ~Rolling => Group = Zones
      /\ DOMAIN plan.zones = 1..Len(plan.zones) /\ Len(plan.zones) \in Nat
      /\ \A z \in Zones : \E k \in 1..Len(plan.zones) : z = plan.zones[k]
    BY <1>0, GroupIs
<1>5. /\ \A z \in Zones : /\ Ver[z] \in Versions /\ Ver[z] = (IF Taken[z] = Down THEN bin[z] ELSE Taken[z])
                          /\ Taken[z] = (IF z \in stayed THEN bin[z] ELSE run[z])
                          /\ Taken[z] = Down <=> run[z] = Down
      /\ \A z \in Zones : /\ Ver'[z] \in Versions /\ Ver'[z] = (IF Taken'[z] = Down THEN bin'[z] ELSE Taken'[z])
                          /\ Taken'[z] = (IF z \in stayed' THEN bin'[z] ELSE run'[z])
                          /\ Taken'[z] = Down <=> run'[z] = Down
    <2>1. \A z \in Zones : Taken[z] = (IF z \in stayed THEN bin[z] ELSE run[z])
        BY DEF Taken
    <2>2. \A z \in Zones : Taken'[z] = (IF z \in stayed' THEN bin'[z] ELSE run'[z])
        BY <1>2 DEF Taken
    <2>3. \A z \in Zones : bin'[z] \in Versions /\ bin'[z] # Down
        BY <1>2, UpgradeAssumption DEF TInv, TypeOK, Versions, Down
    <2>4. \A z \in Zones : run'[z] \in Versions \cup {Down} /\ (z \in stayed' => run'[z] # Down)
        BY <1>2 DEF TInv, TypeOK
    <2>5. \A z \in Zones : Ver'[z] = (IF run'[z] = Down \/ z \in stayed' THEN bin'[z] ELSE run'[z])
        BY <1>2 DEF Ver, Version
    <2> QED
        BY <2>1, <2>2, <2>3, <2>4, <2>5, VerIs
<1>6. \A k \in 1..Len(plan.zones) : plan.zones[k] \in Zones
    BY <1>4 DEF Zones
\* A step that brings zones on, to the end of the hop.
<1>7. ASSUME pc' \in ZoneSteps \cup {"failed"}, UNCHANGED upgrader, ctx' \in {ctx, upgrader},
             \A z \in Zones : bin'[z] \in {bin[z], Target},
             \A z \in Zones : run'[z] \in {run[z], Target, Down},
             \A z \in Zones : /\ Ver'[z] \in {Ver[z], Target}
                              /\ Ver'[z] = Target => bin'[z] >= Target
      PROVE  Outside' /\ Inside' /\ Scripted'
    <2>0. \A z \in Zones : Ver'[z] \in {Ver[z], Target}
        BY <1>7
    <2>1. Outside' /\ Inside'
        BY <1>1, <1>7, <2>0, HopInside DEF InHop
    <2>2. \A z \in Zones : 1..bin'[z] \subseteq pre
        BY <1>3, <1>7 DEF Scripted
    <2>3. \A z \in Zones : 1..run'[z] \subseteq pre
        <3>1. 1..Down = {}
            BY DEF Down
        <3> QED
            BY <1>3, <1>7, <3>1 DEF Scripted
    <2>4. ASSUME NEW v \in post, NEW z \in Zones PROVE Ver'[z] >= v
        <3>1. Ver[z] >= v /\ v \in Int
            BY <1>0 DEF Scripted, Versions
        <3>2. Ver[z] \in {upgrader.index - 1, Target} /\ Ver'[z] \in {Ver[z], Target}
            BY <1>3, <2>0
        <3>3. upgrader.index \in Int /\ Target \in Int /\ upgrader.index <= Target
            BY <1>0, <1>3
        <3> QED
            BY <3>1, <3>2, <3>3
    <2>6. ASSUME NEW z \in Zones PROVE Ver'[z] <= bin'[z]
        <3>1. Ver[z] <= bin[z] /\ Ver[z] \in Int /\ bin[z] \in Int /\ Target \in Int
            BY <1>0, <1>3, <1>5 DEF Scripted, Versions
        <3>2. bin[z] = bin'[z] \/ bin'[z] = Target
            BY <1>7
        <3>3. Ver[z] \in {upgrader.index - 1, Target} /\ Ver'[z] \in {Ver[z], Target}
              /\ upgrader.index <= Target /\ upgrader.index \in Int
            BY <1>0, <1>3, <2>0
        <3>4. Ver'[z] = Target => bin'[z] >= Target
            BY <1>7
        <3> QED
            BY <3>1, <3>2, <3>3, <3>4
    <2>5. Scripted'
        BY <1>1, <1>2, <2>2, <2>3, <2>4, <2>6 DEF Scripted
    <2> QED
        BY <2>1, <2>5
\* A step that fails, or that does not touch the cluster.
<1>8. ASSUME UNCHANGED <<bin, run, stayed>>
      PROVE  /\ \A z \in Zones : bin'[z] \in {bin[z], Target} /\ run'[z] \in {run[z], Target, Down}
             /\ \A z \in Zones : /\ Ver'[z] \in {Ver[z], Target}
                                 /\ Ver'[z] = Target => bin'[z] >= Target
             /\ Ver' = Ver
    <2>1. Ver' = Ver
        BY <1>1, <1>8, SameVersions
    <2>2. \A z \in Zones : Ver[z] <= bin[z]
        BY DEF Scripted
    <2> QED
        BY <1>8, <2>1, <2>2
<1>9. ASSUME StepFails,
             \A z \in Zones : bin'[z] \in {bin[z], Target} /\ run'[z] \in {run[z], Target, Down},
             \A z \in Zones : /\ Ver'[z] \in {Ver[z], Target}
                              /\ Ver'[z] = Target => bin'[z] >= Target
      PROVE  SInv'
    <2>1. UNCHANGED upgrader /\ ctx' = upgrader /\ pc' = "failed"
        BY <1>9, StepFailed
    <2>2. ZonesDone'
        BY <2>1, ZonesLeft DEF ZoneSteps
    <2>3. Outside' /\ Inside' /\ Scripted'
        BY <1>7, <1>9, <2>1
    <2> QED
        BY <2>2, <2>3
\* The last step: all zones have come to the end of the hop.
<1>10. ASSUME Succeed, UNCHANGED <<bin, run, stayed>>, \A z \in Zones : Taken[z] = Target PROVE SInv'
    <2>1. upgrader.process <= 9 /\ (upgrader.process # 4)
        BY <1>1
    <2>2. Outside' /\ Inside'
        BY <1>1, <1>10, <2>1, SucceedInside
    <2>3. Scripted'
        BY <1>1, <1>10, StillScripted
    <2>4. ZonesDone'
        BY <1>10, ZonesLeft DEF Succeed, ZoneSteps
    <2> QED
        BY <2>2, <2>3, <2>4
<1>11. CASE UpgradeZone
    <2>1. /\ pc' \in {"start_zone", "install"} /\ UNCHANGED <<upgrader, ctx, bin, run, stayed>>
          /\ Rolling => zone' = 1
        BY <1>11 DEF UpgradeZone
    <2>2. Outside' /\ Inside' /\ Scripted'
        BY <1>7, <1>8, <2>1 DEF ZoneSteps
    <2>3. ZonesDone'
        BY <1>2, <2>1 DEF ZonesDone
    <2> QED
        BY <2>2, <2>3
<1>12. CASE StartZone
    <2>1. pc = "start_zone" /\ UNCHANGED <<bin, run, stayed, zone>>
        BY <1>12 DEF StartZone
    <2>2. CASE StepFails
        BY <1>8, <1>9, <2>1, <2>2
    <2>3. CASE pc' = "install" /\ UNCHANGED memory
        <3>1. Outside' /\ Inside' /\ Scripted'
            BY <1>7, <1>8, <2>1, <2>3 DEF ZoneSteps
        <3>2. Target' = Target /\ Ver' = Ver
            BY <1>1, <1>8, <2>1, <2>3, SameTarget
        <3>3. ZonesDone'
            BY <1>1, <1>2, <2>1, <2>3, <3>2 DEF ZonesDone, ZoneSteps
        <3> QED
            BY <3>1, <3>3
    <2> QED
        BY <1>12, <2>2, <2>3 DEF StartZone
<1>13. CASE Install
    <2>1. pc = "install" /\ pc' = "stop" /\ UNCHANGED <<upgrader, ctx, zone, run, stayed>>
        BY <1>13 DEF Install
    <2>2. bin' = [z \in Zones |-> IF z \in Group THEN Target ELSE bin[z]]
        BY <1>13 DEF Install, Careful, Silent
    <2>3. \A z \in Zones : bin'[z] \in {bin[z], Target} /\ run'[z] \in {run[z], Target, Down}
        BY <2>1, <2>2
    <2>4. \A z \in Zones : /\ Ver'[z] \in {Ver[z], Target}
                           /\ Ver'[z] = Target => bin'[z] >= Target
        <3>1. Target \in Int /\ \A z \in Zones : Ver[z] <= bin[z]
            BY <1>0, <1>3 DEF Scripted
        <3> QED
            BY <1>5, <2>1, <2>3, <3>1
    <2>5. Outside' /\ Inside' /\ Scripted'
        BY <1>7, <2>1, <2>3, <2>4 DEF ZoneSteps
    <2>6. Target' = Target /\ Group' = Group
        BY <1>1, <2>1, SameTarget, SameGroup
    <2>7. ASSUME Rolling, NEW k \in 1..(zone - 1) PROVE Ver'[plan.zones[k]] = Target
        <3>1. k \in 1..Len(plan.zones)
            BY <1>0, <1>4
        <3> QED
            BY <1>6, <2>1, <2>4, <2>7, <3>1 DEF ZonesDone, ZoneSteps
    <2>8. \A z \in Group : bin'[z] = Target
        BY <1>4, <2>2
    <2>9. ZonesDone'
        BY <1>1, <1>2, <2>1, <2>6, <2>7, <2>8 DEF ZonesDone
    <2> QED
        BY <2>5, <2>9
<1>14. CASE Stop
    <2>1. pc = "stop" /\ UNCHANGED <<bin, zone>>
        BY <1>14 DEF Stop
    <2>2. PICK some \in SUBSET Group, kept \in SUBSET {z \in Group : run[z] # Down} :
            /\ Stopped(some)
            /\ \/ /\ some = Group \ kept /\ stayed' = (stayed \ Group) \cup kept
                  /\ pc' = "start" /\ UNCHANGED memory
               \/ StepFails /\ stayed' = stayed \ some
        <3>1. CASE \E kept \in SUBSET {z \in Group : run[z] # Down} :
                    /\ Stopped(Group \ kept) /\ stayed' = (stayed \ Group) \cup kept
                    /\ pc' = "start" /\ UNCHANGED memory
            BY <3>1
        <3>2. CASE \E some \in SUBSET Group : Stopped(some) /\ stayed' = stayed \ some /\ StepFails
            BY <3>2
        <3> QED
            BY <1>14, <3>1, <3>2 DEF Stop
    <2>3. \A z \in Group : bin[z] = Target
        BY <2>1 DEF ZonesDone
    <2>8. run' = [z \in Zones |-> IF z \in some THEN Down ELSE run[z]]
        BY <2>2 DEF Stopped
    <2>4. \A z \in Zones : bin'[z] \in {bin[z], Target} /\ run'[z] \in {run[z], Target, Down}
        BY <2>1, <2>8
    <2>9. \A z \in Zones : \/ z \in Group
                           \/ run'[z] = run[z] /\ (z \in stayed' <=> z \in stayed)
        BY <2>2, <2>8
    <2>10. \A z \in Group : \/ run'[z] = Down \/ z \in stayed'
                            \/ run'[z] = run[z] /\ (z \in stayed' <=> z \in stayed)
        BY <1>4, <2>2, <2>8
    <2>5. \A z \in Zones : /\ Ver'[z] \in {Ver[z], Target}
                           /\ Ver'[z] = Target => bin'[z] >= Target
        <3>1. Target \in Int /\ \A z \in Zones : Ver[z] <= bin[z]
            BY <1>0, <1>3 DEF Scripted
        <3>2. \A z \in Zones : Ver'[z] = Ver[z] \/ (z \in Group /\ Ver'[z] = bin[z])
            BY <1>5, <2>1, <2>9, <2>10
        <3> QED
            BY <2>1, <2>3, <3>1, <3>2
    <2>6. CASE StepFails
        BY <1>9, <2>4, <2>5, <2>6
    <2>7. CASE /\ some = Group \ kept /\ stayed' = (stayed \ Group) \cup kept
               /\ pc' = "start" /\ UNCHANGED memory
        <3>1. Outside' /\ Inside' /\ Scripted'
            BY <1>7, <2>4, <2>5, <2>7 DEF ZoneSteps
        <3>2. Target' = Target /\ Group' = Group
            BY <1>1, <2>1, <2>7, SameTarget, SameGroup
        <3>3. ASSUME Rolling, NEW k \in 1..(zone - 1) PROVE Ver'[plan.zones[k]] = Target
            <4>1. k \in 1..Len(plan.zones)
                BY <1>0, <1>4
            <4> QED
                BY <1>6, <2>1, <2>5, <3>3, <4>1 DEF ZonesDone, ZoneSteps
        <3>4. \A z \in Group : (run'[z] = Down \/ z \in stayed') /\ bin'[z] = Target
            BY <1>4, <2>1, <2>3, <2>7, <2>8
        <3>5. ZonesDone'
            BY <1>1, <1>2, <2>1, <2>7, <3>2, <3>3, <3>4 DEF ZonesDone
        <3> QED
            BY <3>1, <3>5
    <2> QED
        BY <2>2, <2>6, <2>7
<1>15. CASE Start
    <2>1. pc = "start" /\ UNCHANGED <<bin, stayed, zone>>
        BY <1>15 DEF Start
    <2> DEFINE down == {z \in Group : run[z] = Down}
    <2>2. PICK some \in SUBSET down :
            /\ run' = [z \in Zones |-> IF z \in some THEN bin[z] ELSE run[z]]
            /\ StepFails \/ (some = down /\ pc' = "wait" /\ UNCHANGED memory)
        BY <1>15 DEF Start
    <2>3. \A z \in Group : bin[z] = Target
        BY <2>1 DEF ZonesDone
    <2>4. \A z \in Zones : bin'[z] \in {bin[z], Target} /\ run'[z] \in {run[z], Target, Down}
        BY <2>1, <2>2, <2>3
    <2>8. \A z \in Zones : \/ run'[z] = run[z]
                           \/ z \in Group /\ run[z] = Down /\ run'[z] = bin[z]
        BY <2>2
    <2>9. \A z \in Zones : Ver'[z] = Ver[z]
        BY <1>5, <2>1, <2>8
    <2>5. \A z \in Zones : /\ Ver'[z] \in {Ver[z], Target}
                           /\ Ver'[z] = Target => bin'[z] >= Target
        BY <2>1, <2>9 DEF Scripted
    <2>6. CASE StepFails
        BY <1>9, <2>4, <2>5, <2>6
    <2>7. CASE pc' = "wait" /\ UNCHANGED memory
        <3>1. Outside' /\ Inside' /\ Scripted'
            BY <1>7, <2>4, <2>5, <2>7 DEF ZoneSteps
        <3>2. Target' = Target /\ Group' = Group
            BY <1>1, <2>1, <2>7, SameTarget, SameGroup
        <3>3. ASSUME Rolling, NEW k \in 1..(zone - 1) PROVE Ver'[plan.zones[k]] = Target
            <4>1. k \in 1..Len(plan.zones)
                BY <1>0, <1>4
            <4> QED
                BY <1>6, <2>1, <2>5, <3>3, <4>1 DEF ZonesDone, ZoneSteps
        <3>4. \A z \in Group : Ver'[z] = Target
            <4>1. \A z \in Group : Ver[z] = bin[z]
                BY <1>4, <1>5, <2>1 DEF ZonesDone
            <4> QED
                BY <1>4, <2>3, <2>9, <4>1
        <3>5. ZonesDone'
            BY <1>1, <1>2, <2>1, <2>7, <3>2, <3>3, <3>4 DEF ZonesDone
        <3> QED
            BY <3>1, <3>5
    <2> QED
        BY <2>2, <2>6, <2>7
<1>16. CASE Wait
    <2>1. pc = "wait" /\ AllUp /\ UNCHANGED <<bin, run, stayed, zone>>
        BY <1>16 DEF Wait
    <2>2. \A z \in Group : Ver[z] = Target
        BY <2>1 DEF ZonesDone
    <2>3. CASE Rolling
        <3>1. pc' = "health" /\ UNCHANGED <<ctx, upgrader>>
            BY <1>16, <2>3 DEF Wait
        <3>2. Outside' /\ Inside' /\ Scripted'
            BY <1>7, <1>8, <2>1, <3>1 DEF ZoneSteps
        <3>3. Target' = Target /\ Group' = Group /\ Ver' = Ver
            BY <1>1, <1>8, <2>1, <3>1, SameTarget, SameGroup
        <3>4. ZonesDone'
            BY <1>1, <1>2, <2>1, <2>2, <3>1, <3>3 DEF ZonesDone, ZoneSteps
        <3> QED
            BY <3>2, <3>4
    <2>4. CASE ~Rolling
        <3>1. \A z \in Zones : Taken[z] = Target
            BY <1>4, <1>5, <2>1, <2>2, <2>4 DEF AllUp
        <3> QED
            BY <1>10, <1>16, <2>1, <2>4, <3>1 DEF Wait
    <2> QED
        BY <2>3, <2>4
<1>17. CASE CheckZone
    <2>1. pc = "health" /\ UNCHANGED <<bin, run, stayed>> /\ Rolling /\ zone > 0
        BY <1>17 DEF CheckZone, TInv, Placed, ZoneSteps
    <2>2. ASSUME NEW k \in 1..zone PROVE Ver[plan.zones[k]] = Target
        <3>1. CASE k = zone
            BY <1>4, <2>1, <3>1 DEF ZonesDone
        <3>2. CASE k \in 1..(zone - 1)
            BY <2>1, <3>2 DEF ZonesDone, ZoneSteps
        <3> QED
            BY <1>0, <1>4, <3>1, <3>2
    <2>3. CASE StepFails
        BY <1>8, <1>9, <2>1, <2>3
    <2>4. CASE zone' = zone + 1 /\ pc' = "start_zone" /\ UNCHANGED memory
        <3>1. Outside' /\ Inside' /\ Scripted'
            BY <1>7, <1>8, <2>1, <2>4 DEF ZoneSteps
        <3>2. Target' = Target /\ Ver' = Ver
            BY <1>1, <1>8, <2>1, <2>4, SameTarget
        <3>3. \A k \in 1..(zone' - 1) : Ver'[plan'.zones[k]] = Target'
            BY <1>0, <1>1, <1>4, <2>2, <2>4, <3>2
        <3>4. ZonesDone'
            BY <2>4, <3>3 DEF ZonesDone
        <3> QED
            BY <3>1, <3>4
    <2>5. CASE zone = Len(plan.zones) /\ AllUp /\ Succeed
        <3>1. \A z \in Zones : Taken[z] = Target
            BY <1>4, <1>5, <2>2, <2>5 DEF AllUp
        <3> QED
            BY <1>10, <2>1, <2>5, <3>1
    <2> QED
        BY <1>17, <2>3, <2>4, <2>5 DEF CheckZone
<1> QED
    BY <1>11, <1>12, <1>13, <1>14, <1>15, <1>16, <1>17

LEMMA NextSInv == ASSUME Careful PROVE TInv /\ TInv' /\ SInv /\ [Next]_vars => SInv'
<1> SUFFICES ASSUME TInv, TInv', SInv, [Next]_vars PROVE SInv'
    OBVIOUS
<1>1. CASE Next
    BY <1>1, ControlSInv, InterruptedSInv, ProcessSInv, ZonesSInv DEF Next, Command
<1>2. CASE UNCHANGED vars
    <2>1. /\ UNCHANGED <<plan, status, recorded, meta, pc, ctx, upgrader, zone, bin, run, stayed,
                         pre, post, param>>
        BY <1>2 DEF vars, deployment, memory, cluster, database, history
    <2>2. Ver' = Ver /\ Taken' = Taken /\ Hop' = Hop /\ Zones' = Zones /\ Target' = Target /\ Group' = Group
          /\ (Rolling' <=> Rolling)
        BY <2>1, SameVersions, SameRoute, SameTarget, SameGroup
    <2>3. Outside' /\ Inside'
        BY <2>1, <2>2 DEF SInv, Outside, Inside, ReachedBy
    <2>4. ZonesDone' /\ Scripted'
        BY <2>1, <2>2 DEF SInv, ZonesDone, Scripted
    <2> QED
        BY <2>3, <2>4 DEF SInv
<1> QED
    BY <1>1, <1>2

LEMMA AlwaysSInv == ASSUME Careful PROVE Spec => [](TInv /\ SInv)
<1>1. Init => TInv /\ SInv
    BY InitTInv, InitSInv
<1>2. TInv /\ SInv /\ [Next]_vars => TInv' /\ SInv'
    BY NextTInv, NextSInv
<1> QED
    BY <1>1, <1>2, PTL DEF Spec

\* No server runs a package whose upgrade_pre.py, or that of a package before it, has
\* not succeeded, and no upgrade_post.py has run before all zones had its package,
\* for every route and whatever is interrupted, killed and resumed
\* (_exec_script_all_repositories goes on from script_index of the context), but the
\* zones whose server stayed through a stop that succeeded (oceanbase/4.2.1.4/stop.py),
\* and unless one of the failures is overlooked that Careful excludes.
THEOREM ScriptsKeepStep == ASSUME Careful PROVE Spec => []ScriptsInStep
<1>1. ASSUME TInv, SInv PROVE ScriptsInStep
    BY <1>1 DEF SInv, Scripted, ScriptsInStep, Ver
<1>2. TInv /\ SInv => ScriptsInStep
    BY <1>1
<1> QED
    BY <1>2, AlwaysSInv, PTL

\* What .data records of a deployment that is not being upgraded is what its servers
\* run, where none of them stayed through its stop: start_upgrade writes the status
\* before the first server is touched, and stop_upgrade takes it back when the last
\* hop is done.
THEOREM RecordedRuns == ASSUME Careful PROVE Spec => []RecordedIsRun
<1>1. ASSUME TInv, SInv PROVE RecordedIsRun
    <2>1. recorded \in {0, Last} /\ \A z \in Zones : bin[z] \in 0..Last /\ Ver[z] <= bin[z]
        BY <1>1 DEF TInv, TypeOK, SInv, Scripted, Versions
    <2> SUFFICES ASSUME status = "RUNNING", pc # "record", recorded = Last, NEW z \in Zones
                 PROVE  bin[z] = recorded /\ (z \notin stayed => run[z] = recorded)
        BY <1>1, <2>1 DEF SInv, Outside, RecordedIsRun
    <2>2. Taken[z] = Last /\ Last # Down /\ Last \in Nat
        BY <1>1, UpgradeAssumption DEF SInv, Outside, Down
    <2>3. Ver[z] = Last
        BY <1>1, <2>2, VerIs
    <2>4. Taken[z] = IF z \in stayed THEN bin[z] ELSE run[z]
        BY DEF Taken
    <2> QED
        BY <2>1, <2>2, <2>3, <2>4
<1>2. TInv /\ SInv => RecordedIsRun
    BY <1>1
<1> QED
    BY <1>2, AlwaysSInv, PTL

-----------------------------------------------------------------------------
(* The parameters.                                                          *)

\* What restore_config can still do with context c.
Restores(c, now) ==
    /\ now = "upgrade" => c.process \in 4..8
    /\ c.process > 1 => c.backup = "user"

\* The context of a command is never empty.
LEMMA CtxRestores ==
    ASSUME TInv, SInv, Restorable, ~killed, status = "UPGRADING", pc # "idle"
    PROVE  Restores(ctx, param) /\ (ctx.process = 1 => param = "user")
<1>1. ctx # NoCtx
    BY NoCtxIs DEF SInv, Inside, ReachedBy, Reached
<1>2. Restores(ctx, param)
    BY <1>1 DEF Restorable, Restores
<1> QED
    BY <1>2 DEF Restores, TInv, TypeOK

LEMMA InitRestorable == Init => Restorable
BY DEF Init, Restorable

LEMMA NextRestorable ==
    ASSUME Careful, TInv, TInv', SInv, Restorable, Next PROVE Restorable'
<1> USE DEF deployment, memory, cluster, database, history
<1>0. /\ upgrader \in Ctx /\ ctx \in Ctx /\ status \in {"RUNNING", "UPGRADING"}
      /\ recorded \in {0, Last} /\ Last # 0 /\ param \in {"user", "upgrade"}
      /\ Outside /\ Inside
    BY UpgradeAssumption DEF TInv, TypeOK, SInv
<1>1. CASE BeginUpgrade
    <2>1. status = "RUNNING" /\ recorded = 0 /\ pc = "idle" /\ UNCHANGED <<status, param>>
        BY <1>0, <1>1, UpgradeAssumption DEF BeginUpgrade
    <2>2. param = "user"
        BY <1>0, <2>1 DEF Outside
    <2> QED
        BY <2>1, <2>2 DEF Restorable
<1>2. CASE Kill
    BY <1>2 DEF Kill, Restorable
\* The rest leaves killed as it is.
<1> DEFINE Kept == \/ ResumeUpgrade \/ Command \/ Signal \/ GiveUp
<1>3. ASSUME Kept, ~killed PROVE Restorable'
    <2>1. status = "RUNNING" => param = "user"
        BY <1>3 DEF Restorable
    <2>2. status = "UPGRADING" /\ pc # "idle" => Restores(ctx, param) /\ (ctx.process = 1 => param = "user")
        BY <1>3, CtxRestores
\* A step that leaves the parameters, and the context that is looked at.
    <2>3. ASSUME UNCHANGED <<status, param>>, status = "RUNNING" PROVE Restorable'
        BY <2>1, <2>3 DEF Restorable
    <2>4. ASSUME pc' # "idle", status' = "UPGRADING", Restores(ctx', param') PROVE Restorable'
        BY <2>4 DEF Restorable, Restores
    <2>5. ASSUME status = "UPGRADING", pc # "idle", pc' = "idle", UNCHANGED <<status, param>>,
                 meta' \in {ctx, NoCtx}
          PROVE  Restorable'
        <3>1. meta' = NoCtx \/ Restores(meta', param')
            BY <2>2, <2>5
        <3> QED
            BY <2>5, <3>1, NoCtxIs DEF Restorable, Restores
    <2>6. pc \in InHop => /\ status = "UPGRADING" /\ pc # "idle" /\ upgrader.process = ctx.process
                          /\ upgrader.backup = ctx.backup /\ upgrader.index <= Last
                          /\ upgrader.process \in 1..10
        BY <1>0, CtxIs DEF Inside, Outside, TInv, Placed, InHop, ZoneSteps
    <2>7. ASSUME pc \in InHop, UNCHANGED <<status, param, ctx>>, pc' # "idle" PROVE Restorable'
        BY <2>2, <2>4, <2>6, <2>7
    <2>8. ASSUME pc \in InHop, StepFails, UNCHANGED status,
                 param' = param \/ (param' = "upgrade" /\ upgrader.process = 4)
          PROVE  Restorable'
        <3>1. ctx' = upgrader /\ pc' = "failed"
            BY <2>8, StepFailed
        <3>2. Restores(ctx', param')
            BY <2>2, <2>6, <2>8, <3>1 DEF Restores
        <3> QED
            BY <2>4, <2>6, <2>8, <3>1, <3>2
    <2>9. ASSUME pc \in InHop, Succeed, UNCHANGED status, upgrader.process <= 9,
                 \/ param' = param /\ upgrader.process \notin {1, 8}
                 \/ param' = upgrader.backup /\ upgrader.process = 8
          PROVE  Restorable'
        <3>1. /\ ctx'.process = upgrader.process + 1 /\ ctx'.backup = upgrader.backup
              /\ pc' = "process"
            BY <2>6, <2>9, Succeeded
        <3>2. Restores(ctx', param')
            BY <2>2, <2>6, <2>9, <3>1 DEF Restores
        <3> QED
            BY <2>4, <2>6, <2>9, <3>1, <3>2
    <2>10. CASE ResumeUpgrade
        BY <1>3, <2>10 DEF ResumeUpgrade, Restorable
    <2>11. CASE StartUpgrade
        BY <1>0, <2>3, <2>11 DEF StartUpgrade, Inside
    <2>12. CASE MarkUpgrading
        <3>1. status = "RUNNING" /\ pc = "status" /\ pc' = "loop" /\ UNCHANGED <<ctx, param>>
            BY <1>0, <2>12 DEF MarkUpgrading, Inside
        <3>2. ctx.process = 1
            BY <1>0, <3>1 DEF Outside, NoCtx
        <3>3. status' = "UPGRADING"
            BY <2>12 DEF MarkUpgrading, Careful, Silent
        <3>4. Restores(ctx', param')
            BY <2>1, <3>1, <3>2 DEF Restores
        <3> QED
            BY <2>4, <3>1, <3>3, <3>4
    <2>13. CASE NextHop \/ LastHopDone
        <3>1. pc = "loop" /\ pc' # "idle" /\ UNCHANGED <<status, ctx, param>>
            BY <2>13 DEF NextHop, LastHopDone
        <3>2. status = "UPGRADING"
            BY <1>0, <3>1 DEF Outside
        <3> QED
            BY <2>2, <2>4, <3>1, <3>2
    <2>14. CASE UpdateUpgradeCtx
        <3>1. pc \in {"save", "failed"} /\ UNCHANGED <<status, ctx, param>>
            BY <2>14 DEF UpdateUpgradeCtx
        <3>2. status = "UPGRADING"
            BY <1>0, <3>1 DEF Outside
        <3>3. CASE pc = "save"
            BY <2>2, <2>4, <2>14, <3>1, <3>2, <3>3 DEF UpdateUpgradeCtx
        <3>4. CASE pc = "failed"
            BY <2>5, <2>14, <3>1, <3>2, <3>4 DEF UpdateUpgradeCtx, Written
        <3> QED
            BY <3>1, <3>3, <3>4
    <2>15. CASE StopUpgrade
        <3>1. pc = "stop_upgrade" /\ status' = "RUNNING" /\ UNCHANGED param
            BY <2>15 DEF StopUpgrade
        <3>2. status = "UPGRADING"
            BY <1>0, <3>1 DEF Outside
        <3>3. ctx.index > Last /\ ReachedBy(ctx)
            BY <1>0, <3>1, <3>2 DEF Inside
        <3>4. ctx.process = 1
            BY <1>0, <3>3, CtxIs, UpgradeAssumption DEF ReachedBy, Reached
        <3> QED
            BY <2>2, <3>1, <3>2, <3>4 DEF Restorable
    <2>16. CASE RecordRepository
        BY <1>0, <2>3, <2>16 DEF RecordRepository, Inside
    <2>17. CASE Signal \/ GiveUp
        <3>1. pc # "idle" /\ pc' = "idle" /\ UNCHANGED <<status, param>>
            BY <2>17 DEF Signal, GiveUp, SignalHandler
        <3>2. CASE status = "UPGRADING"
            <4>1. pc \notin {"meta", "status"}
                BY <1>0, <3>2 DEF Inside
            <4>2. meta' \in {ctx, NoCtx}
                BY <2>17, <3>2, <4>1 DEF Signal, GiveUp, SignalHandler, Written
            <4> QED
                BY <2>5, <3>1, <3>2, <4>2
        <3> QED
            BY <1>0, <2>3, <3>1, <3>2
    <2>18. CASE StartServers
        <3>1. pc \in InHop /\ pc' # "idle" /\ UNCHANGED <<status, param, ctx>>
            BY <2>18 DEF StartServers, InHop
        <3> QED
            BY <2>7, <3>1
    <2>19. CASE BackupConfig
        <3>1. pc = "process" /\ upgrader.process = 1 /\ UNCHANGED <<status, param>>
            BY <1>0, <2>19, Steps10 DEF BackupConfig
        <3>2. CASE StepFails
            BY <2>8, <3>1, <3>2 DEF InHop
        <3>3. CASE ~StepFails
            <4>1. /\ ctx' = [upgrader EXCEPT !.process = @ + 1, !.script = upgrader.index,
                                             !.backup = param]
                  /\ pc' = "process"
                BY <2>19, <3>1, <3>3 DEF BackupConfig, Dump
            <4>2. ctx'.process = 2 /\ ctx'.backup = param
                BY <1>0, <3>1, <4>1 DEF Ctx
            <4>3. status = "UPGRADING" /\ param = "user"
                BY <2>2, <2>6, <3>1 DEF InHop
            <4>4. Restores(ctx', param')
                BY <3>1, <4>2, <4>3 DEF Restores
            <4> QED
                BY <2>4, <3>1, <4>1, <4>3, <4>4
        <3> QED
            BY <3>2, <3>3
    <2>20. CASE Check
        <3>1. /\ pc = "process" /\ upgrader.process \in {2, 3, 5, 9} /\ UNCHANGED <<status, param>>
              /\ Succeed \/ StepFails
            BY <1>0, <2>20, Steps10 DEF Check
        <3> QED
            BY <2>8, <2>9, <3>1 DEF InHop
    <2>21. CASE ExecPre
        <3>1. pc = "process" /\ upgrader.process = 4 /\ UNCHANGED status /\ param' \in {param, "upgrade"}
            BY <1>0, <2>21, Steps10 DEF ExecPre
        <3>2. CASE StepFails
            BY <2>8, <3>1, <3>2 DEF InHop
        <3>3. CASE ~StepFails
            <4>1. UNCHANGED <<ctx, pc>>
                BY <2>21, <3>3 DEF ExecPre
            <4>2. Restores(ctx', param') /\ status' = "UPGRADING"
                BY <2>2, <2>6, <3>1, <4>1 DEF Restores, InHop
            <4> QED
                BY <2>4, <3>1, <4>1, <4>2
        <3> QED
            BY <3>2, <3>3
    <2>22. CASE ExecPost
        <3>1. pc = "process" /\ UNCHANGED <<status, param>>
            BY <1>0, <2>22, Steps10 DEF ExecPost
        <3>2. CASE StepFails
            BY <2>8, <3>1, <3>2 DEF InHop
        <3>3. CASE ~StepFails
            BY <2>7, <2>22, <3>1, <3>3 DEF ExecPost, InHop
        <3> QED
            BY <3>2, <3>3
    <2>23. CASE ScriptsDone
        <3>1. pc = "process" /\ upgrader.process \in {4, 7} /\ UNCHANGED <<status, param>> /\ Succeed
            BY <1>0, <2>23, Steps10 DEF ScriptsDone
        <3> QED
            BY <2>9, <3>1 DEF InHop
    <2>24. CASE RestoreConfig
        <3>1. /\ pc = "process" /\ upgrader.process = 8 /\ UNCHANGED status
              /\ \/ Succeed /\ param' = upgrader.backup
                 \/ StepFails /\ UNCHANGED param
            BY <1>0, <2>24, Steps10 DEF RestoreConfig
        <3> QED
            BY <2>8, <2>9, <3>1 DEF InHop
    <2>25. CASE EndHop
        <3>1. pc = "process" /\ upgrader.process = 10 /\ UNCHANGED <<status, param>> /\ pc' = "save"
            BY <1>0, <2>25, Steps10 DEF EndHop
        <3>2. ctx'.process = 1
            BY <1>0, <2>25 DEF EndHop, Dump, Ctx
        <3>3. status = "UPGRADING" /\ param # "upgrade"
            BY <2>2, <2>6, <3>1 DEF InHop, Restores
        <3>4. Restores(ctx', param')
            BY <3>1, <3>2, <3>3 DEF Restores
        <3> QED
            BY <2>4, <3>1, <3>3, <3>4
    <2>26. CASE UpgradeZone \/ StartZone \/ Install \/ Stop \/ Start \/ Wait \/ CheckZone
        <3>1. pc \in InHop /\ upgrader.process = 6 /\ UNCHANGED <<status, param>>
            BY <1>0, <2>26, Steps10 DEF UpgradeZone, StartZone, Install, Stop, Start, Wait, CheckZone,
               TInv, Placed, InHop, ZoneSteps
        <3>2. StepFails \/ Succeed \/ (UNCHANGED ctx /\ pc' # "idle")
            BY <2>26 DEF UpgradeZone, StartZone, Install, Stop, Start, Wait, CheckZone
        <3> QED
            BY <2>7, <2>8, <2>9, <3>1, <3>2
    <2> QED
        BY <1>3, <2>10, <2>11, <2>12, <2>13, <2>14, <2>15, <2>16, <2>17, <2>18, <2>19, <2>20, <2>21,
           <2>22, <2>23, <2>24, <2>25, <2>26 DEF Command
<1>4. Kept => killed' = killed
    BY DEF ResumeUpgrade, Command, Signal, GiveUp, SignalHandler, StartUpgrade, MarkUpgrading,
       NextHop, LastHopDone, UpdateUpgradeCtx, StopUpgrade, RecordRepository, StartServers,
       BackupConfig, Check, ExecPre, ExecPost, ScriptsDone, RestoreConfig, EndHop, UpgradeZone,
       StartZone, Install, Stop, Start, Wait, CheckZone
<1>5. ASSUME Kept, killed PROVE Restorable'
    BY <1>4, <1>5 DEF Restorable
<1> QED
    BY <1>1, <1>2, <1>3, <1>5 DEF Next

\* When an upgrade has ended, however often it has failed, been interrupted and been
\* resumed, the parameters that its scripts had changed are what they were before:
\* backup_config is not run again once the scripts may have changed them, because
\* dump_attr keeps process_index and the backup together in upgrade_ctx.  A kill of
\* obd loses what was dumped last, and is left out, as in the property.
THEOREM ParametersBack == ASSUME Careful PROVE Spec => []ParametersRestored
<1>1. Init => Restorable
    BY InitRestorable
<1>2. TInv /\ SInv /\ Restorable /\ [Next]_vars => Restorable'
    <2>1. ASSUME TInv, SInv, Restorable, Next PROVE Restorable'
        BY <2>1, NextTInv, NextRestorable
    <2>2. ASSUME Restorable, UNCHANGED vars PROVE Restorable'
        BY <2>2 DEF vars, deployment, memory, cluster, database, history, Restorable
    <2> QED
        BY <2>1, <2>2
<1>3. Restorable => ParametersRestored
    BY DEF Restorable, ParametersRestored
<1> QED
    BY <1>1, <1>2, <1>3, AlwaysSInv, PTL DEF Spec

-----------------------------------------------------------------------------
(* The promise.                                                             *)

\* A step in which some zones of the group come to the end of the hop, others do not.
ZonesAdvance ==
    /\ pc \in InHop /\ UNCHANGED <<plan, recorded>>
    /\ \A z \in Zones : Ver'[z] \in {Ver[z], Target}
    /\ Rolling => \A x, y \in Zones : Ver'[x] # Ver[x] /\ Ver'[y] # Ver[y] => x = y

\* Which steps change versions.
LEMMA VersionSteps ==
    ASSUME Careful, TInv, TInv', SInv, Next
    PROVE  \/ UNCHANGED <<plan, recorded>> /\ Ver' = Ver
           \/ ZonesAdvance
           \/ RecordRepository
<1> USE DEF SInv, deployment, memory, cluster, database, history
<1>0. /\ upgrader \in Ctx /\ plan \in Plans /\ zone \in 0..Len(plan.zones)
      /\ bin \in [Zones -> Versions] /\ run \in [Zones -> Versions \cup {Down}]
    BY DEF TInv, TypeOK
<1>1. CASE Install \/ Stop \/ Start
    <2>1. pc \in {"install", "stop", "start"} /\ pc \in InHop /\ UNCHANGED <<plan, recorded, zone>>
        BY <1>1 DEF Install, Stop, Start, InHop, ZoneSteps
    <2>2. Rolling => Group = {plan.zones[zone]}
        BY <1>0, <2>1, GroupIs DEF TInv, Placed, ZoneSteps
    <2>3. Zones' = Zones
        BY <2>1, SameRoute
    <2>4. \A z \in Zones : Ver[z] = IF run[z] = Down \/ z \in stayed THEN bin[z] ELSE run[z]
        BY DEF Ver, Version
    <2>5. \A z \in Zones : Ver'[z] = IF run'[z] = Down \/ z \in stayed' THEN bin'[z] ELSE run'[z]
        BY <2>3 DEF Ver, Version
    <2>6. pc \in {"stop", "start"} => \A z \in Group : bin[z] = Target
        BY DEF ZonesDone
    <2>7. \A z \in Zones : \/ bin'[z] = bin[z] /\ run'[z] = run[z] /\ (z \in stayed' <=> z \in stayed)
                           \/ /\ z \in Group /\ bin'[z] = Target
                              /\ \/ run'[z] \in {Target, Down} \/ z \in stayed'
                                 \/ run'[z] = run[z] /\ (z \in stayed' <=> z \in stayed)
        <3>1. CASE Install
            BY <1>0, <3>1 DEF Install, Careful, Silent
        <3>2. CASE Stop
            <4>1. PICK some \in SUBSET Group :
                    /\ Stopped(some)
                    /\ \/ \E kept \in SUBSET Group : some = Group \ kept /\ stayed' = (stayed \ Group) \cup kept
                       \/ stayed' = stayed \ some
                <5>1. CASE \E kept \in SUBSET {z \in Group : run[z] # Down} :
                            Stopped(Group \ kept) /\ stayed' = (stayed \ Group) \cup kept
                    BY <5>1
                <5>2. CASE \E some \in SUBSET Group : Stopped(some) /\ stayed' = stayed \ some
                    BY <5>2
                <5> QED
                    BY <3>2, <5>1, <5>2 DEF Stop
            <4>2. pc = "stop" /\ bin' = bin /\ run' = [z \in Zones |-> IF z \in some THEN Down ELSE run[z]]
                BY <3>2, <4>1 DEF Stop, Stopped
            <4> QED
                BY <2>6, <4>1, <4>2
        <3>3. CASE Start
            <4>1. PICK some \in SUBSET Group : run' = [z \in Zones |-> IF z \in some THEN bin[z] ELSE run[z]]
                BY <3>3 DEF Start
            <4>2. pc = "start" /\ bin' = bin /\ stayed' = stayed
                BY <3>3 DEF Start
            <4> QED
                BY <2>6, <4>1, <4>2
        <3> QED
            BY <1>1, <3>1, <3>2, <3>3
    <2>8. \A z \in Zones : Ver'[z] = Ver[z] \/ (z \in Group /\ Ver'[z] = Target)
        BY <2>4, <2>5, <2>7
    <2>9. ZonesAdvance
        BY <2>1, <2>2, <2>8 DEF ZonesAdvance
    <2> QED
        BY <2>9
<1>2. CASE StartServers
    <2>1. UNCHANGED <<plan, recorded>>
        BY <1>2 DEF StartServers
    <2>2. Zones' = Zones
        BY <2>1, SameRoute
    <2>3. \A z \in Zones : Version(z)' = Version(z)
        BY <1>0, <1>2 DEF StartServers, Version
    <2>4. Ver' = Ver
        BY <2>2, <2>3 DEF Ver
    <2> QED
        BY <2>1, <2>4
<1>3. ASSUME UNCHANGED <<plan, recorded, bin, run, stayed>> PROVE UNCHANGED <<plan, recorded>> /\ Ver' = Ver
    BY <1>3, SameVersions
<1>4. CASE Signal \/ GiveUp \/ Kill
    BY <1>3, <1>4 DEF Signal, GiveUp, SignalHandler, Kill
<1>5. CASE \/ BeginUpgrade \/ ResumeUpgrade \/ StartUpgrade \/ MarkUpgrading \/ NextHop
           \/ LastHopDone \/ UpdateUpgradeCtx \/ StopUpgrade
    BY <1>3, <1>5 DEF BeginUpgrade, ResumeUpgrade, StartUpgrade, MarkUpgrading, NextHop, LastHopDone,
       UpdateUpgradeCtx, StopUpgrade
<1>6. CASE \/ BackupConfig \/ Check \/ ExecPre \/ ExecPost \/ ScriptsDone \/ RestoreConfig \/ EndHop
           \/ UpgradeZone \/ StartZone \/ Wait \/ CheckZone
    BY <1>3, <1>6 DEF BackupConfig, Check, ExecPre, ExecPost, ScriptsDone, RestoreConfig, EndHop,
       UpgradeZone, StartZone, Wait, CheckZone
<1> QED
    BY <1>1, <1>2, <1>4, <1>5, <1>6 DEF Next, Command

\* What zones advance to is the next stage of the promise, and they advance from the
\* one that is the lowest.
LEMMA StageIs ==
    ASSUME TInv, SInv, pc \in InHop
    PROVE  Target = Min({s \in plan.required \cup {Last} : s > upgrader.index - 1})
<1>1. upgrader.index \in 1..Last /\ Last \in Nat /\ plan \in Plans
    BY InHopIs DEF SInv, TInv, TypeOK
<1>2. plan.required \subseteq 1..Last
    BY <1>1, UpgradeAssumption
<1>3. {j \in upgrader.index..Last : j \in plan.required \cup {Last}}
        = {s \in plan.required \cup {Last} : s > upgrader.index - 1}
    BY <1>1, <1>2
<1> QED
    BY <1>3 DEF Target, NextStage

LEMMA LowestIs ==
    ASSUME TInv, SInv, pc \in InHop, NEW w \in Zones, Ver[w] = upgrader.index - 1
    PROVE  Min({Ver[z] : z \in Zones}) = upgrader.index - 1
<1> DEFINE S == {Ver[z] : z \in Zones}
<1>1. /\ upgrader.index \in 1..Last /\ Last \in Nat /\ Target \in upgrader.index..Last
      /\ \A z \in Zones : Ver[z] \in {upgrader.index - 1, Target}
    BY InHopIs DEF SInv
<1>2. S \in SUBSET (0..Last) /\ upgrader.index - 1 \in S
    <2>1. \A z \in Zones : Ver[z] \in 0..Last
        BY <1>1
    <2>2. \E z \in Zones : upgrader.index - 1 = Ver[z]
        OBVIOUS
    <2> HIDE DEF Ver
    <2> QED
        BY <2>1, <2>2
<1>3. \A s \in S : s >= upgrader.index - 1
    <2>1. \A z \in Zones : Ver[z] >= upgrader.index - 1
        BY <1>1
    <2> QED
        BY <2>1
<1>4. Min(S) \in S /\ \A j \in S : Min(S) <= j
    BY <1>2, MinIs
<1> HIDE DEF S
<1>5. Min(S) \in Int /\ upgrader.index \in Int
    <2>1. upgrader.index \in Int /\ Last \in Nat
        BY <1>1
    <2>2. Min(S) \in 0..Last
        BY <1>2, <1>4
    <2> QED
        BY <2>1, <2>2
<1>6. Min(S) = upgrader.index - 1
    BY <1>2, <1>3, <1>4, <1>5
<1> QED
    BY <1>6 DEF S

\* Such a step is one zone's, or all zones', or none's.
LEMMA AdvanceKeepsPromise ==
    ASSUME TInv, SInv, ZonesAdvance, Ver' # Ver
    PROVE  Promise!Advance \/ Promise!AdvanceAll
<1> DEFINE stages == plan.required \cup {Last}
           low    == upgrader.index - 1
<1>1. /\ upgrader.index \in 1..Last /\ Last \in Nat /\ Target \in upgrader.index..Last
      /\ \A z \in Zones : Ver[z] \in {low, Target}
    BY InHopIs DEF SInv, ZonesAdvance
<1>2. Zones' = Zones /\ plan' = plan /\ recorded' = recorded
    BY SameRoute DEF ZonesAdvance
<1>3. Ver = [z \in Zones |-> Ver[z]] /\ Ver' = [z \in Zones |-> Ver'[z]]
    BY <1>2 DEF Ver
<1>4. PICK w \in Zones : Ver'[w] # Ver[w]
    BY <1>3
<1>5. \A z \in Zones : Ver'[z] # Ver[z] => Ver[z] = low /\ Ver'[z] = Target
    BY <1>1 DEF ZonesAdvance
<1>6. Min({Ver[z] : z \in Zones}) = low /\ low < Last
    BY <1>1, <1>4, <1>5, LowestIs DEF ZonesAdvance
<1>7. Target = Min({s \in stages : s > low})
    BY StageIs DEF ZonesAdvance
<1>8. Promise!Lowest = low
    BY <1>6 DEF Promise!Lowest, Promise!Min, Min, Ver
<1>9. Promise!Min({s \in stages : s > low}) = Target
    BY <1>7 DEF Promise!Min, Min
<1>10. CASE \A z \in Zones : Ver'[z] # Ver[z] => z = w
    <2>1. Ver' = [Ver EXCEPT ![w] = Target]
        BY <1>3, <1>5, <1>4, <1>10
    <2>2. Promise!Advance
        BY <1>2, <1>4, <1>5, <1>6, <1>8, <1>9, <2>1 DEF Promise!Advance, Ver
    <2> QED
        BY <2>2
<1>11. CASE \E x \in Zones : Ver'[x] # Ver[x] /\ x # w
    <2>1. PICK x \in Zones : Ver'[x] # Ver[x] /\ x # w
        BY <1>11
    <2>2. ~Rolling
        BY <1>4, <2>1 DEF ZonesAdvance
    <2>3. \A z \in Zones : z = w \/ z = x
        <3>1. plan.zones \in Seq(AllZones) /\ Len(plan.zones) \in Nat
            BY UpgradeAssumption DEF TInv, TypeOK
        <3>2. DOMAIN plan.zones \subseteq {1, 2}
            BY <2>2, <3>1 DEF Rolling
        <3> QED
            BY <1>4, <2>1, <3>2 DEF Zones
    <2>4. \A z \in Zones : Ver[z] = low /\ Ver'[z] = Target
        BY <1>4, <1>5, <2>1, <2>3
    <2>5. Ver' = [z \in Zones |-> Target]
        BY <1>3, <2>4
    <2>6. Promise!AdvanceAll
        BY <1>2, <1>6, <1>8, <1>9, <2>4, <2>5 DEF Promise!AdvanceAll, Ver
    <2> QED
        BY <2>6
<1> QED
    BY <1>10, <1>11

\* The upgrade of a cluster keeps the promise of UpgradePromise: whatever fails and is
\* resumed, the zones go through the stages of the route in order, none of them enters
\* a stage before all others have entered the one before it, and the new package is
\* recorded when all of them run it.  A zone whose server stayed through a stop that
\* succeeded counts with the package that it was given.
THEOREM UpgradeKeepsPromise == ASSUME Careful PROVE Spec => KeepsPromise
<1>1. Init => Promise!Init
    <2> SUFFICES ASSUME Init PROVE Promise!Init
        OBVIOUS
    <2>1. plan \in Plans /\ run = [z \in Zones |-> 0] /\ recorded = 0 /\ stayed = {}
        BY DEF Init
    <2>2. plan.zones \in Seq(AllZones) \ {<<>>} /\ plan.required \in SUBSET (1..Last)
        BY <2>1, UpgradeAssumption
    <2>3. Zones \in (SUBSET AllZones) \ {{}}
        <3>1. 1 \in DOMAIN plan.zones /\ \A i \in DOMAIN plan.zones : plan.zones[i] \in AllZones
            BY <2>2
        <3> QED
            BY <3>1 DEF Zones
    <2>4. [z \in Zones |-> Version(z)] = [z \in Zones |-> 0]
        BY <2>1 DEF Version, Down
    <2> QED
        BY <2>1, <2>2, <2>3, <2>4 DEF Promise!Init
<1>2. TInv /\ TInv' /\ SInv /\ SInv' /\ [Next]_vars
        => [Promise!Advance \/ Promise!AdvanceAll \/ Promise!Record]_<<
               Zones, plan.required \cup {Last}, [z \in Zones |-> Version(z)], recorded>>
    <2> SUFFICES ASSUME TInv, TInv', SInv, [Next]_vars
                 PROVE  [Promise!Advance \/ Promise!AdvanceAll \/ Promise!Record]_<<
                            Zones, plan.required \cup {Last}, [z \in Zones |-> Version(z)], recorded>>
        OBVIOUS
    <2>1. ASSUME UNCHANGED <<plan, recorded>>, Ver' = Ver
          PROVE  UNCHANGED <<Zones, plan.required \cup {Last}, [z \in Zones |-> Version(z)], recorded>>
        BY <2>1, SameRoute DEF Ver
    <2>2. CASE UNCHANGED vars
        BY <2>1, <2>2, SameVersions DEF vars, deployment, memory, cluster, database, history
    <2>3. CASE ZonesAdvance
        <3>1. UNCHANGED <<plan, recorded>>
            BY <2>3 DEF ZonesAdvance
        <3> QED
            BY <2>1, <2>3, <3>1, AdvanceKeepsPromise
    <2>4. CASE RecordRepository
        <3>1. /\ pc = "record" /\ recorded' = Last
              /\ UNCHANGED <<plan, bin, run, stayed>>
            BY <2>4 DEF RecordRepository, Careful, Silent, cluster
        <3>2. status = "RUNNING"
            BY <3>1 DEF SInv, Inside, TInv, TypeOK
        <3>3. \A z \in Zones : Taken[z] = Last
            BY <3>1, <3>2 DEF SInv, Outside
        <3>4. \A z \in Zones : Ver[z] = Last
            BY <3>3, VerIs, UpgradeAssumption DEF Down
        <3>5. Ver' = Ver /\ Zones' = Zones
            BY <3>1, SameVersions, SameRoute
        <3>6. Promise!Record
            BY <3>1, <3>4, <3>5 DEF Promise!Record, Ver
        <3> QED
            BY <3>6
    <2> QED
        BY <2>1, <2>2, <2>3, <2>4, VersionSteps
<1> QED
    BY <1>1, <1>2, AlwaysSInv, PTL DEF Spec, KeepsPromise, Promise!Spec
===============================================================================
