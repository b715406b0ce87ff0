------------------------------- MODULE Workflow -------------------------------
(***************************************************************************)
(* The workflows of obd: _workflow.py, and the templates of workflows/ for *)
(* starting, stopping and restarting.                                      *)
(*                                                                         *)
(* A workflow of a component gives the plugins of each stage.  Those of    *)
(* all components are merged: stage by stage, and in a stage component by  *)
(* component (WorkflowsIter).  A template names its plugin, the component  *)
(* that it is called for (a workflow may call plugins of another), and, in *)
(* a rolling restart, a zone.  Plugins that neither change a process nor   *)
(* need one (parameters, checks, passwords, printing) are left out.        *)
(***************************************************************************)
EXTENDS Integers, SequencesExt

CONSTANTS configserver, oceanbase, obproxy, prometheus, alertmanager, express, obbinlog

Modelled == {configserver, oceanbase, obproxy, prometheus, alertmanager, express, obbinlog}

ASSUME WorkflowAssumption ==
    \A i, j \in 1..7 :
        LET name == <<configserver, oceanbase, obproxy, prometheus, alertmanager, express, obbinlog>>
        IN  name[i] = name[j] => i = j

NoZone == "no zone"

\* The stages of const.py.
First  == 10
Second == 20
Third  == 30

Plugins(c, names) ==
    [i \in DOMAIN names |-> [on |-> c, plugin |-> names[i], zone |-> NoZone]]

ZonePlugins(z, names) ==
    [i \in DOMAIN names |-> [on |-> oceanbase, plugin |-> names[i], zone |-> z]]

-----------------------------------------------------------------------------
(* Workflows and their merging.                                             *)

\* Mutant of Stages: the last stage comes first.
StagesBackwards == <<Third, Second, First, First - 1>>

\* The stages that occur, in their order.
Stages == <<First - 1, First, Second, Third>>

\* A workflow is built from nothing by adding plugins at the end of a stage.
Nothing == [stage \in ToSet(Stages) |-> <<>>]

Add(workflow, stage, plugins) == [workflow EXCEPT ![stage] = @ \o plugins]

\* The templates, each with the component whose workflow it belongs to.
Of(c, templates) ==
    [i \in DOMAIN templates |-> [of |-> c, on |-> templates[i].on,
                                 plugin |-> templates[i].plugin, zone |-> templates[i].zone]]

\* What a stage holds, component by component.
OfStage(workflows, order, stage) ==
    FlattenSeq([i \in DOMAIN order |-> Of(order[i], workflows[order[i]][stage])])

Merged(workflows, order) ==
    FlattenSeq([k \in DOMAIN Stages |-> OfStage(workflows, order, Stages[k])])

-----------------------------------------------------------------------------
(* The templates.                                                           *)

StartOceanBase ==
    Add(Nothing, First, Plugins(oceanbase, <<"configserver_pre", "start", "health_check",
                                             "connect", "bootstrap">>))

StartConfigServer == Add(Nothing, First, Plugins(configserver, <<"start", "health_check">>))

StartObproxy ==
    Add(Nothing, First, Plugins(obproxy, <<"start", "health_check", "connect", "bootstrap">>))

StartPrometheus == Add(Nothing, First, Plugins(prometheus, <<"start", "health_check">>))

\* The last stage only for a Prometheus that it depends on.
UpdatePrometheus == Plugins(prometheus, <<"connect">>)
                 \o Plugins(alertmanager, <<"update_prometheus">>)

StartAlertmanager(depends) ==
    LET alone == Add(Nothing, First, Plugins(alertmanager, <<"start", "health_check">>))
    IN  IF prometheus \in depends THEN Add(alone, Second, UpdatePrometheus) ELSE alone

StartExpress ==
    Add(Nothing, First, Plugins(oceanbase, <<"connect", "create_tenant">>)
                     \o Plugins(express, <<"cursor_check", "start", "health_check">>))

StartBinlog(depends) ==
    LET user == IF depends # {} THEN Plugins(oceanbase, <<"connect", "create_tenant">>)
                                ELSE Plugins(obbinlog, <<"cursor_check">>)
    IN  Add(Add(Nothing, Second, user), Third,
            Plugins(obbinlog, <<"start", "health_check", "connect", "start_instances">>))

StartOf(c, depends) ==
    CASE c = configserver -> StartConfigServer
      [] c = oceanbase    -> StartOceanBase
      [] c = obproxy      -> StartObproxy
      [] c = prometheus   -> StartPrometheus
      [] c = alertmanager -> StartAlertmanager(depends)
      [] c = express      -> StartExpress
      [] c = obbinlog     -> StartBinlog(depends)

\* display, with which a start ends.
DisplayOf(c) ==
    Add(Add(Nothing, First, Plugins(c, <<"status_check">>)), Second, Plugins(c, <<"connect">>))

StopOceanBase == Add(Nothing, First, Plugins(oceanbase, <<"connect", "stop">>))

\* Mutant of StopBinlog: no stage of its own before that of the others.
StopBinlogAlong == Add(Nothing, First, Plugins(obbinlog, <<"stop_instances", "stop">>))

StopBinlog ==
    Add(Add(Nothing, First - 1, Plugins(obbinlog, <<"stop_instances">>)),
        First, Plugins(obbinlog, <<"stop">>))

StopOf(c) ==
    CASE c = oceanbase -> StopOceanBase
      [] c = obbinlog  -> StopBinlog
      [] OTHER         -> Add(Nothing, First, Plugins(c, <<"stop">>))

RestartPreOf(c) ==
    IF c = oceanbase THEN Add(Nothing, First, Plugins(c, <<"connect", "restart_pre">>))
    ELSE IF c \in {alertmanager, obbinlog} THEN Nothing
    ELSE Add(Nothing, First, Plugins(c, <<"connect">>))

-----------------------------------------------------------------------------
(* Restarting.                                                              *)

Bounce == <<"stop", "start", "health_check">>

\* Mutant of RollingRestart: the last zone is forgotten.
RollingRestartButLast(zones) ==
    LET templates == [i \in DOMAIN zones |->
            ZonePlugins(IF i = 1 THEN NoZone ELSE zones[i - 1], <<"start_zone", "active_check">>)
         \o ZonePlugins(zones[i], <<"stop_zone">> \o Bounce)]
    IN  FlattenSeq(templates)

\* More than two zones are restarted one after the other: a zone is stopped, its
\* servers are bounced, and it is started again before the next one.
RollingRestart(zones) ==
    LET OfZone(i) ==
            ZonePlugins(IF i = 1 THEN NoZone ELSE zones[i - 1], <<"start_zone", "active_check">>)
         \o ZonePlugins(zones[i], <<"stop_zone">> \o Bounce)
    IN  FlattenSeq([i \in DOMAIN zones |-> OfZone(i)])
          \o ZonePlugins(zones[Len(zones)], <<"start_zone">>)

RestartOceanBase(zones) ==
    Add(Nothing, First,
        (IF Len(zones) > 2 THEN RollingRestart(zones) ELSE Plugins(oceanbase, Bounce))
          \o Plugins(oceanbase, <<"connect">>))

RestartBinlog ==
    Add(Add(Nothing, First - 1, Plugins(obbinlog, <<"connect", "stop_instances">>)),
        First, Plugins(obbinlog, Bounce \o <<"connect", "start_instances">>))

RestartAlertmanager(depends) ==
    Add(Nothing, First, Plugins(alertmanager, Bounce)
                     \o (IF prometheus \in depends THEN UpdatePrometheus ELSE <<>>)
                     \o Plugins(alertmanager, <<"connect">>))

RestartExpress ==
    Add(Nothing, First,
        Plugins(express, <<"stop", "cursor_check", "start", "health_check", "connect">>))

RestartOf(c, depends, zones) ==
    CASE c = oceanbase    -> RestartOceanBase(zones)
      [] c = obbinlog     -> RestartBinlog
      [] c = alertmanager -> RestartAlertmanager(depends)
      [] c = express      -> RestartExpress
      [] OTHER            -> Add(Nothing, First, Plugins(c, Bounce \o <<"connect">>))
=============================================================================
