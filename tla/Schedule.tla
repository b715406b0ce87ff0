------------------------------- MODULE Schedule -------------------------------
(***************************************************************************)
(* How obd starts, stops and restarts the components of a deployment:      *)
(* loading and sorting their dependencies (_deploy.py), building the       *)
(* workflows and running them plugin by plugin (core.py, _workflow.py),    *)
(* and what the plugins do to the processes.                               *)
(*                                                                         *)
(* The database has one server in each zone, every other component one     *)
(* server.  A command is given all components.  A fault may be a plugin    *)
(* that fails half-way, a stop that reports success though processes still *)
(* run, or binlog instances that obd gave up on and that did not start or  *)
(* stop.                                                                   *)
(***************************************************************************)
EXTENDS Workflow, Sequences, FiniteSets

CONSTANTS
    Kinds,     \* the components there are
    ZoneNames, \* the zones there are
    Plans,     \* instances: the components of a deployment as config.yaml lists
               \* them, what each declares under "depends", the database's zones
    MaxFaults  \* bound: how many faults

ASSUME ScheduleAssumption ==
    /\ MaxFaults \in Nat
    /\ Plans \subseteq [order : Seq(Kinds), declared : [Kinds -> SUBSET Kinds],
                       zones : Seq(ZoneNames) \ {<<>>}]
    /\ Kinds \subseteq Modelled
    /\ NoZone \notin ZoneNames /\ ZoneNames \cap Modelled = {}
    /\ \A p \in Plans :
         /\ IsInjective(p.order)          \* the keys of a dictionary
         \* The start of ocp-express, and that of a binlog service with dependencies, calls
         \* plugins of the database (ob_repository.name).
         /\ \/ express \in ToSet(p.order)
            \/ /\ obbinlog \in ToSet(p.order)
               /\ (p.declared[obbinlog] \cap ToSet(p.order)) \ {obbinlog} # {}
            => oceanbase \in ToSet(p.order)

VARIABLES
    plan,      \* the configuration of this deployment; never changes
    depends,   \* what each component depends on
    pc,        \* "load", "sort", "run" or "done"
    todo, again, sorted, \* the loop of sorted_components
    command,   \* "start", "stop" or "restart"
    left,      \* the workflows still to come
    queue,     \* the plugins still to come of the workflow that runs
    result,    \* "none", "failed" or "succeeded"
    servers,   \* the zones that cluster_config.servers of the database names
    zones,     \* zones_servers of restart_pre, in its order
    up,        \* the servers whose process runs
    ready,     \* the components that answered a health check
    stopped,   \* the zones that the database has stopped
    streams,   \* the binlog instances run, and the server that they belong to
    fresh,     \* history: servers whose process was started by this command
    denied,    \* history: servers that a stop which succeeded left running
    gaveUp,    \* history: a stop of the binlog instances succeeded, and they run
    faults     \* history: how many faults

sorting  == <<todo, again, sorted>>
engine   == <<left, queue, result>>
zoneVars == <<zones, stopped>>
history  == <<fresh, denied, gaveUp, faults>>
vars == <<plan, depends, pc, sorting, command, engine, servers, zoneVars, up, ready,
          streams, history>>

Components == ToSet(plan.order)
Zones      == ToSet(plan.zones)

\* All servers of a component, and those that its configuration names now.
AllServers(c) == IF c = oceanbase THEN Zones ELSE {c}
ServersOf(c)  == IF c = oceanbase THEN servers ELSE {c}
Everything    == UNION {AllServers(c) : c \in Components}

Alive(c)  == AllServers(c) \cap up # {}
Answers(c) == c \in ready /\ Alive(c)

-----------------------------------------------------------------------------
(* Dependencies.                                                            *)

\* add_depend: a direct circle raises an exception, and _load, which catches it,
\* leaves out all dependencies that come after.
AddDepend(state, edge) ==
    IF ~state.ok \/ edge[1] = edge[2] \/ edge[2] \notin plan.declared[edge[1]] THEN state
    ELSE IF edge[1] \in state.depends[edge[2]] THEN [state EXCEPT !.ok = FALSE]
    ELSE [state EXCEPT !.depends[edge[1]] = @ \cup {edge[2]}]

\* Mutant of LoadDepends: every name is taken.
LoadDependsAll == [c \in Components |-> plan.declared[c] \ {c}]

\* A name that is no component of the deployment is passed over.
LoadDepends ==
    LET of(c) == [i \in DOMAIN plan.order |-> <<c, plan.order[i]>>]
        edges == FlattenSeq([i \in DOMAIN plan.order |-> of(plan.order[i])])
        none  == [ok |-> TRUE, depends |-> [c \in Components |-> {}]]
        after[n \in 0..Len(edges)] ==
            IF n = 0 THEN none ELSE AddDepend(after[n - 1], edges[n])
    IN  after[Len(edges)].depends

Load ==
    /\ pc = "load"
    /\ depends' = LoadDepends
    /\ pc' = "sort"
    /\ todo' = plan.order
    /\ UNCHANGED <<plan, again, sorted, command, engine, servers, zoneVars, up, ready,
                   streams, history>>

\* Mutant of Ripe: one of its dependencies is enough.
RipeSome(c) ==
    \/ depends[c] \cap Components = {}
    \/ depends[c] \cap ToSet(sorted) # {}

\* One component of the list: it is sorted if what it depends on is.
Ripe(c) == depends[c] \cap Components \subseteq ToSet(sorted)

SortOne ==
    /\ pc = "sort" /\ todo # <<>>
    /\ todo' = Tail(todo)
    /\ IF Ripe(Head(todo))
          THEN sorted' = Append(sorted, Head(todo)) /\ again' = again
          ELSE again' = Append(again, Head(todo)) /\ sorted' = sorted
    /\ UNCHANGED <<plan, depends, pc, command, engine, servers, zoneVars, up,
                   ready, streams, history>>

\* Mutant of SortAgain: components that were passed over are left out.
SortOnce ==
    /\ pc = "sort" /\ todo = <<>> /\ again # <<>>
    /\ todo' = <<>> /\ again' = <<>>
    /\ UNCHANGED <<plan, depends, pc, sorted, command, engine, servers, zoneVars,
                   up, ready, streams, history>>

\* The next pass over those that were not ripe.
SortAgain ==
    /\ pc = "sort" /\ todo = <<>> /\ again # <<>>
    /\ todo' = again /\ again' = <<>>
    /\ UNCHANGED <<plan, depends, pc, sorted, command, engine, servers, zoneVars,
                   up, ready, streams, history>>

-----------------------------------------------------------------------------
(* Commands.                                                                *)

\* A restart first starts what does not run (_restart_cluster).
WorkflowNames(cmd) ==
    CASE cmd = "start"   -> <<"start", "display">>
      [] cmd = "stop"    -> <<"stop">>
      [] cmd = "restart" -> (IF up = Everything THEN <<>> ELSE <<"start", "display">>)
                              \o <<"restart_pre", "restart">>

\* The command's own checks passed (core.py); `start` of a running cluster ends there.
Begin(cmd) ==
    /\ pc = "sort" /\ todo = <<>> /\ again = <<>>
    /\ cmd = "start" => up # Everything
    /\ command' = cmd
    /\ left' = WorkflowNames(cmd)
    /\ pc' = "run"
    /\ UNCHANGED <<plan, depends, sorting, queue, result, servers, zoneVars, up,
                   ready, streams, history>>

TemplateOf(name, c) ==
    CASE name = "start"       -> StartOf(c, depends[c])
      [] name = "display"     -> DisplayOf(c)
      [] name = "stop"        -> StopOf(c)
      [] name = "restart_pre" -> RestartPreOf(c)
      [] name = "restart"     -> RestartOf(c, depends[c], zones)

\* get_workflows: the templates of all components are built, then the first plugin
\* runs.  A rolling restart's template sets cluster_config.servers zone by zone
\* while it is built and all servers at its end; its plugins get the
\* cluster_config itself.
NextWorkflow ==
    /\ pc = "run" /\ queue = <<>> /\ left # <<>>
    /\ queue' = Merged([c \in Components |-> TemplateOf(Head(left), c)], sorted)
    /\ left' = Tail(left)
    /\ servers' = Zones
    /\ UNCHANGED <<plan, depends, pc, sorting, command, result, zoneVars, up, ready,
                   streams, history>>

EndWith(r) ==
    /\ pc' = "done" /\ result' = r
    /\ queue' = <<>> /\ left' = <<>>

Succeed ==
    /\ pc = "run" /\ queue = <<>> /\ left = <<>>
    /\ EndWith("succeeded")
    /\ UNCHANGED <<plan, depends, sorting, command, servers, zoneVars, up, ready,
                   streams, history>>

-----------------------------------------------------------------------------
(* Plugins.                                                                 *)

\* The components that must answer for a plugin to succeed.
Needs(t) ==
    CASE t.plugin \in {"connect", "create_tenant", "bootstrap", "start_instances"} -> {t.on}
      [] t.plugin \in {"start_zone", "active_check", "stop_zone", "restart_pre"} -> {oceanbase}
      [] t.plugin = "configserver_pre" -> depends[t.of] \cap {configserver}
      [] t.plugin = "cursor_check" /\ t.of = express -> depends[t.of] \cap {oceanbase}
      [] t.plugin = "update_prometheus" -> {prometheus}
      [] OTHER -> {}

\* obd passes over the binlog instances when their server is down.
Skips(t) == t.plugin = "stop_instances" /\ ~Alive(obbinlog)

\* What the plugin finds wrong by itself.
Refuses(t) ==
    \/ \E c \in Needs(t) : ~Answers(c)
    \/ t.plugin = "health_check" /\ ~(ServersOf(t.on) \subseteq up)
    \/ t.plugin = "status_check" /\ ~(AllServers(t.on) \subseteq up)

Running(plugin) ==
    /\ pc = "run" /\ queue # <<>>
    /\ Head(queue).plugin \in plugin
    /\ ~Refuses(Head(queue))
    /\ queue' = Tail(queue)

StartProcess ==
    /\ Running({"start"})
    /\ LET on == ServersOf(Head(queue).on)
       IN  up' = up \cup on /\ fresh' = fresh \cup (on \ up)
    /\ UNCHANGED <<plan, depends, pc, sorting, command, left, result, servers,
                   zoneVars, ready, streams, denied, gaveUp, faults>>

HealthCheck ==
    /\ Running({"health_check"})
    /\ ready' = ready \cup {Head(queue).on}
    /\ UNCHANGED <<plan, depends, pc, sorting, command, left, result, servers,
                   zoneVars, up, streams, history>>

\* stop returns true with processes that still run: that of general 0.1 when it may not
\* kill one (it tries no other then), that of the database after 30 attempts.
StopProcess ==
    /\ Running({"stop"})
    /\ LET on == Head(queue).on
           alive == ServersOf(on) \cap up
       IN  \E kept \in SUBSET alive :
               /\ kept # {} => faults < MaxFaults
               /\ up' = up \ (alive \ kept)
               /\ denied' = denied \cup kept
               /\ faults' = IF kept # {} THEN faults + 1 ELSE faults
               /\ ready' = IF AllServers(on) \cap up' = {} THEN ready \ {on} ELSE ready
    /\ streams' = (streams /\ obbinlog \in up')
    /\ UNCHANGED <<plan, depends, pc, sorting, command, left, result, servers,
                   zoneVars, fresh, gaveUp>>

\* instance_manager asks 30 times whether the instances have started, or stopped; then
\* it goes on, and returns true.
StartInstances ==
    /\ Running({"start_instances"})
    /\ \/ streams' = TRUE /\ faults' = faults
       \/ streams' = streams /\ faults < MaxFaults /\ faults' = faults + 1
    /\ UNCHANGED <<plan, depends, pc, sorting, command, left, result, servers,
                   zoneVars, up, ready, fresh, denied, gaveUp>>

StopInstances ==
    /\ Running({"stop_instances"})
    /\ \/ /\ streams' = IF Skips(Head(queue)) THEN streams ELSE FALSE
          /\ gaveUp' = gaveUp /\ faults' = faults
       \/ /\ streams /\ faults < MaxFaults
          /\ streams' = streams /\ gaveUp' = TRUE /\ faults' = faults + 1
    /\ UNCHANGED <<plan, depends, pc, sorting, command, left, result, servers,
                   zoneVars, up, ready, fresh, denied>>

\* Zone by zone only if every server of the database is there and in service.
RestartPre ==
    /\ Running({"restart_pre"})
    /\ zones' = IF Zones \subseteq up /\ stopped = {} THEN plan.zones ELSE <<>>
    /\ UNCHANGED <<plan, depends, pc, sorting, command, left, result, servers,
                   stopped, up, ready, streams, history>>

StartZone ==
    /\ Running({"start_zone"})
    /\ stopped' = stopped \ {Head(queue).zone}
    /\ UNCHANGED <<plan, depends, pc, sorting, command, left, result, servers,
                   zones, up, ready, streams, history>>

StopZone ==
    /\ Running({"stop_zone"})
    /\ stopped' = stopped \cup {Head(queue).zone}
    /\ UNCHANGED <<plan, depends, pc, sorting, command, left, result, servers,
                   zones, up, ready, streams, history>>

\* Plugins that only need other components.
Passive == {"configserver_pre", "connect", "bootstrap", "create_tenant", "cursor_check",
            "update_prometheus", "status_check", "active_check"}

OtherPlugin ==
    /\ Running(Passive)
    /\ UNCHANGED <<plan, depends, pc, sorting, command, left, result, servers,
                   zoneVars, up, ready, streams, history>>

\* The first plugin that returns false ends the command.
PluginRefuses ==
    /\ pc = "run" /\ queue # <<>>
    /\ Refuses(Head(queue))
    /\ EndWith("failed")
    /\ UNCHANGED <<plan, depends, sorting, command, servers, zoneVars, up, ready,
                   streams, history>>

\* A plugin that fails may have started, or killed, some of its processes.
PluginFails ==
    /\ pc = "run" /\ queue # <<>> /\ faults < MaxFaults
    /\ faults' = faults + 1
    /\ LET t == Head(queue)
       IN  \E some \in SUBSET ServersOf(t.on) :
               /\ up' = CASE t.plugin = "start" -> up \cup some
                          [] t.plugin = "stop"  -> up \ some
                          [] OTHER              -> up
               /\ t.plugin \notin {"start", "stop"} => some = {}
    /\ streams' = (streams /\ obbinlog \in up')
    /\ EndWith("failed")
    /\ UNCHANGED <<plan, depends, sorting, command, servers, zoneVars, ready,
                   fresh, denied, gaveUp>>
-----------------------------------------------------------------------------
(* A deployment that runs, one that does not, one of which only the         *)
(* database, if there is one, runs, and one whose last rolling restart left *)
(* a zone stopped.                                                          *)

Init ==
    /\ plan \in Plans
    /\ depends = [c \in Components |-> {}]
    /\ pc = "load"
    /\ todo = <<>> /\ again = <<>> /\ sorted = <<>>
    /\ command = "none" /\ left = <<>> /\ queue = <<>> /\ result = "none"
    /\ servers = Zones /\ zones = <<>>
    /\ up \in {{}, Zones \cap Everything, Everything}
    /\ ready = {c \in Components : AllServers(c) \subseteq up}
    /\ stopped \in {{}, {plan.zones[1]}} /\ (stopped # {} => up = Everything /\ oceanbase \in Components)
    /\ streams = (obbinlog \in up)
    /\ fresh = {} /\ denied = {} /\ gaveUp = FALSE /\ faults = 0

Next ==
    \/ Load \/ SortOne \/ SortAgain
    \/ Begin("start") \/ Begin("stop") \/ Begin("restart")
    \/ NextWorkflow \/ Succeed
    \/ StartProcess \/ HealthCheck \/ StopProcess
    \/ StartInstances \/ StopInstances
    \/ RestartPre \/ StartZone \/ StopZone
    \/ OtherPlugin \/ PluginRefuses \/ PluginFails

Spec     == Init /\ [][Next]_vars
\* sorted_components is a loop in one thread.
FairSpec == Spec /\ WF_vars(SortOne) /\ WF_vars(SortAgain)

-----------------------------------------------------------------------------
TypeOK ==
    /\ plan.order \in Seq(Kinds)
    /\ depends \in [Components -> SUBSET Components]
    /\ pc \in {"load", "sort", "run", "done"}
    /\ todo \in Seq(Components) /\ again \in Seq(Components) /\ sorted \in Seq(Components)
    /\ command \in {"none", "start", "stop", "restart"}
    /\ left \in Seq({"start", "display", "stop", "restart_pre", "restart"})
    /\ \A i \in DOMAIN queue : {queue[i].on, queue[i].of} \subseteq Components
    /\ result \in {"none", "failed", "succeeded"}
    /\ servers \subseteq Zones /\ zones \in Seq(Zones) /\ stopped \subseteq Zones
    /\ up \subseteq Everything /\ ready \subseteq Components /\ streams \in BOOLEAN
    /\ fresh \subseteq Everything /\ denied \subseteq Everything
    /\ gaveUp \in BOOLEAN /\ faults \in 0..MaxFaults

\* A component is never sorted before one that it depends on, however the
\* configuration lists them (sorted_components).
DependenciesSorted ==
    \A i \in DOMAIN sorted : \A d \in depends[sorted[i]] \cap Components :
        \E j \in 1..(i - 1) : sorted[j] = d

\* When a plugin's turn comes, the components that it talks to answer already: its
\* own, those declared, and the database for a binlog service, whatever it declares.
\* (A stop does not make sure that the database runs: its first plugin then fails.)
Declares(c, d) == c = d \/ d \in depends[c] \/ c = obbinlog

NeedsMet ==
    pc = "run" /\ queue # <<>> /\ command # "stop" =>
        LET t == Head(queue)
        IN  \A d \in Needs(t) : Declares(t.of, d) => Answers(d)

\* No process of the binlog service is killed while binlog instances run, and none of
\* the database either: a stop ends the instances in a stage of its own before, and a
\* restart bounces the database before it starts them again.  (Unless the binlog
\* service does not declare the database: its restart may then come first.  Instances
\* that obd gave up on still run when their server and the database are killed.)
InstancesStoppedFirst ==
    [][streams /\ ~gaveUp =>
         /\ obbinlog \in up'
         /\ command = "stop" \/ oceanbase \in depends[obbinlog] => Zones \cap up \subseteq up']_vars

\* What a command reports: after `start` everything runs and was checked; after `stop`
\* nothing runs but what a stop plugin, of the database too, reported stopped though it
\* ran; after `restart` all but such servers run in a process of its own, and no zone
\* that the restart stopped is left so.
SuccessMeansDone ==
    result = "succeeded" =>
        /\ command # "stop" => up = Everything /\ ready = Components
        /\ command = "stop" => up \subseteq denied
        /\ command = "restart" => Everything \subseteq fresh \cup denied
        /\ command = "restart" /\ zones # <<>> => stopped = {}

\* Every set of components has one that depends on none of the others.
Acyclic ==
    \A S \in (SUBSET Components) \ {{}} : \E c \in S : depends[c] \cap S = {}

\* Sorting ends, with every component sorted, if the dependencies that were loaded have
\* no circle.  (With a circle of three, which add_depend lets pass, it never ends.)
SortEnds == (pc = "sort" /\ Acyclic) ~> (ToSet(sorted) = Components)

\* A restart of more than two zones has the servers of one zone down at a time
\* (workflows/oceanbase/4.2.1.4/restart.py:31 "#rolling").
RestartsZoneByZone ==
    command = "restart" /\ Len(zones) > 2 => Cardinality(Zones \ up) <= 1
=============================================================================
