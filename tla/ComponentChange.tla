--------------------------- MODULE ComponentChange ---------------------------
(***************************************************************************)
(* Adding components to a running deployment, deleting them, and giving    *)
(* them more servers: `obd cluster component add`, `component del` and     *)
(* `obd cluster scale_out` (src/core.py), and what the web service does to *)
(* the same end (src/service/handler/component_change_handler.py).         *)
(*                                                                         *)
(* Two files say what belongs to a deployment: .data the components, with  *)
(* the packages they run, and config.yaml their servers.  Every command    *)
(* takes its components from .data and their servers from config.yaml.  A  *)
(* change is made in memory, then on the servers, and written last, one    *)
(* file after the other; workflows may fail anywhere, writes may be        *)
(* refused, obd may be killed between two writes or inside one, servers    *)
(* may die, and a stop may report success although servers stay.  Commands *)
(* exclude each other (module MixLock).  Lifecycle has the other commands, *)
(* of which only start and stop are here, in one step each.                *)
(***************************************************************************)
EXTENDS Naturals, FiniteSets

CONSTANTS
    Sites,     \* the places, <<component, server>>, that a configuration may name
    Initial,   \* those of the deployment at first
    Declared,  \* <<c, d>>: the configuration given for c says it depends on d
    Pulled,    \* <<c, d>>: c comes to depend on d when d is added (ob-configserver)
    Talks,     \* <<c, d>>: the deletion of c works on a running d (alertmanager)
    Erasable,  \* the components with a workflow delete_component
    Growable,  \* the components with a workflow scale_out
    Main,      \* the database
    Kinds,     \* what may go wrong besides a failing plugin
    MaxMishaps \* bound: how many of them do, each once

Of(sites)   == {i[1] : i \in sites}
Components  == Of(Sites)
At(comps)   == {i \in Sites : i[1] \in comps}
Dependences == Components \X Components

ASSUME ComponentAssumption ==
    /\ \A i \in Sites : i = <<i[1], i[2]>>
    /\ Initial \subseteq Sites /\ Initial # {}
    /\ Declared \cup Pulled \cup Talks \subseteq Dependences
    /\ \A p \in Declared \cup Pulled : <<p[2], p[1]>> \notin Declared \cup Pulled
    /\ Erasable \cup Growable \subseteq Components /\ Main \in Components
    /\ Kinds \subseteq {"crash", "write", "torn", "die", "stay"} /\ MaxMishaps \in Nat

VARIABLES
    status,   \* the status in .data
    recorded, \* the components in .data
    config,   \* config.yaml
    mem,      \* Deploy of the running command, as far as it changes: both files
    pc,       \* the step the running command takes next
    cmd,      \* the running command, NoCommand if there is none
    up,       \* the sites with a running server
    lost,     \* the sites whose server runs without its directory, which holds its pid
    files,    \* the sites whose home directory holds a component
    mishaps   \* the kinds of mishaps that have happened

vars    == <<status, recorded, config, mem, pc, cmd, up, lost, files, mishaps>>
cluster == <<up, lost, files>>
disk    == <<status, recorded, config>>

Status  == {"RUNNING", "STOPPED", "CONFIGURED"}
Configs == [sites : SUBSET Sites, depends : SUBSET Dependences]
Deploys == [recorded : SUBSET Components, config : Configs]

Adding   == {"add", "web add"}
Deleting == {"del", "web del", "web remove"}

\* A command, the sites it adds or removes, and its option --force.
Commands == [op : Adding \cup Deleting \cup {"scale_out"}, sites : SUBSET Sites, force : BOOLEAN]

NoCommand == [op |-> "none", sites |-> {}, force |-> FALSE]
Empty     == [recorded |-> {}, config |-> [sites |-> {}, depends |-> {}]]

TypeOK ==
    /\ status \in Status /\ recorded \in SUBSET Components
    /\ config \in Configs /\ mem \in Deploys
    /\ pc \in {"idle", "init", "launch", "erase", "config", "info", "restart"}
    /\ cmd \in Commands \cup {NoCommand} /\ (pc = "idle" <=> cmd = NoCommand)
    /\ up \in SUBSET Sites /\ files \in SUBSET Sites /\ up \subseteq files
    /\ lost \in SUBSET Sites /\ lost \cap up = {}
    /\ mishaps \in SUBSET Kinds

-----------------------------------------------------------------------------
\* The components that config.yaml names.
Named(cfg) == Of(cfg.sites)

\* The dependences that take effect when config.yaml is loaded: a component
\* that is not there is left out.
Depends(cfg) == {p \in cfg.depends : p[1] \in Named(cfg) /\ p[2] \in Named(cfg)}

\* The configuration that an addition leaves in memory.  A dependence on a
\* component that is not there is dropped for good.
Added(new) ==
    LET named == Named(config) \cup Of(new)
        kept  == {p \in Declared : p[1] \in Of(new) /\ p[2] \in named}
        taken == {p \in Pulled : p[1] \in recorded \cup Of(new) /\ p[2] \in Of(new)}
    IN  [sites |-> config.sites \cup new, depends |-> config.depends \cup kept \cup taken]

\* cfg without some components; what others say of them stays.
Without(cfg, comps) ==
    [sites   |-> {i \in cfg.sites : i[1] \notin comps},
     depends |-> {p \in cfg.depends : p[1] \notin comps}]

Init ==
    /\ status = "RUNNING" /\ recorded = Of(Initial)
    /\ config = [sites |-> Initial,
                 depends |-> {p \in Declared : {p[1], p[2]} \subseteq Of(Initial)}]
    /\ mem = Empty /\ pc = "idle" /\ cmd = NoCommand
    /\ up = Initial /\ lost = {} /\ files = Initial
    /\ mishaps = {}

\* The sites that commands work on.  A component in .data that config.yaml
\* does not name is a KeyError of every command.
Managed   == {i \in config.sites : i[1] \in recorded}
Loadable  == recorded \subseteq Named(config)
AllUp     == recorded # {} /\ Managed \subseteq up

\* A server starts in its directory, and not while a lost process of it holds
\* its ports.
Startable == files \ lost

\* DeployConfig.del_components: what another component depends on stays, and
\* so does the last one.
Removable(comps) ==
    /\ comps # {} /\ comps \subseteq Named(config) /\ comps # Named(config)
    /\ \A p \in Depends(config) : p[2] \in comps => p[1] \in comps

-----------------------------------------------------------------------------
(* Commands.  One that its guard refuses changes nothing.                   *)

Begin(op, sites, force, first, cfg, comps) ==
    /\ pc = "idle" /\ Loadable
    /\ cmd' = [op |-> op, sites |-> sites, force |-> force]
    /\ pc' = first
    /\ mem' = [recorded |-> comps, config |-> cfg]
    /\ UNCHANGED <<disk, cluster, mishaps>>

AddComponents(new, force) ==
    /\ status = "RUNNING" /\ AllUp
    /\ new # {} /\ Of(new) \cap Named(config) = {}
    /\ Begin("add", new, force, "init", Added(new), recorded \cup Of(new))

\* Neither the status of the deployment nor that of its servers is looked at.
WebAddComponents(new) ==
    /\ new # {} /\ Of(new) \cap Named(config) = {}
    /\ Begin("web add", new, FALSE, "init", Added(new), recorded \cup Of(new))

ScaleOut(new, force) ==
    /\ status = "RUNNING" /\ AllUp
    /\ new # {} /\ Of(new) \subseteq Named(config) /\ new \cap config.sites = {}
    /\ Begin("scale_out", new, force, "init",
             [config EXCEPT !.sites = @ \cup new], recorded)

Remove(op, comps, force, first) ==
    Begin(op, {i \in config.sites : i[1] \in comps}, force, first,
          Without(config, comps), recorded \ comps)

\* Mutant of DeleteComponents: what is needed is only found out at the end.
DeleteComponentsUnchecked(comps, force) ==
    /\ status = "RUNNING" /\ (AllUp \/ force)
    /\ comps # {} /\ comps \subseteq Named(config)
    /\ Remove("del", comps, force, "erase")

\* The workflow delete_component_pre only checks.
DeleteComponents(comps, force) ==
    /\ status = "RUNNING" /\ (AllUp \/ force)
    /\ Removable(comps)
    /\ Remove("del", comps, force, "erase")

\* Its option force is handed on to the plugins only.
WebDelComponent(comps) ==
    /\ Removable(comps)
    /\ Remove("web del", comps, FALSE, "erase")

\* For servers that cannot be reached: nothing is done to them.
RemoveComponent(comps) ==
    /\ Removable(comps) /\ Main \notin comps
    /\ Remove("web remove", comps, FALSE, "info")

\* start and stop of the whole deployment; either may fail half-way.
StartCluster ==
    /\ pc = "idle" /\ Loadable /\ status # "CONFIGURED"
    /\ \/ /\ Managed \subseteq Startable
          /\ up' = up \cup Managed /\ status' = "RUNNING"
       \/ /\ \E some \in SUBSET (Managed \cap Startable) : up' = up \cup some
          /\ UNCHANGED status
    /\ UNCHANGED <<recorded, config, mem, pc, cmd, lost, files, mishaps>>

Mishap(k) ==
    /\ k \in Kinds \ mishaps /\ Cardinality(mishaps) < MaxMishaps
    /\ mishaps' = mishaps \cup {k}

\* A stop succeeds although these servers stay: the stop plugins also return
\* true when a kill is not permitted or has no effect.
Stay(kept) == IF kept = {} THEN UNCHANGED mishaps ELSE Mishap("stay")

StopCluster ==
    /\ pc = "idle" /\ Loadable /\ status # "CONFIGURED"
    /\ \/ /\ \E kept \in SUBSET (up \cap Managed) :
              up' = (up \ Managed) \cup kept /\ Stay(kept)
          /\ status' = "STOPPED"
       \/ /\ \E some \in SUBSET Managed : up' = up \ some
          /\ UNCHANGED <<status, mishaps>>
    /\ UNCHANGED <<recorded, config, mem, pc, cmd, lost, files>>

-----------------------------------------------------------------------------
(* The steps of a command.                                                  *)

Proceed(next) == pc' = next /\ UNCHANGED <<cmd, mem>>

\* A command ends; what it has in memory is gone.
Return == pc' = "idle" /\ cmd' = NoCommand /\ mem' = Empty

\* scale_out has workflows for few components; the others only get files.
Prepared == IF cmd.op = "scale_out" THEN cmd.sites \cap At(Growable \cap recorded) ELSE cmd.sites
Launched == IF cmd.op = "scale_out" THEN cmd.sites \cap At(Growable) ELSE cmd.sites

\* The workflows add_component_pre and scale_out_pre, the installation and
\* the libraries.  A directory that is not empty is refused, or with --force
\* cleaned, and what runs from it is killed.
InitServers ==
    LET Clean(some) == IF cmd.force THEN some \cap Prepared ELSE {}
        Fits(some)  == cmd.force \/ some \cap Prepared \cap files = {}
    IN
    /\ pc = "init"
    /\ \E some \in SUBSET cmd.sites :
        /\ Fits(some)
        /\ files' = files \cup some
        /\ up' = up \ Clean(some) /\ lost' = lost \ Clean(some)
        /\ IF some = cmd.sites THEN Proceed("launch") ELSE Return
    /\ UNCHANGED <<disk, mishaps>>

\* The workflows add_component and scale_out: all start, or the command ends.
StartServers ==
    /\ pc = "launch" /\ cmd.op # "web add"
    /\ \E some \in SUBSET (Launched \ lost) :
        /\ up' = up \cup some
        /\ IF some = Launched THEN Proceed("config") \/ Return ELSE Return
    /\ UNCHANGED <<disk, lost, files, mishaps>>

\* Mutant of WebStartServers: what failed stays in the configuration.
WebStartServersKeep ==
    /\ pc = "launch" /\ cmd.op = "web add"
    /\ \E some \in SUBSET (cmd.sites \ lost), failed \in SUBSET Of(cmd.sites) :
        /\ cmd.sites \ some \subseteq At(failed)
        /\ up' = up \cup some
        /\ mem' = [mem EXCEPT !.recorded = @ \ failed]
    /\ pc' = "config" /\ UNCHANGED cmd
    /\ UNCHANGED <<disk, lost, files, mishaps>>

\* Mutant of WebStartServers: what failed stays in .data.
WebStartServersRecord ==
    /\ pc = "launch" /\ cmd.op = "web add"
    /\ \E some \in SUBSET (cmd.sites \ lost), failed \in SUBSET Of(cmd.sites) :
        /\ cmd.sites \ some \subseteq At(failed)
        /\ up' = up \cup some
        /\ mem' = [mem EXCEPT !.config = Without(@, failed)]
    /\ pc' = "config" /\ UNCHANGED cmd
    /\ UNCHANGED <<disk, lost, files, mishaps>>

\* The web service starts component by component, and leaves those that
\* failed out of both files.
WebStartServers ==
    /\ pc = "launch" /\ cmd.op = "web add"
    /\ \E some \in SUBSET (cmd.sites \ lost), failed \in SUBSET Of(cmd.sites) :
        /\ cmd.sites \ some \subseteq At(failed)
        /\ up' = up \cup some
        /\ mem' = [recorded |-> mem.recorded \ failed,
                   config   |-> Without(mem.config, failed)]
    /\ pc' = "config" /\ UNCHANGED cmd
    /\ UNCHANGED <<disk, lost, files, mishaps>>

\* The components whose deletion needs one that none of `running` serves.
Blocked(running) ==
    {c \in recorded : \E p \in Talks \cap Depends(config) :
        p[1] = c /\ p[2] \in recorded /\ running \cap At({p[2]}) = {}}

\* The components that the workflow delete_component works on.  get_workflows
\* takes an empty list for all components: that is what it is given when none
\* of the deleted ones is in .data.
Erased ==
    LET found == Of(cmd.sites) \cap recorded IN
    Erasable \cap (IF found = {} THEN recorded ELSE found)

\* The deletion has stopped some sites, of which some stay, and has removed
\* the directories of some: what stays without one is lost.
Delete(stopped, kept, wiped) ==
    /\ up' = (up \ stopped) \cup (kept \ wiped)
    /\ lost' = lost \cup (kept \cap wiped)
    /\ files' = files \ wiped
    /\ Stay(kept)

\* First all of them are stopped, then their directories are removed.
EraseServers ==
    LET sites == {i \in config.sites : i[1] \in Erased} IN
    /\ pc = "erase" /\ cmd.op = "del"
    /\ \E stopped \in SUBSET sites : \E kept \in SUBSET (stopped \cap up), wiped \in SUBSET stopped :
        /\ kept \cup wiped # {} => stopped = sites
        /\ wiped \cap At(Blocked((up \ stopped) \cup kept)) = {}
        /\ Delete(stopped, kept, wiped)
        /\ IF wiped = sites /\ Removable(Of(cmd.sites))
           THEN Proceed("info") \/ Return ELSE Return
    /\ UNCHANGED disk

\* Mutant of WebEraseServers: a failure does not end the command.
WebEraseServersGoOn ==
    LET sites == {i \in cmd.sites : i[1] \in recorded \cap Erasable} IN
    /\ pc = "erase" /\ cmd.op = "web del"
    /\ \E stopped \in SUBSET sites : \E kept \in SUBSET (stopped \cap up), wiped \in SUBSET stopped :
        /\ wiped \cap At(Blocked(up)) = {}
        /\ Delete(stopped, kept, wiped)
        /\ Proceed("info")
    /\ UNCHANGED disk

\* Mutant of WebEraseServers: directories go before their servers have stopped.
WebEraseServersWipe ==
    LET sites == {i \in cmd.sites : i[1] \in recorded \cap Erasable} IN
    /\ pc = "erase" /\ cmd.op = "web del"
    /\ \E wiped \in SUBSET sites : \E stopped \in SUBSET wiped :
        /\ wiped \cap At(Blocked(up)) = {}
        /\ up' = up \ stopped /\ files' = files \ wiped
        /\ IF stopped = sites THEN Proceed("info") \/ Return ELSE Return
    /\ UNCHANGED <<disk, lost, mishaps>>

\* The web service deletes component by component, those first that depend on
\* others, each as far as it gets; it goes on when none has failed.
WebEraseServers ==
    LET sites == {i \in cmd.sites : i[1] \in recorded \cap Erasable} IN
    /\ pc = "erase" /\ cmd.op = "web del"
    /\ \E stopped \in SUBSET sites : \E kept \in SUBSET (stopped \cap up), wiped \in SUBSET stopped :
        /\ wiped \cap At(Blocked(up)) = {}
        /\ Delete(stopped, kept, wiped)
        /\ IF wiped = sites THEN Proceed("info") \/ Return ELSE Return
    /\ UNCHANGED disk

\* DeployConfig.dump writes config.yaml in place: a kill inside leaves a part.
DumpDeployConfig ==
    /\ pc = "config"
    /\ \/ /\ config' = mem.config /\ UNCHANGED mishaps
          /\ IF cmd.op \in Adding THEN Proceed("info") ELSE Return
       \/ Mishap("write") /\ Return /\ UNCHANGED config
       \/ /\ Mishap("torn") /\ Return
          /\ \E sites \in SUBSET mem.config.sites :
                config' = [mem.config EXCEPT !.sites = sites]
    /\ UNCHANGED <<status, recorded, cluster>>

\* Deploy.dump_deploy_info; nobody looks at its result.  After an addition the
\* user may ask for a restart.
DumpDeployInfo ==
    /\ pc = "info"
    /\ \/ recorded' = mem.recorded /\ UNCHANGED mishaps
       \/ Mishap("write") /\ UNCHANGED recorded
    /\ CASE cmd.op \in Deleting -> Proceed("config")
         [] cmd.op = "add"      -> Proceed("restart") \/ Return
         [] OTHER               -> Return
    /\ UNCHANGED <<status, config, cluster>>

\* A kill inside: a .data that cannot be read counts as that of a configured
\* deployment without components, one whose status is cut off as configured.
TearDeployInfo ==
    /\ pc = "info" /\ Mishap("torn") /\ Return
    /\ status' = "CONFIGURED" /\ recorded' \in {{}, mem.recorded}
    /\ UNCHANGED <<config, cluster>>

\* restart_cluster after an addition: of the proxy and the database when a
\* component was added that the proxy now depends on, else of everything.  What
\* does not run is started first.  A failure is only warned of.
RestartAdded ==
    LET pulled  == {c \in Components \ {Main} : \E d \in Of(cmd.sites) : <<c, d>> \in Pulled}
        proxies == pulled \cap (recorded \ Of(cmd.sites))
        targets == IF proxies = {} THEN Managed ELSE Managed \cap At(proxies \cup {Main})
    IN
    /\ pc = "restart" /\ Return
    /\ \/ Managed \subseteq Startable /\ up' = up \cup Managed
       \/ \E stopped \in SUBSET targets, some \in SUBSET (Managed \cap Startable) :
            up' = (up \ stopped) \cup (some \ stopped)
    /\ UNCHANGED <<disk, lost, files, mishaps>>

-----------------------------------------------------------------------------
Crash ==
    /\ pc # "idle" /\ Mishap("crash") /\ Return
    /\ UNCHANGED <<disk, cluster>>

Die(i) ==
    /\ i \in up \cup lost /\ Mishap("die") /\ up' = up \ {i} /\ lost' = lost \ {i}
    /\ UNCHANGED <<disk, mem, pc, cmd, files>>

Command ==
    \/ \E new \in SUBSET Sites :
        \/ WebAddComponents(new)
        \/ \E force \in BOOLEAN : AddComponents(new, force) \/ ScaleOut(new, force)
    \/ \E comps \in SUBSET Components :
        \/ WebDelComponent(comps) \/ RemoveComponent(comps)
        \/ \E force \in BOOLEAN : DeleteComponents(comps, force)
    \/ StartCluster \/ StopCluster

Proceeding ==
    \/ InitServers \/ StartServers \/ WebStartServers \/ EraseServers \/ WebEraseServers
    \/ DumpDeployConfig \/ DumpDeployInfo \/ TearDeployInfo \/ RestartAdded

Next == Command \/ Proceeding \/ Crash \/ \E i \in Sites : Die(i)

Spec == Init /\ [][Next]_vars
-----------------------------------------------------------------------------
(* Properties.                                                              *)

\* Every write of obd has been made, as a whole.
Written == mishaps \cap {"write", "torn"} = {}

\* Nor has obd been killed.
Unharmed == Written /\ "crash" \notin mishaps

\* A deletion at work on servers, none of which dies meanwhile.
Erasing == pc = "erase" /\ Unharmed /\ ("die" \in mishaps' => "die" \in mishaps)

\* Every component in .data has a configuration, without which no command can
\* work on the deployment: additions write config.yaml first and deletions
\* .data, so that a kill between the two writes does no harm.  A deletion that
\* cannot write .data does, and so does a kill inside a write.
RecordedConfigured == Written => Loadable

\* A deletion stops and removes only servers of the components it is told to
\* delete: whatever additions and deletions have failed before, on the console
\* or in the web service, one of the components is found in .data.
ErasesOnlyNamed ==
    [][Erasing => (up \ up') \cup (files \ files') \subseteq At(Of(cmd.sites))]_vars

\* What is no longer in the configuration after a deletion does not run, where
\* the component has a workflow to delete it: no server is left that no
\* command would ever stop, but one that stayed through a stop that reported
\* success (general/0.1/stop.py:62), whose directory is removed all the same.
DeletedIsGone ==
    [][pc = "config" /\ cmd.op \in {"del", "web del"} /\ Unharmed'
       => \A i \in config.sites \ config'.sites : i[1] \in Erasable =>
            i \notin up' /\ (i \in lost' => "stay" \in mishaps)]_vars

\* The servers of a component that another one depends on are not removed by a
\* deletion of the first without the second.
NeededStays ==
    [][Erasing => \A p \in Depends(config) :
            p[1] \in Of(cmd.sites) \/ files \cap At({p[2]}) \subseteq files']_vars
=============================================================================
