------------------------ MODULE ComponentChange_proofs ------------------------
(***************************************************************************)
(* Theorems about adding and deleting components (module ComponentChange), *)
(* for every set of components and servers, whatever depends on what, and  *)
(* any number of mishaps: every component in .data has a configuration,    *)
(* deletions touch what they are told to delete and nothing that others    *)
(* need, and what they have deleted no longer runs unless it stayed        *)
(* through a stop that reported success.                                   *)
(***************************************************************************)
EXTENDS ComponentChange, TLAPS

\* The steps at which a command holds both files in memory.
Changing == {"init", "launch", "erase", "config", "info"}

\* What is about to be started has been installed.
Placed == pc = "launch" => cmd.sites \subseteq files

\* Additions are of components that are not there yet.
Fresh ==
    pc \in {"init", "launch"} =>
        /\ cmd.op \in Adding \cup {"scale_out"}
        /\ cmd.op \in Adding => Of(cmd.sites) \cap recorded = {}

\* What is being deleted is there, and may be.
Chosen ==
    pc = "erase" =>
        /\ cmd.op \in {"del", "web del"}
        /\ cmd.sites \subseteq config.sites
        /\ Removable(Of(cmd.sites))

\* The order of the two writes: whichever file is written next, what .data
\* names config.yaml names afterwards.
Loaded ==
    Written =>
        /\ Loadable
        /\ pc \in Changing => mem.recorded \subseteq Named(mem.config)
        /\ pc \in {"init", "launch", "config"} => recorded \subseteq Named(mem.config)
        /\ pc \in {"erase", "info"} => mem.recorded \subseteq Named(config)

\* Unless obd is killed or a write fails, .data also names what config.yaml
\* does, whenever no command is between the two writes.
Agreed ==
    Unharmed =>
        /\ pc \notin {"config", "info"} => Named(config) \subseteq recorded
        /\ pc \in Changing => Named(mem.config) \subseteq mem.recorded
        /\ pc \in {"init", "launch"} /\ cmd.op = "scale_out" => Named(mem.config) \subseteq recorded
        /\ pc = "config" /\ cmd.op \notin Adding => Named(mem.config) \subseteq recorded
        /\ pc = "info" /\ cmd.op \notin Deleting => Named(config) \subseteq mem.recorded

\* What a deletion takes out of config.yaml has stopped before.
Stopped ==
    cmd.op \in {"del", "web del"} =>
        /\ pc \in {"erase", "info", "config"} => config.sites \ mem.config.sites \subseteq cmd.sites
        /\ Unharmed /\ pc \in {"info", "config"}
           => \A i \in cmd.sites : i[1] \in Erasable => i \notin up

\* A process is without its directory only when a stop that succeeded has left
\* it running.
LostStayed == lost # {} => "stay" \in mishaps

IInv == TypeOK /\ Placed /\ Fresh /\ Chosen /\ Loaded /\ Agreed /\ Stopped /\ LostStayed
-----------------------------------------------------------------------------
(* What the operators on configurations return.                             *)

LEMMA OfSites ==
    ASSUME NEW sites \in SUBSET Sites PROVE Of(sites) \in SUBSET Components
BY DEF Of, Components

LEMMA NamedAdded ==
    ASSUME config \in Configs, NEW new \in SUBSET Sites
    PROVE  /\ Added(new) \in Configs
           /\ Named(Added(new)) = Named(config) \cup Of(new)
BY ComponentAssumption DEF Added, Configs, Named, Of

LEMMA NamedGrown ==
    ASSUME NEW cfg \in Configs, NEW new \in SUBSET Sites
    PROVE  /\ [cfg EXCEPT !.sites = @ \cup new] \in Configs
           /\ Named([cfg EXCEPT !.sites = @ \cup new]) = Named(cfg) \cup Of(new)
BY DEF Configs, Named, Of

LEMMA NamedWithout ==
    ASSUME NEW cfg \in Configs, NEW comps
    PROVE  /\ Without(cfg, comps) \in Configs
           /\ Named(Without(cfg, comps)) = Named(cfg) \ comps
           /\ cfg.sites \ Without(cfg, comps).sites \subseteq {i \in cfg.sites : i[1] \in comps}
BY DEF Without, Configs, Named, Of

LEMMA OfChosen ==
    ASSUME NEW cfg \in Configs, NEW comps, comps \subseteq Named(cfg)
    PROVE  Of({i \in cfg.sites : i[1] \in comps}) = comps
BY DEF Configs, Named, Of

-----------------------------------------------------------------------------
(* The invariant is inductive.                                              *)

LEMMA InitIInv == Init => IInv
<1> SUFFICES ASSUME Init PROVE IInv
    OBVIOUS
<1>1. Of(Initial) \in SUBSET Components
    BY OfSites, ComponentAssumption
<1>2. TypeOK
    BY <1>1, ComponentAssumption
    DEF Init, TypeOK, Status, Configs, Deploys, Empty, NoCommand, Commands
<1>3. Placed /\ Fresh /\ Chosen /\ Stopped /\ LostStayed
    BY DEF Init, Placed, Fresh, Chosen, Stopped, LostStayed, NoCommand
<1>4. Loaded /\ Agreed
    BY DEF Init, Loaded, Written, Agreed, Loadable, Named, Changing
<1> QED
    BY <1>2, <1>3, <1>4 DEF IInv

\* What a command may begin with.
Sound(op, sites, force, first, cfg, comps) ==
    /\ op \in Adding \cup Deleting \cup {"scale_out"} /\ sites \in SUBSET Sites
    /\ force \in BOOLEAN /\ first \in {"init", "erase", "info"}
    /\ cfg \in Configs /\ comps \in SUBSET Components
    /\ comps \subseteq Named(cfg)
    /\ Named(config) \subseteq recorded => Named(cfg) \subseteq comps
    /\ first = "init" =>
        /\ op \notin Deleting /\ recorded \subseteq Named(cfg)
        /\ op \in Adding => Of(sites) \cap recorded = {}
        /\ op = "scale_out" => comps = recorded
    /\ first # "init" => op \in Deleting /\ comps \subseteq recorded
    /\ first = "erase" => op # "web remove" /\ sites \subseteq config.sites /\ Removable(Of(sites))
    /\ first = "info" => op = "web remove"
    /\ op \in {"del", "web del"} => config.sites \ cfg.sites \subseteq sites

LEMMA Begun ==
    ASSUME IInv, NEW op, NEW sites, NEW force, NEW first, NEW cfg, NEW comps,
           Begin(op, sites, force, first, cfg, comps),
           Sound(op, sites, force, first, cfg, comps)
    PROVE  IInv'
<1> USE DEF IInv, Begin, Sound, disk, cluster, Adding, Deleting
<1>1. TypeOK'
    BY DEF TypeOK, Commands, NoCommand, Deploys
<1>2. Placed' /\ Fresh'
    BY DEF Placed, Fresh
<1>3. Chosen'
    BY DEF Chosen, Removable, Depends, Named
<1>4. Loaded'
    BY DEF Loaded, Written, Loadable, Named, Changing
<1>5. Agreed'
    BY DEF Agreed, Unharmed, Written, Named, Changing
<1>6. Stopped' /\ LostStayed'
    BY DEF Stopped, LostStayed
<1> QED
    BY <1>1, <1>2, <1>3, <1>4, <1>5, <1>6

LEMMA AdditionBegun ==
    ASSUME IInv, NEW new \in SUBSET Sites, NEW force \in BOOLEAN,
           AddComponents(new, force) \/ WebAddComponents(new)
    PROVE  IInv'
<1> DEFINE comps == recorded \cup Of(new)
<1>1. config \in Configs /\ recorded \in SUBSET Components
    BY DEF IInv, TypeOK
<1>2. /\ Loadable /\ Of(new) \cap Named(config) = {}
      /\ \E op \in Adding, f \in BOOLEAN : Begin(op, new, f, "init", Added(new), comps)
    BY DEF AddComponents, WebAddComponents, Begin, Adding
<1>3. PICK op \in Adding, f \in BOOLEAN : Begin(op, new, f, "init", Added(new), comps)
    BY <1>2
<1>4. Added(new) \in Configs /\ Named(Added(new)) = Named(config) \cup Of(new)
    BY <1>1, NamedAdded
<1>5. comps \in SUBSET Components
    BY <1>1, OfSites
<1>6. recorded \subseteq Named(config)
    BY <1>2 DEF Loadable
<1>7. Sound(op, new, f, "init", Added(new), comps)
    BY <1>2, <1>4, <1>5, <1>6 DEF Sound, Adding, Deleting
<1> QED
    BY <1>3, <1>7, Begun

LEMMA GrowthBegun ==
    ASSUME IInv, NEW new \in SUBSET Sites, NEW force \in BOOLEAN, ScaleOut(new, force)
    PROVE  IInv'
<1> DEFINE cfg == [config EXCEPT !.sites = @ \cup new]
<1>1. config \in Configs /\ recorded \in SUBSET Components
    BY DEF IInv, TypeOK
<1>2. /\ Of(new) \subseteq Named(config) /\ recorded \subseteq Named(config)
      /\ Begin("scale_out", new, force, "init", cfg, recorded)
    BY DEF ScaleOut, Begin, Loadable
<1>3. cfg \in Configs /\ Named(cfg) = Named(config) \cup Of(new)
    BY <1>1, NamedGrown
<1>4. Sound("scale_out", new, force, "init", cfg, recorded)
    BY <1>1, <1>2, <1>3 DEF Sound, Adding, Deleting
<1> QED
    BY <1>2, <1>4, Begun

LEMMA RemovalBegun ==
    ASSUME IInv, NEW op \in Deleting, NEW comps \in SUBSET Components, NEW force \in BOOLEAN,
           NEW first \in {"erase", "info"}, first = "info" <=> op = "web remove",
           Removable(comps), Remove(op, comps, force, first)
    PROVE  IInv'
<1> DEFINE sites == {i \in config.sites : i[1] \in comps}
           cfg   == Without(config, comps)
           left  == recorded \ comps
<1>1. config \in Configs /\ recorded \in SUBSET Components
    BY DEF IInv, TypeOK
<1>2. recorded \subseteq Named(config) /\ Begin(op, sites, force, first, cfg, left)
    BY DEF Remove, Begin, Loadable
<1>3. /\ cfg \in Configs /\ Named(cfg) = Named(config) \ comps
      /\ config.sites \ cfg.sites \subseteq sites
    BY <1>1, NamedWithout
<1>4. Of(sites) = comps
    BY <1>1, OfChosen DEF Removable
<1>5. sites \in SUBSET Sites /\ sites \subseteq config.sites /\ left \in SUBSET Components
    BY <1>1 DEF Configs
<1> HIDE DEF sites, cfg, left
<1>6. left \subseteq Named(cfg) /\ (Named(config) \subseteq recorded => Named(cfg) \subseteq left)
    BY <1>2, <1>3 DEF left
<1>7. left \subseteq recorded
    BY DEF left
<1>8. Sound(op, sites, force, first, cfg, left)
    BY <1>3, <1>4, <1>5, <1>6, <1>7 DEF Sound, Adding, Deleting
<1> QED
    BY <1>2, <1>8, Begun

\* A command ends, its last write aside.
LEMMA Returned ==
    ASSUME IInv, Return, status' \in Status, recorded' \in SUBSET Components, config' \in Configs,
           up' \in SUBSET Sites, files' \in SUBSET Sites, up' \subseteq files',
           lost' \in SUBSET Sites, lost' \cap up' = {}, LostStayed',
           mishaps' \in SUBSET Kinds, Written' => Loadable',
           Unharmed' => Named(config') \subseteq recorded'
    PROVE  IInv'
<1> USE DEF IInv, Return
<1>1. TypeOK'
    BY DEF TypeOK, Deploys, Configs, Empty
<1>2. Placed' /\ Fresh' /\ Chosen' /\ Stopped'
    BY DEF Placed, Fresh, Chosen, Stopped, NoCommand
<1>3. Loaded' /\ Agreed'
    BY DEF Loaded, Written, Agreed, Changing, Named
<1> QED
    BY <1>1, <1>2, <1>3

LEMMA InitServersStep == IInv /\ InitServers => IInv'
<1> SUFFICES ASSUME IInv, InitServers PROVE IInv'
    OBVIOUS
<1> USE DEF IInv, InitServers, disk
<1>1. PICK some \in SUBSET cmd.sites :
        /\ files' = files \cup some /\ up' \subseteq up /\ lost' \subseteq lost
        /\ IF some = cmd.sites THEN Proceed("launch") ELSE Return
    OBVIOUS
<1>2. cmd.sites \in SUBSET Sites /\ cmd # NoCommand /\ cmd \in Commands
    BY DEF TypeOK, Commands
<1>3. CASE some # cmd.sites
    <2>1. Return
        BY <1>1, <1>3
    <2>2. (Written' => Loadable') /\ (Unharmed' => Named(config') \subseteq recorded')
        BY DEF Loaded, Agreed, Loadable, Named, Unharmed, Written
    <2>3. lost' \cap up' = {} /\ LostStayed'
        BY <1>1 DEF TypeOK, LostStayed
    <2> QED
        BY <1>1, <1>2, <2>1, <2>2, <2>3, Returned DEF TypeOK
<1>4. CASE some = cmd.sites
    <2>1. Proceed("launch")
        BY <1>1, <1>4
    <2> USE DEF Proceed
    <2>2. TypeOK'
        BY <1>1, <1>2, <2>1 DEF TypeOK
    <2>3. Placed' /\ Fresh' /\ Chosen'
        BY <1>1, <1>4, <2>1 DEF Placed, Fresh, Chosen
    <2>4. Loaded'
        BY <2>1 DEF Loaded, Written, Loadable, Named, Changing
    <2>5. Agreed'
        BY <2>1 DEF Agreed, Unharmed, Written, Named, Changing
    <2>6. Stopped' /\ LostStayed'
        BY <1>1, <2>1 DEF Stopped, Fresh, Adding, LostStayed
    <2> QED
        BY <2>2, <2>3, <2>4, <2>5, <2>6
<1> QED
    BY <1>3, <1>4

LEMMA StartServersStep == IInv /\ StartServers => IInv'
<1> SUFFICES ASSUME IInv, StartServers PROVE IInv'
    OBVIOUS
<1> USE DEF IInv, StartServers, disk
<1>1. PICK some \in SUBSET (Launched \ lost) :
        up' = up \cup some /\ lost' = lost /\ (Proceed("config") \/ Return)
    OBVIOUS
<1>2. /\ cmd.sites \in SUBSET Sites /\ cmd # NoCommand /\ cmd \in Commands
      /\ some \subseteq cmd.sites
    BY DEF TypeOK, Commands, Launched
<1>3. some \subseteq files /\ lost' \cap up' = {} /\ LostStayed'
    BY <1>1, <1>2 DEF Placed, TypeOK, LostStayed
<1>4. CASE Return
    <2>1. (Written' => Loadable') /\ (Unharmed' => Named(config') \subseteq recorded')
        BY DEF Loaded, Agreed, Loadable, Named, Unharmed, Written
    <2> QED
        BY <1>1, <1>2, <1>3, <1>4, <2>1, Returned DEF TypeOK
<1>5. CASE Proceed("config")
    <2> USE DEF Proceed
    <2>1. TypeOK'
        BY <1>1, <1>2, <1>3, <1>5 DEF TypeOK
    <2>2. Placed' /\ Fresh' /\ Chosen'
        BY <1>5 DEF Placed, Fresh, Chosen
    <2>3. Loaded'
        BY <1>5 DEF Loaded, Written, Loadable, Named, Changing
    <2>4. Agreed'
        BY <1>5 DEF Agreed, Unharmed, Written, Named, Changing, Fresh
    <2>5. Stopped' /\ LostStayed'
        BY <1>3, <1>5 DEF Stopped, Fresh, Adding
    <2> QED
        BY <2>1, <2>2, <2>3, <2>4, <2>5
<1> QED
    BY <1>1, <1>4, <1>5

LEMMA WebStartServersStep == IInv /\ WebStartServers => IInv'
<1> SUFFICES ASSUME IInv, WebStartServers PROVE IInv'
    OBVIOUS
<1> USE DEF IInv, WebStartServers, disk
<1>1. PICK some \in SUBSET (cmd.sites \ lost), failed \in SUBSET Of(cmd.sites) :
        /\ up' = up \cup some /\ lost' = lost
        /\ mem' = [recorded |-> mem.recorded \ failed,
                   config   |-> Without(mem.config, failed)]
    OBVIOUS
<1>2. /\ cmd.sites \in SUBSET Sites /\ some \subseteq files
      /\ mem.config \in Configs /\ mem.recorded \in SUBSET Components
    BY DEF TypeOK, Commands, Deploys, Placed, NoCommand
<1>3. /\ mem'.config \in Configs /\ Named(mem'.config) = Named(mem.config) \ failed
      /\ mem'.recorded = mem.recorded \ failed
    BY <1>1, <1>2, NamedWithout
<1>4. TypeOK'
    BY <1>1, <1>2, <1>3 DEF TypeOK, Deploys
<1>5. Placed' /\ Fresh' /\ Chosen' /\ Stopped' /\ LostStayed'
    BY <1>1 DEF Placed, Fresh, Chosen, Stopped, LostStayed
<1>6. recorded \cap failed = {}
    BY <1>1 DEF Fresh, Adding
<1>7. Loaded'
    BY <1>3, <1>6 DEF Loaded, Written, Loadable, Named, Changing
<1>8. Agreed'
    BY <1>3 DEF Agreed, Unharmed, Written, Named, Changing, Adding, Deleting
<1> QED
    BY <1>4, <1>5, <1>7, <1>8

\* Both deletions erase only sites of the components to delete; without
\* mishaps, those of every one that can be erased.
LEMMA ErasedSites ==
    ASSUME IInv, pc = "erase", Unharmed,
           NEW i \in config.sites, i[1] \in Erased
    PROVE  i[1] \in Of(cmd.sites)
<1>1. Of(cmd.sites) \cap recorded # {}
    BY DEF IInv, Chosen, Removable, Agreed
<1> QED
    BY <1>1 DEF Erased

LEMMA AllErased ==
    ASSUME IInv, pc = "erase", Unharmed, NEW i \in cmd.sites, i[1] \in Erasable
    PROVE  /\ i \in config.sites /\ i[1] \in Erased
           /\ i[1] \in recorded
<1>1. i \in config.sites /\ i[1] \in Of(cmd.sites)
    BY DEF IInv, Chosen, Of
<1>2. i[1] \in Named(config) /\ Named(config) \subseteq recorded
    BY <1>1 DEF IInv, Agreed, Named, Of
<1> QED
    BY <1>1, <1>2 DEF Erased

\* The two deletions differ in the sites they work on.
LEMMA ErasureStep ==
    ASSUME IInv, pc = "erase", UNCHANGED disk,
           NEW sites, NEW stopped \in SUBSET sites, NEW wiped \in SUBSET stopped,
           NEW kept \in SUBSET (stopped \cap up), Delete(stopped, kept, wiped),
           Unharmed => \A i \in cmd.sites : i[1] \in Erasable => i \in sites,
           Return \/ (wiped = sites /\ Proceed("info"))
    PROVE  IInv'
<1> USE DEF IInv, disk
<1>3. /\ up' = (up \ stopped) \cup (kept \ wiped) /\ files' = files \ wiped
      /\ lost' = lost \cup (kept \cap wiped)
    BY DEF Delete
<1>4. /\ mishaps' \in SUBSET Kinds /\ mishaps \subseteq mishaps'
      /\ mishaps' \subseteq mishaps \cup {"stay"}
      /\ kept # {} => "stay" \in mishaps'
    BY DEF Delete, Stay, Mishap, TypeOK
<1>5. /\ up' \in SUBSET Sites /\ files' \in SUBSET Sites /\ up' \subseteq files'
      /\ lost' \in SUBSET Sites /\ lost' \cap up' = {}
    BY <1>3 DEF TypeOK
<1>6. LostStayed'
    BY <1>3, <1>4 DEF LostStayed
<1>7. Unharmed' <=> Unharmed
    BY <1>4 DEF Unharmed, Written
<1>8. Written' <=> Written
    BY <1>4 DEF Written
<1>1. CASE Return
    <2>1. (Written' => Loadable') /\ (Unharmed' => Named(config') \subseteq recorded')
        BY <1>7, <1>8 DEF Loaded, Written, Agreed, Loadable, Named
    <2> QED
        BY <1>1, <1>4, <1>5, <1>6, <2>1, Returned DEF TypeOK
<1>2. CASE wiped = sites /\ Proceed("info")
    <2> USE DEF Proceed
    <2>1. TypeOK'
        BY <1>2, <1>4, <1>5 DEF TypeOK, Chosen
    <2>2. Placed' /\ Fresh' /\ Chosen'
        BY <1>2 DEF Placed, Fresh, Chosen
    <2>3. Loaded'
        BY <1>2, <1>8 DEF Loaded, Written, Loadable, Named, Changing
    <2>4. Agreed'
        BY <1>2, <1>7 DEF Agreed, Named, Changing, Chosen, Deleting
    <2>5. Stopped'
        BY <1>2, <1>3, <1>7 DEF Stopped
    <2> QED
        BY <1>6, <2>1, <2>2, <2>3, <2>4, <2>5
<1> QED
    BY <1>1, <1>2

LEMMA EraseServersStep == IInv /\ EraseServers => IInv'
<1> SUFFICES ASSUME IInv, EraseServers PROVE IInv'
    OBVIOUS
<1> DEFINE sites == {i \in config.sites : i[1] \in Erased}
<1>1. PICK stopped \in SUBSET sites : \E kept \in SUBSET (stopped \cap up), wiped \in SUBSET stopped :
        /\ Delete(stopped, kept, wiped)
        /\ Return \/ (wiped = sites /\ Proceed("info"))
    BY DEF EraseServers
<1>2. PICK kept \in SUBSET (stopped \cap up), wiped \in SUBSET stopped :
        /\ Delete(stopped, kept, wiped)
        /\ Return \/ (wiped = sites /\ Proceed("info"))
    BY <1>1
<1>3. pc = "erase" /\ UNCHANGED disk
    BY DEF EraseServers
<1>4. Unharmed => \A i \in cmd.sites : i[1] \in Erasable => i \in sites
    BY <1>3, AllErased
<1> HIDE DEF sites
<1> QED
    BY <1>1, <1>2, <1>3, <1>4, ErasureStep

LEMMA WebEraseServersStep == IInv /\ WebEraseServers => IInv'
<1> SUFFICES ASSUME IInv, WebEraseServers PROVE IInv'
    OBVIOUS
<1> DEFINE sites == {i \in cmd.sites : i[1] \in recorded \cap Erasable}
<1>1. PICK stopped \in SUBSET sites : \E kept \in SUBSET (stopped \cap up), wiped \in SUBSET stopped :
        /\ Delete(stopped, kept, wiped)
        /\ Return \/ (wiped = sites /\ Proceed("info"))
    BY DEF WebEraseServers
<1>2. PICK kept \in SUBSET (stopped \cap up), wiped \in SUBSET stopped :
        /\ Delete(stopped, kept, wiped)
        /\ Return \/ (wiped = sites /\ Proceed("info"))
    BY <1>1
<1>3. pc = "erase" /\ UNCHANGED disk
    BY DEF WebEraseServers
<1>4. Unharmed => \A i \in cmd.sites : i[1] \in Erasable => i \in sites
    BY <1>3, AllErased
<1> HIDE DEF sites
<1> QED
    BY <1>1, <1>2, <1>3, <1>4, ErasureStep

LEMMA DumpDeployConfigStep == IInv /\ DumpDeployConfig => IInv'
<1> SUFFICES ASSUME IInv, DumpDeployConfig PROVE IInv'
    OBVIOUS
<1> USE DEF IInv, DumpDeployConfig, cluster
<1>1. mem.config \in Configs
    BY DEF TypeOK, Deploys
<1>5. LostStayed'
    BY DEF LostStayed, Mishap
<1>2. CASE Mishap("write") /\ Return /\ UNCHANGED config
    <2>1. ~Unharmed' /\ ~Written' /\ mishaps' \in SUBSET Kinds
        BY <1>2 DEF Mishap, Unharmed, Written, TypeOK
    <2> QED
        BY <1>2, <1>5, <2>1, Returned DEF TypeOK
<1>3. CASE config' = mem.config /\ UNCHANGED mishaps /\ cmd.op \notin Adding /\ Return
    <2>1. (Written' => Loadable') /\ (Unharmed' => Named(config') \subseteq recorded')
        BY <1>3 DEF Loaded, Agreed, Loadable, Named, Unharmed, Written
    <2> QED
        BY <1>1, <1>3, <1>5, <2>1, Returned DEF TypeOK
<1>4. CASE config' = mem.config /\ UNCHANGED mishaps /\ cmd.op \in Adding /\ Proceed("info")
    <2> USE DEF Proceed
    <2>1. TypeOK'
        BY <1>1, <1>4 DEF TypeOK
    <2>2. Placed' /\ Fresh' /\ Chosen'
        BY <1>4 DEF Placed, Fresh, Chosen
    <2>3. Loaded'
        BY <1>4 DEF Loaded, Written, Loadable, Named, Changing
    <2>4. Agreed'
        BY <1>4 DEF Agreed, Unharmed, Written, Named, Changing, Adding
    <2>5. Stopped'
        BY <1>4 DEF Stopped, Adding
    <2> QED
        BY <1>5, <2>1, <2>2, <2>3, <2>4, <2>5
<1>6. CASE /\ Mishap("torn") /\ Return
           /\ \E sites \in SUBSET mem.config.sites :
                config' = [mem.config EXCEPT !.sites = sites]
    <2>1. config' \in Configs
        BY <1>1, <1>6 DEF Configs
    <2>2. ~Unharmed' /\ ~Written' /\ mishaps' \in SUBSET Kinds
        BY <1>6 DEF Mishap, Unharmed, Written, TypeOK
    <2> QED
        BY <1>5, <1>6, <2>1, <2>2, Returned DEF TypeOK
<1> QED
    BY <1>2, <1>3, <1>4, <1>6

LEMMA DumpDeployInfoStep == IInv /\ DumpDeployInfo => IInv'
<1> SUFFICES ASSUME IInv, DumpDeployInfo PROVE IInv'
    OBVIOUS
<1> USE DEF IInv, DumpDeployInfo, cluster
<1>1. mem.recorded \in SUBSET Components
    BY DEF TypeOK, Deploys
<1>2. /\ recorded' \in SUBSET Components /\ mishaps' \in SUBSET Kinds
      /\ \/ recorded' = mem.recorded /\ UNCHANGED mishaps
         \/ ~Written' /\ ~Unharmed'
    BY <1>1 DEF TypeOK, Mishap, Unharmed, Written
<1>7. LostStayed'
    BY DEF LostStayed, Mishap
<1>3. Written' => Loadable'
    BY <1>2 DEF Loaded, Written, Loadable, Named
<1>4. CASE cmd.op \notin Deleting /\ Return
    <2>1. Unharmed' => Named(config') \subseteq recorded'
        BY <1>2, <1>4 DEF Agreed, Named, Unharmed, Written
    <2> QED
        BY <1>2, <1>3, <1>4, <1>7, <2>1, Returned DEF TypeOK
<1>5. CASE cmd.op \in Deleting /\ Proceed("config")
    <2> USE DEF Proceed
    <2>1. TypeOK'
        BY <1>2, <1>5 DEF TypeOK
    <2>2. Placed' /\ Fresh' /\ Chosen'
        BY <1>5 DEF Placed, Fresh, Chosen
    <2>3. Loaded'
        BY <1>2, <1>3, <1>5 DEF Loaded, Written, Changing, Named
    <2>4. Agreed'
        BY <1>2, <1>5 DEF Agreed, Unharmed, Written, Named, Changing, Adding, Deleting
    <2>5. Stopped'
        BY <1>2, <1>5 DEF Stopped, Unharmed, Written
    <2> QED
        BY <1>7, <2>1, <2>2, <2>3, <2>4, <2>5
<1>6. CASE cmd.op = "add" /\ Proceed("restart")
    <2> USE DEF Proceed
    <2>1. TypeOK'
        BY <1>2, <1>6 DEF TypeOK
    <2>2. Placed' /\ Fresh' /\ Chosen' /\ Stopped'
        BY <1>6 DEF Placed, Fresh, Chosen, Stopped
    <2>3. Loaded'
        BY <1>3, <1>6 DEF Loaded, Written, Changing
    <2>4. Agreed'
        BY <1>2, <1>6 DEF Agreed, Unharmed, Written, Named, Changing, Deleting
    <2> QED
        BY <1>7, <2>1, <2>2, <2>3, <2>4
<1> QED
    BY <1>4, <1>5, <1>6 DEF Adding, Deleting

LEMMA TearDeployInfoStep == IInv /\ TearDeployInfo => IInv'
<1> SUFFICES ASSUME IInv, TearDeployInfo PROVE IInv'
    OBVIOUS
<1> USE DEF IInv, TearDeployInfo, cluster
<1>1. /\ status' \in Status /\ recorded' \in SUBSET Components
      /\ mishaps' \in SUBSET Kinds /\ ~Written' /\ ~Unharmed'
    BY DEF TypeOK, Deploys, Status, Mishap, Unharmed, Written
<1>2. LostStayed'
    BY DEF LostStayed, Mishap
<1> QED
    BY <1>1, <1>2, Returned DEF TypeOK

LEMMA RestartAddedStep == IInv /\ RestartAdded => IInv'
<1> SUFFICES ASSUME IInv, RestartAdded PROVE IInv'
    OBVIOUS
<1>1. Return /\ pc = "restart" /\ UNCHANGED <<disk, files, mishaps>>
    BY DEF RestartAdded
<1>2. up' \subseteq up \cup (Managed \cap Startable) /\ lost' = lost
    BY DEF RestartAdded
<1>3. /\ up' \in SUBSET Sites /\ up' \subseteq files' /\ lost' \cap up' = {} /\ LostStayed'
    BY <1>1, <1>2 DEF IInv, TypeOK, disk, Startable, LostStayed
<1>4. (Written' => Loadable') /\ (Unharmed' => Named(config') \subseteq recorded')
    BY <1>1 DEF IInv, Loaded, Agreed, Loadable, Named, Unharmed, Written, disk
<1> QED
    BY <1>1, <1>2, <1>3, <1>4, Returned DEF IInv, TypeOK, disk

\* start and stop change the servers and the status, while no command runs.
LEMMA ServersStep == IInv /\ (StartCluster \/ StopCluster) => IInv'
<1> SUFFICES ASSUME IInv, StartCluster \/ StopCluster PROVE IInv'
    OBVIOUS
<1> USE DEF IInv
<1>1. /\ pc = "idle" /\ UNCHANGED <<recorded, config, mem, pc, cmd, lost, files>>
      /\ up' \subseteq up \cup (Managed \cap Startable) /\ status' \in Status
    BY DEF StartCluster, StopCluster, TypeOK, Status
<1>5. mishaps' \in SUBSET Kinds /\ mishaps \subseteq mishaps' /\ mishaps' \subseteq mishaps \cup {"stay"}
    BY DEF StartCluster, StopCluster, Stay, Mishap, TypeOK
<1>2. TypeOK'
    BY <1>1, <1>5 DEF TypeOK, Startable
<1>3. Placed' /\ Fresh' /\ Chosen' /\ Stopped' /\ LostStayed'
    BY <1>1, <1>5 DEF Placed, Fresh, Chosen, Stopped, LostStayed
<1>4. Loaded' /\ Agreed'
    BY <1>1, <1>5 DEF Loaded, Agreed, Loadable, Named, Unharmed, Written, Changing
<1> QED
    BY <1>2, <1>3, <1>4

LEMMA CrashStep == IInv /\ Crash => IInv'
<1> SUFFICES ASSUME IInv, Crash PROVE IInv'
    OBVIOUS
<1>1. /\ Return /\ UNCHANGED <<disk, cluster>>
      /\ mishaps' \in SUBSET Kinds /\ mishaps' = mishaps \cup {"crash"} /\ ~Unharmed'
    BY DEF Crash, Mishap, IInv, TypeOK, Unharmed, Written
<1>2. Written' => Loadable'
    BY <1>1 DEF IInv, Loaded, Written, Loadable, Named, disk
<1>3. LostStayed'
    BY <1>1 DEF IInv, LostStayed, cluster
<1> QED
    BY <1>1, <1>2, <1>3, Returned DEF IInv, TypeOK, disk, cluster

LEMMA DieStep == ASSUME NEW i \in Sites, IInv, Die(i) PROVE IInv'
<1> USE DEF IInv, Die, disk
<1>1. mishaps' \in SUBSET Kinds /\ mishaps' = mishaps \cup {"die"}
    BY DEF Mishap, TypeOK
<1>2. TypeOK'
    BY <1>1 DEF TypeOK
<1>3. Placed' /\ Fresh' /\ Chosen' /\ LostStayed'
    BY <1>1 DEF Placed, Fresh, Chosen, Removable, Depends, Named, LostStayed
<1>4. Loaded' /\ Agreed' /\ Stopped'
    BY <1>1 DEF Loaded, Agreed, Stopped, Unharmed, Written, Loadable, Named, Changing
<1> QED
    BY <1>2, <1>3, <1>4

LEMMA CommandStep == IInv /\ Command => IInv'
<1> SUFFICES ASSUME IInv, Command PROVE IInv'
    OBVIOUS
<1>1. CASE \E new \in SUBSET Sites :
            WebAddComponents(new) \/ \E force \in BOOLEAN : AddComponents(new, force)
    BY <1>1, AdditionBegun
<1>2. CASE \E new \in SUBSET Sites, force \in BOOLEAN : ScaleOut(new, force)
    BY <1>2, GrowthBegun
<1>3. CASE \E comps \in SUBSET Components : WebDelComponent(comps)
    BY <1>3, RemovalBegun DEF WebDelComponent, Deleting
<1>4. CASE \E comps \in SUBSET Components : RemoveComponent(comps)
    BY <1>4, RemovalBegun DEF RemoveComponent, Deleting
<1>5. CASE \E comps \in SUBSET Components, force \in BOOLEAN : DeleteComponents(comps, force)
    BY <1>5, RemovalBegun DEF DeleteComponents, Deleting
<1>6. CASE StartCluster \/ StopCluster
    BY <1>6, ServersStep
<1> QED
    BY <1>1, <1>2, <1>3, <1>4, <1>5, <1>6 DEF Command

LEMMA NextIInv == IInv /\ [Next]_vars => IInv'
<1> SUFFICES ASSUME IInv, [Next]_vars PROVE IInv'
    OBVIOUS
<1>1. CASE Command
    BY <1>1, CommandStep
<1>2. CASE Proceeding
    BY <1>2, InitServersStep, StartServersStep, WebStartServersStep, EraseServersStep,
       WebEraseServersStep, DumpDeployConfigStep, DumpDeployInfoStep,
       TearDeployInfoStep, RestartAddedStep
    DEF Proceeding
<1>3. CASE Crash \/ \E i \in Sites : Die(i)
    BY <1>3, CrashStep, DieStep
<1>4. CASE UNCHANGED vars
    <2>1. TypeOK' /\ LostStayed'
        BY <1>4 DEF vars, IInv, TypeOK, LostStayed
    <2>2. Placed' /\ Fresh' /\ Chosen'
        BY <1>4 DEF vars, IInv, Placed, Fresh, Chosen, Removable, Depends, Named
    <2>3. Loaded' /\ Agreed' /\ Stopped'
        BY <1>4 DEF vars, IInv, Loaded, Agreed, Stopped, Named, Loadable, Unharmed, Written, Changing
    <2> QED
        BY <2>1, <2>2, <2>3 DEF IInv
<1> QED
    BY <1>1, <1>2, <1>3, <1>4 DEF Next

LEMMA AlwaysIInv == Spec => []IInv
BY InitIInv, NextIInv, PTL DEF Spec

-----------------------------------------------------------------------------
(* The theorems.                                                            *)

\* Type correctness: at every step of every addition and deletion the files,
\* what the command holds of them and the servers are what they should be; a
\* server that runs without its files is none that obd counts as running.
THEOREM ChangeTypeCorrect == Spec => []TypeOK
<1>1. IInv => TypeOK
    BY DEF IInv
<1> QED
    BY <1>1, AlwaysIInv, PTL

\* As long as every write that begins is made, each component in .data has a
\* configuration wherever obd is killed: later commands can load the deployment
\* (add_components dumps config.yaml first, delete_components .data).
THEOREM AlwaysLoadable == Spec => []RecordedConfigured
<1>1. IInv => RecordedConfigured
    BY DEF IInv, Loaded, Written, RecordedConfigured
<1> QED
    BY <1>1, AlwaysIInv, PTL

\* What a step of a deletion at work stops or removes belongs to a component
\* to delete.
LEMMA ErasureStays ==
    ASSUME IInv, [Next]_vars, Erasing
    PROVE  (up \ up') \cup (files \ files') \subseteq At(Of(cmd.sites))
<1> USE DEF Erasing
<1>1. CASE EraseServers
    <2>1. (up \ up') \cup (files \ files') \subseteq {i \in config.sites : i[1] \in Erased}
        BY <1>1 DEF EraseServers, Delete
    <2> QED
        BY <2>1, ErasedSites DEF At, IInv, TypeOK, Configs
<1>2. CASE WebEraseServers
    <2>1. (up \ up') \cup (files \ files') \subseteq cmd.sites
        BY <1>2 DEF WebEraseServers, Delete
    <2> QED
        BY <2>1 DEF At, Of, IInv, TypeOK, Commands, NoCommand
<1>3. CASE UNCHANGED <<up, files>>
    BY <1>3
<1>4. (Crash => UNCHANGED <<up, files>>) /\ \A i \in Sites : ~Die(i)
    BY DEF Crash, Die, Mishap, cluster
<1>5. CASE Command
    BY <1>5 DEF Command, AddComponents, WebAddComponents, ScaleOut, DeleteComponents,
       WebDelComponent, RemoveComponent, Remove, Begin, StartCluster, StopCluster
<1>6. CASE Proceeding
    BY <1>1, <1>2, <1>6 DEF Proceeding, InitServers, StartServers, WebStartServers,
       DumpDeployConfig, DumpDeployInfo, TearDeployInfo, RestartAdded, cluster
<1> QED
    BY <1>3, <1>4, <1>5, <1>6 DEF Next, vars

\* Without a kill or a failed write a deletion, on the console or in the web
\* service, works on the servers of the components it is given alone; that
\* get_workflows takes an empty list of components for all never matters then.
THEOREM OnlyNamedErased == Spec => ErasesOnlyNamed
<1>1. IInv /\ [Next]_vars
      => [Erasing => (up \ up') \cup (files \ files') \subseteq At(Of(cmd.sites))]_vars
    BY ErasureStays
<1> QED
    BY <1>1, AlwaysIInv, PTL DEF Spec, ErasesOnlyNamed

\* The servers of a component that another one depends on are not removed
\* unless that one is deleted too (DeployConfig.del_components).
THEOREM NeededKept == Spec => NeededStays
<1>1. IInv /\ [Next]_vars
      => [Erasing => \A p \in Depends(config) :
            p[1] \in Of(cmd.sites) \/ files \cap At({p[2]}) \subseteq files']_vars
    <2> SUFFICES ASSUME IInv, [Next]_vars, Erasing,
                        NEW p \in Depends(config), p[1] \notin Of(cmd.sites)
                 PROVE  files \cap At({p[2]}) \subseteq files'
        OBVIOUS
    <2>1. p[2] \notin Of(cmd.sites)
        BY DEF IInv, Chosen, Removable, Erasing
    <2>2. files \ files' \subseteq At(Of(cmd.sites))
        BY ErasureStays
    <2> QED
        BY <2>1, <2>2 DEF At
<1> QED
    BY <1>1, AlwaysIInv, PTL DEF Spec, NeededStays

\* When config.yaml loses a component that can be erased, its servers have been
\* stopped: none is left running that no command finds any more, but those that
\* a stop left running although it reported success.
THEOREM DeletedStopped == Spec => DeletedIsGone
<1>1. IInv /\ [Next]_vars
      => [pc = "config" /\ cmd.op \in {"del", "web del"} /\ Unharmed'
          => \A i \in config.sites \ config'.sites : i[1] \in Erasable =>
                i \notin up' /\ (i \in lost' => "stay" \in mishaps)]_vars
    <2> SUFFICES ASSUME IInv, Next, pc = "config", cmd.op \in {"del", "web del"}, Unharmed',
                        NEW i \in config.sites \ config'.sites, i[1] \in Erasable
                 PROVE  i \notin up' /\ (i \in lost' => "stay" \in mishaps)
        OBVIOUS
    <2>1. config' # config
        OBVIOUS
    <2>2. DumpDeployConfig
        BY <2>1 DEF Next, Command, Proceeding, Crash, Die, disk, AddComponents, WebAddComponents,
           ScaleOut, DeleteComponents, WebDelComponent, RemoveComponent, Remove, Begin,
           StartCluster, StopCluster, InitServers, StartServers, WebStartServers, EraseServers,
           WebEraseServers, DumpDeployInfo, TearDeployInfo, RestartAdded
    <2>3. config' = mem.config /\ up' = up /\ lost' = lost /\ Unharmed
        BY <2>1, <2>2 DEF DumpDeployConfig, cluster, Mishap, Unharmed, Written
    <2>4. i \in cmd.sites
        BY <2>3 DEF IInv, Stopped
    <2> QED
        BY <2>3, <2>4 DEF IInv, Stopped, LostStayed
<1> QED
    BY <1>1, AlwaysIInv, PTL DEF Spec, DeletedIsGone
===============================================================================
