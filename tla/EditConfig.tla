----------------------------- MODULE EditConfig -----------------------------
(***************************************************************************)
(* The loop of obd cluster edit-config (edit_deploy_config in              *)
(* src/core.py): the user edits a draft until it passes every check or     *)
(* gives up, and the command decides what the change needs to take effect  *)
(* - nothing, a reload, a restart or a redeploy - and records it.  What    *)
(* it has learnt of one draft (config_status and the lists of added and    *)
(* removed components) is still there when it checks the next one.         *)
(*                                                                         *)
(* A draft is its difference to the configuration in force, which is what  *)
(* every check of the code looks at.  Only the effect of the draft that    *)
(* waits in tmp_config.yaml is remembered.  The deployment is locked       *)
(* meanwhile; failing writes and kills are those of module Lifecycle,      *)
(* which leaves the effect of an edit open.                                *)
(***************************************************************************)
EXTENDS FiniteSets, Naturals

CONSTANTS
    Names,      \* the components there are
    Installed,  \* those of the configuration in force
    Described,  \* those with a parameter plugin
    Depends,    \* pairs: the first component depends on the second
    Drafts      \* what the user may write

Effect  == {"UNCHNAGE", "NEED_RELOAD", "NEED_RESTART", "NEED_REDEPLOY"}
Changes == {"servers", "attrs", "rsync", "user", "limits", "read_only"}

Draft == [comps : SUBSET Names, changes : SUBSET Changes, items : [Names -> Effect],
          errors : BOOLEAN]

NoDraft == [comps |-> {}, changes |-> {}, items |-> [c \in Names |-> "UNCHNAGE"], errors |-> FALSE]

ASSUME EditAssumption ==
    /\ Installed \subseteq Names /\ Installed # {} /\ Described \subseteq Names
    /\ Depends \subseteq Names \X Names
    /\ Drafts \subseteq Draft

VARIABLES
    status,        \* of the deployment
    production,    \* production_mode of an OceanBase component that is deployed
    names,         \* the components in config.yaml
    recorded,      \* the config status in .data
    pc,            \* what the command does next
    piped,         \* the draft comes from a pipe, so that nobody can answer
    old,           \* the components of the configuration the command has loaded
    draft,         \* the draft
    drafts,        \* history: how many drafts the user gave: 0, 1, or 2 for more
    wider,         \* history: one of them had a component more
    config_status, \* the effect found so far
    added, removed,\* the components found to be added and removed
    left,          \* the components that are not classified yet
    written,       \* history: the files this command has written
    result         \* how the last command ended

loop == <<piped, old, drafts, wider>>
disk == <<status, production, names, recorded, written>>
vars == <<disk, loop, pc, draft, config_status, added, removed, left, result>>

Status    == {"NONE", "CONFIGURED", "DEPLOYED", "STOPPED", "RUNNING", "DESTROYED"}
IsDeployed == status \in {"DEPLOYED", "STOPPED", "RUNNING"}
IsStarted  == status \in {"STOPPED", "RUNNING"}

Steps == {"idle", "edit", "components", "servers", "attrs", "rsync", "plugins", "values",
          "parameters", "unchanged", "limits", "classify", "save"}

TypeOK ==
    /\ status \in Status /\ production \in BOOLEAN
    /\ names \subseteq Names /\ old \subseteq Names
    /\ recorded \in Effect /\ (recorded # "UNCHNAGE" => IsDeployed)
    /\ pc \in Steps /\ piped \in BOOLEAN
    /\ draft \in Draft /\ drafts \in 0..2 /\ wider \in BOOLEAN
    /\ config_status \in Effect
    /\ added \subseteq Names /\ removed \subseteq Names /\ left \subseteq Names
    /\ written \subseteq {"config", "status", "tmp"}
    /\ result \in {"none", "saved", "unchanged", "told", "refused", "raised"}

Init ==
    /\ status \in Status /\ production \in BOOLEAN /\ (production => IsDeployed)
    /\ names = (IF status = "NONE" THEN {} ELSE Installed)
    /\ recorded = "UNCHNAGE"
    /\ pc = "idle" /\ piped = FALSE /\ old = {} /\ draft = NoDraft /\ drafts = 0 /\ wider = FALSE
    /\ config_status = "UNCHNAGE" /\ added = {} /\ removed = {} /\ left = {}
    /\ written = {} /\ result = "none"

Changed == added \cup removed

Same == [NoDraft EXCEPT !.comps = old]

\* The draft may be the text the editor has opened: that of config.yaml, or
\* of tmp_config.yaml if a change waits.
MayBeInitial == draft = Same \/ recorded # "UNCHNAGE"

At(step) == pc = step

Go(step) == pc' = step /\ UNCHANGED result

\* The end of the command.
Return(how) == pc' = "idle" /\ result' = how

\* Back to the editor; what comes from a pipe cannot be edited again.
Again == IF piped THEN Return("refused") ELSE Go("edit")

\* confirm: a question nobody can answer is answered with no.
Confirm(yes) == yes => ~piped

-----------------------------------------------------------------------------
(* One step of the loop after the other.                                    *)

Begin(p) ==
    /\ At("idle")
    /\ Go("edit")
    /\ piped' = p /\ old' = names /\ drafts' = 0 /\ wider' = FALSE /\ written' = {}
    /\ draft' = NoDraft
    /\ config_status' = "UNCHNAGE" /\ added' = {} /\ removed' = {} /\ left' = {}
    /\ UNCHANGED <<status, production, names, recorded>>

GiveDraft(d) ==
    /\ At("edit")
    /\ draft' = d /\ drafts' = (IF drafts = 0 THEN 1 ELSE 2)
    /\ wider' = (wider \/ d.comps \ old # {})
    /\ \/ d.comps # {} /\ Go("components")
       \/ d.comps = {} /\ (Again \/ Return("refused"))
    /\ UNCHANGED <<disk, piped, old, config_status, added, removed, left>>

\* DeployConfig.del_components, as a dry run: some components are left, and
\* none of them needs one that is removed.
MayRemove(comps) ==
    /\ old \ comps # {}
    /\ \A d \in Depends : d[1] \in old \ comps /\ d[2] \in old => d[2] \notin comps

\* Mutant of CheckComponents: what is not deployed is checked like the rest.
CheckComponentsAll ==
    /\ At("components")
    /\ UNCHANGED <<added, removed>>
    /\ Go("servers")
    /\ UNCHANGED <<disk, loop, draft, config_status, left>>

CheckComponents ==
    /\ At("components")
    /\ IF status # "NONE" /\ draft.comps # old
       THEN added' = draft.comps \ old /\ removed' = old \ draft.comps
       ELSE UNCHANGED <<added, removed>>
    /\ IF IsDeployed
       THEN IF (added' # {} /\ removed' # {}) \/ ~MayRemove(removed')
            THEN Return("refused") ELSE Go("servers")
       ELSE Go("plugins")
    /\ UNCHANGED <<disk, loop, draft, config_status, left>>

CheckServers ==
    /\ At("servers")
    /\ \/ /\ "servers" \notin draft.changes
          /\ Go(IF config_status = "NEED_REDEPLOY" THEN "plugins" ELSE "attrs")
          /\ UNCHANGED config_status
       \/ /\ "servers" \in draft.changes /\ Confirm(TRUE)
          /\ config_status' = "NEED_REDEPLOY" /\ Go("plugins")
       \/ /\ "servers" \in draft.changes
          /\ Again /\ UNCHANGED config_status
    /\ UNCHANGED <<disk, loop, draft, added, removed, left>>

\* The version, release, hash and tag of components.  The effect is noted
\* before the user is asked, and stays when the answer is no.
CheckAttributes ==
    /\ At("attrs")
    /\ \/ "attrs" \notin draft.changes /\ Go("rsync") /\ UNCHANGED config_status
       \/ /\ "attrs" \in draft.changes
          /\ config_status' = "NEED_REDEPLOY"
          /\ (Confirm(TRUE) /\ Go("plugins")) \/ Again
    /\ UNCHANGED <<disk, loop, draft, added, removed, left>>

CheckRsync ==
    /\ At("rsync")
    /\ \/ "rsync" \notin draft.changes /\ Go("plugins") /\ UNCHANGED config_status
       \/ /\ "rsync" \in draft.changes /\ Confirm(TRUE)
          /\ config_status' = "NEED_REDEPLOY" /\ Go("plugins")
       \/ "rsync" \in draft.changes /\ Again /\ UNCHANGED config_status
    /\ UNCHANGED <<disk, loop, draft, added, removed, left>>

\* The parameter plugins of the components in force are applied to those of
\* the draft, unless they are searched anew: a removed one is a KeyError.
LoadPlugins ==
    /\ At("plugins")
    /\ IF /\ IsDeployed /\ config_status # "NEED_REDEPLOY"
          /\ (old \cap Described) \ draft.comps # {}
       THEN Return("raised") ELSE Go("values")
    /\ UNCHANGED <<disk, loop, draft, config_status, added, removed, left>>

\* Read-only parameters and those that are not supported to modify.  Each
\* component of the draft is compared with its old configuration: one that
\* has none is a KeyError.
CheckReadOnly ==
    LET compares == status \notin {"NONE", "DESTROYED"}
        raises   == compares /\ draft.comps \ old # {}
        refuses  == compares /\ "read_only" \in draft.changes
    IN
    /\ At("values")
    /\ \/ raises /\ Return("raised")
       \/ refuses /\ Return("refused")
       \/ ~raises /\ ~refuses /\ Go("parameters")
    /\ UNCHANGED <<disk, loop, draft, config_status, added, removed, left>>

\* Mutant of CheckParameters: every draft is copied to config.yaml in order
\* to be checked.
CheckParametersInPlace ==
    /\ At("parameters")
    /\ names' = draft.comps /\ written' = written \cup {"config"}
    /\ \/ ~draft.errors /\ Go("unchanged")
       \/ draft.errors /\ (Return("refused") \/ (Confirm(TRUE) /\ Go("edit")))
    /\ UNCHANGED <<status, production, recorded, loop, draft, config_status, added, removed, left>>

\* With added components the draft is checked as a deployment of its own,
\* which has the name of this one: it replaces config.yaml at once.
CheckParameters ==
    /\ At("parameters")
    /\ IF added # {}
       THEN names' = draft.comps /\ written' = written \cup {"config"}
       ELSE UNCHANGED <<names, written>>
    /\ \/ ~draft.errors /\ Go("unchanged")
       \/ draft.errors /\ (Return("refused") \/ (Confirm(TRUE) /\ Go("edit")))
    /\ UNCHANGED <<status, production, recorded, loop, draft, config_status, added, removed, left>>

\* The text may differ where the configuration does not; what came from a
\* pipe is never found unchanged.
CheckUnchanged ==
    /\ At("unchanged")
    /\ \/ MayBeInitial /\ ~piped /\ Return("unchanged")
       \/ Go(IF IsDeployed /\ config_status # "NEED_REDEPLOY" THEN "limits" ELSE "save")
    /\ UNCHANGED <<disk, loop, draft, config_status, added, removed, left>>

\* The user of the deployment, and parameters that must not change, or only
\* grow or shrink, once the cluster was started.
CheckLimits ==
    LET found == IF "user" \in draft.changes THEN "NEED_REDEPLOY" ELSE config_status
        exceeded == IsStarted /\ "limits" \in draft.changes
    IN
    /\ At("limits")
    /\ \/ ~exceeded /\ Go("classify") /\ config_status' = found
       \/ exceeded /\ Confirm(TRUE) /\ Go("classify") /\ config_status' = "NEED_REDEPLOY"
       \/ exceeded /\ (Again \/ Return("refused")) /\ config_status' = found
    /\ left' = (IF config_status' = "NEED_REDEPLOY" THEN {} ELSE draft.comps)
    /\ UNCHANGED <<disk, loop, draft, added, removed>>

\* Mutant of Classified: the last component decides.
ClassifiedLast(found, effect) == IF effect = "UNCHNAGE" THEN found ELSE effect

\* The effect of the components seen so far and of one more.
Classified(found, effect) ==
    IF effect = "UNCHNAGE" \/ (effect = "NEED_RELOAD" /\ found # "UNCHNAGE")
    THEN found ELSE effect

ClassifyComponent(c) ==
    /\ At("classify") /\ c \in left
    /\ config_status' = (IF c \in Changed THEN config_status
                         ELSE Classified(config_status, draft.items[c]))
    /\ left' = (IF config_status' = "NEED_REDEPLOY" THEN {} ELSE left \ {c})
    /\ UNCHANGED <<disk, loop, pc, draft, added, removed, result>>

\* Mutant of Settle: what was never started needs what a started one does.
SettleAsStarted ==
    /\ At("classify") /\ left = {}
    /\ Go("save")
    /\ UNCHANGED <<disk, loop, draft, config_status, added, removed, left>>

\* A cluster that was not started will start with the new configuration.
Settle ==
    /\ At("classify") /\ left = {}
    /\ Go("save")
    /\ config_status' = (IF status = "DEPLOYED" /\ config_status # "NEED_REDEPLOY"
                         THEN "UNCHNAGE" ELSE config_status)
    /\ UNCHANGED <<disk, loop, draft, added, removed, left>>

-----------------------------------------------------------------------------
(* The end of edit_deploy_config.                                           *)

\* A production cluster is not redeployed; nor may configurations change
\* together with components.
Refuse ==
    /\ At("save")
    /\ \/ config_status = "NEED_REDEPLOY" /\ production
       \/ config_status # "UNCHNAGE" /\ Changed # {}
    /\ Return("refused")
    /\ UNCHANGED <<disk, loop, draft, config_status, added, removed, left>>

\* Mutant of SaveConfig: components come and go whatever the status.
SaveConfigAnyway ==
    /\ At("save") /\ config_status = "UNCHNAGE"
    /\ names' = draft.comps /\ recorded' = "UNCHNAGE"
    /\ status' = (IF status = "NONE" THEN "CONFIGURED" ELSE status)
    /\ written' = {"config", "status"}
    /\ Return("saved")
    /\ UNCHANGED <<production, loop, draft, config_status, added, removed, left>>

\* The draft becomes the configuration in force.
SaveConfig ==
    /\ At("save") /\ config_status = "UNCHNAGE"
    /\ Changed = {} \/ ~IsDeployed
    /\ names' = draft.comps /\ recorded' = "UNCHNAGE"
    /\ status' = (IF status = "NONE" THEN "CONFIGURED" ELSE status)
    /\ written' = {"config", "status"}
    /\ Return("saved")
    /\ UNCHANGED <<production, loop, draft, config_status, added, removed, left>>

\* The user is told of obd cluster component add or del.
TellComponents ==
    /\ At("save") /\ config_status = "UNCHNAGE"
    /\ Changed # {} /\ IsDeployed
    /\ (Confirm(TRUE) /\ Return("told")) \/ Return("refused")
    /\ UNCHANGED <<disk, loop, draft, config_status, added, removed, left>>

\* The draft waits for the command that makes it take effect.
SaveWaiting ==
    /\ At("save") /\ config_status # "UNCHNAGE" /\ Changed = {}
    /\ ~(config_status = "NEED_REDEPLOY" /\ production)
    /\ recorded' = config_status
    /\ written' = {"status", "tmp"}
    /\ Return("saved")
    /\ UNCHANGED <<status, production, names, loop, draft, config_status, added, removed, left>>

Check ==
    \/ CheckComponents \/ CheckServers \/ CheckAttributes \/ CheckRsync \/ LoadPlugins
    \/ CheckReadOnly \/ CheckParameters \/ CheckUnchanged \/ CheckLimits

Next ==
    \/ \E p \in BOOLEAN : Begin(p)
    \/ \E d \in Drafts : GiveDraft(d)
    \/ Check \/ (\E c \in Names : ClassifyComponent(c)) \/ Settle
    \/ Refuse \/ SaveConfig \/ TellComponents \/ SaveWaiting

Spec == Init /\ [][Next]_vars
-----------------------------------------------------------------------------
(* Properties.                                                              *)

Rank == [e \in Effect |->
    CASE e = "UNCHNAGE" -> 0 [] e = "NEED_RELOAD" -> 1
      [] e = "NEED_RESTART" -> 2 [] e = "NEED_REDEPLOY" -> 3]

\* What a draft needs, said without the loop.
NeedsRedeploy ==
    \/ draft.changes \cap {"servers", "attrs", "rsync", "user"} # {}
    \/ IsStarted /\ "limits" \in draft.changes
    \/ \E c \in draft.comps : draft.items[c] = "NEED_REDEPLOY"

Needs(e) ==
    IF e = "NEED_REDEPLOY" THEN NeedsRedeploy
    ELSE IsStarted /\ \E c \in draft.comps : draft.items[c] = e

Saves == written' # {} /\ pc = "save" /\ result' = "saved"

\* However many drafts were refused before, the effect recorded for a draft
\* of a deployed cluster is at least the strongest that one of its changes
\* needs: no parameter that needs a restart waits for a reload, and none is
\* put in force at once that needs either.
EffectEnough ==
    [][Saves /\ IsDeployed =>
        \A e \in Effect \ {"UNCHNAGE"} : Needs(e) => Rank[config_status] >= Rank[e]]_vars

\* When the first draft is accepted, what is recorded is needed: nobody is
\* told to redeploy for a parameter that a reload would change.
EffectNeeded ==
    [][Saves /\ IsDeployed /\ drafts = 1 =>
        config_status = "UNCHNAGE" \/ Needs(config_status)]_vars

\* The components of a deployed cluster change by component add and del
\* only, never by an edit, whatever drafts with other components it saw.
ComponentsKept ==
    [][IsDeployed => names' = names /\ (Saves => draft.comps = names)]_vars

\* An edit that ends in an error, or that changes nothing, has written
\* nothing, as long as it saw no draft with another component: that one,
\* or the next draft, is copied to config.yaml before anybody accepts it.
RefusedWritesNothing ==
    pc = "idle" /\ result # "saved" /\ ~wider => written = {}
=============================================================================
