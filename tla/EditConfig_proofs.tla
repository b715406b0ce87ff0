-------------------------- MODULE EditConfig_proofs --------------------------
(***************************************************************************)
(* Theorems about edit-config (module EditConfig), for any components,     *)
(* parameters and drafts.                                                  *)
(*                                                                         *)
(* What is recorded is decided long after most changes were looked at.     *)
(* The invariants say for every step of the loop what an effect tells of   *)
(* the draft, whatever drafts came before: Found, that it is not too weak; *)
(* Needed, that the first draft's is not too strong; Compared, which       *)
(* drafts have passed the comparison of the components; Untouched, that    *)
(* nothing was written yet.                                                *)
(***************************************************************************)
EXTENDS EditConfig, TLAPS

\* An effect is found, and the steps that find one are taken, for what is deployed.
OnlyDeployed ==
    config_status # "UNCHNAGE" \/ pc \in {"servers", "attrs", "rsync", "limits", "classify"}
        => IsDeployed

\* No component is looked at once a redeployment was found.
Broken == pc = "classify" /\ config_status = "NEED_REDEPLOY" => left = {}

\* The components that were classified and found short of a redeployment.
Covered ==
    \A c \in draft.comps \ (left \cup Changed) :
        /\ draft.items[c] # "NEED_REDEPLOY"
        /\ IsStarted => Rank[config_status] >= Rank[draft.items[c]]

Found ==
    config_status # "NEED_REDEPLOY" /\ IsDeployed =>
        /\ pc \in {"attrs", "rsync", "plugins", "values", "parameters", "unchanged", "limits",
                   "classify", "save"} => "servers" \notin draft.changes
        /\ pc \in {"rsync", "plugins", "values", "parameters", "unchanged", "limits",
                   "classify", "save"} => "attrs" \notin draft.changes
        /\ pc \in {"plugins", "values", "parameters", "unchanged", "limits",
                   "classify", "save"} => "rsync" \notin draft.changes
        /\ pc \in {"classify", "save"} =>
            /\ "user" \notin draft.changes
            /\ IsStarted => "limits" \notin draft.changes
            /\ Covered
        /\ pc = "save" => left = {}

IInv == TypeOK /\ OnlyDeployed /\ Broken /\ Found

LEMMA RankValues ==
    /\ Rank["UNCHNAGE"] = 0 /\ Rank["NEED_RELOAD"] = 1
    /\ Rank["NEED_RESTART"] = 2 /\ Rank["NEED_REDEPLOY"] = 3
BY DEF Rank, Effect

\* One more component makes the effect found no weaker (src/core.py:1055).
LEMMA ClassifiedGrows ==
    ASSUME NEW found \in Effect, NEW effect \in Effect
    PROVE  /\ Classified(found, effect) \in Effect
           /\ Rank[Classified(found, effect)] >= Rank[found] \/ found = "NEED_REDEPLOY"
           /\ Rank[Classified(found, effect)] >= Rank[effect]
           /\ effect = "NEED_REDEPLOY" => Classified(found, effect) = "NEED_REDEPLOY"
BY RankValues DEF Classified, Effect

LEMMA NoDraftIsDraft == NoDraft \in Draft
BY DEF NoDraft, Draft, Effect, Changes

\* Back to the editor, or the end of what came from a pipe (src/core.py:857).
LEMMA AgainOrRefused ==
    Again => pc' \in {"edit", "idle"} /\ (result' = result \/ result' = "refused")
<1> SUFFICES ASSUME Again
             PROVE  pc' \in {"edit", "idle"} /\ (result' = result \/ result' = "refused")
  OBVIOUS
<1>1. CASE piped
  BY <1>1 DEF Again, Return
<1>2. CASE ~piped
  BY <1>2 DEF Again, Go
<1> QED  BY <1>1, <1>2

LEMMA EditInit == Init => IInv
<1> SUFFICES ASSUME Init PROVE IInv
  OBVIOUS
<1>1. TypeOK
  <2>1. names \subseteq Names
    BY EditAssumption DEF Init
  <2>2. production \in BOOLEAN /\ piped \in BOOLEAN /\ wider \in BOOLEAN
    BY DEF Init
  <2>3. /\ status \in Status /\ old \subseteq Names
        /\ recorded = "UNCHNAGE" /\ recorded \in Effect /\ config_status \in Effect
        /\ pc \in Steps /\ draft \in Draft /\ drafts \in 0..2
        /\ added = {} /\ removed = {} /\ left = {} /\ written = {} /\ result = "none"
    BY NoDraftIsDraft DEF Init, Effect, Steps
  <2> QED  BY <2>1, <2>2, <2>3 DEF TypeOK
<1>2. OnlyDeployed /\ Broken /\ Found
  BY DEF Init, OnlyDeployed, Broken, Found
<1> QED  BY <1>1, <1>2 DEF IInv

-----------------------------------------------------------------------------
(* One lemma per action.                                                    *)

LEMMA BeginKeeps == ASSUME IInv, NEW p \in BOOLEAN, Begin(p) PROVE IInv'
<1>1. TypeOK'
  <2>1. piped' \in BOOLEAN /\ wider' \in BOOLEAN
    BY DEF Begin
  <2>2. /\ pc' \in Steps /\ old' \subseteq Names /\ drafts' \in 0..2 /\ written' = {}
        /\ draft' \in Draft /\ config_status' \in Effect
        /\ added' = {} /\ removed' = {} /\ left' = {}
        /\ UNCHANGED <<status, production, names, recorded, result>>
    BY NoDraftIsDraft DEF IInv, TypeOK, Begin, Go, Steps, Effect
  <2> QED  BY <2>1, <2>2 DEF IInv, TypeOK, IsDeployed
<1>2. OnlyDeployed' /\ Broken' /\ Found'
  BY DEF Begin, Go, OnlyDeployed, Broken, Found
<1> QED  BY <1>1, <1>2 DEF IInv

LEMMA GiveDraftKeeps == ASSUME IInv, NEW d \in Drafts, GiveDraft(d) PROVE IInv'
<1>1. TypeOK'
  BY AgainOrRefused, EditAssumption DEF IInv, TypeOK, GiveDraft, Go, Return, At, disk, IsDeployed, Steps
<1>2. OnlyDeployed' /\ Broken' /\ Found'
  BY AgainOrRefused DEF IInv, OnlyDeployed, Broken, Found, GiveDraft, Go, Return, At, disk, IsDeployed
<1> QED  BY <1>1, <1>2 DEF IInv

LEMMA CheckComponentsKeeps == ASSUME IInv, CheckComponents PROVE IInv'
<1>1. TypeOK'
  BY DEF IInv, TypeOK, CheckComponents, Go, Return, At, disk, loop, IsDeployed, Steps, Draft
<1>2. OnlyDeployed' /\ Broken' /\ Found'
  BY DEF IInv, OnlyDeployed, Broken, Found, CheckComponents, Go, Return, At, disk, loop, IsDeployed
<1> QED  BY <1>1, <1>2 DEF IInv

LEMMA CheckServersKeeps == ASSUME IInv, CheckServers PROVE IInv'
<1>1. TypeOK'
  <2>1. /\ pc' \in Steps /\ config_status' \in Effect
        /\ result' = result \/ result' = "refused"
        /\ UNCHANGED <<disk, loop, draft, added, removed, left>>
    BY AgainOrRefused DEF IInv, TypeOK, CheckServers, Go, Steps, Effect
  <2> QED  BY <2>1 DEF IInv, TypeOK, disk, loop, IsDeployed
<1>2. OnlyDeployed' /\ Broken' /\ Found'
  BY AgainOrRefused DEF IInv, OnlyDeployed, Broken, Found, CheckServers, Go, At, disk, loop, IsDeployed
<1> QED  BY <1>1, <1>2 DEF IInv

LEMMA CheckAttributesKeeps == ASSUME IInv, CheckAttributes PROVE IInv'
<1>1. TypeOK'
  <2>1. /\ pc' \in Steps /\ config_status' \in Effect
        /\ result' = result \/ result' = "refused"
        /\ UNCHANGED <<disk, loop, draft, added, removed, left>>
    BY AgainOrRefused DEF IInv, TypeOK, CheckAttributes, Go, Steps, Effect
  <2> QED  BY <2>1 DEF IInv, TypeOK, disk, loop, IsDeployed
<1>2. OnlyDeployed' /\ Broken' /\ Found'
  BY AgainOrRefused DEF IInv, OnlyDeployed, Broken, Found, CheckAttributes, Go, At, disk, loop, IsDeployed
<1> QED  BY <1>1, <1>2 DEF IInv

LEMMA CheckRsyncKeeps == ASSUME IInv, CheckRsync PROVE IInv'
<1>1. TypeOK'
  <2>1. /\ pc' \in Steps /\ config_status' \in Effect
        /\ result' = result \/ result' = "refused"
        /\ UNCHANGED <<disk, loop, draft, added, removed, left>>
    BY AgainOrRefused DEF IInv, TypeOK, CheckRsync, Go, Steps, Effect
  <2> QED  BY <2>1 DEF IInv, TypeOK, disk, loop, IsDeployed
<1>2. OnlyDeployed' /\ Broken' /\ Found'
  BY AgainOrRefused DEF IInv, OnlyDeployed, Broken, Found, CheckRsync, Go, At, disk, loop, IsDeployed
<1> QED  BY <1>1, <1>2 DEF IInv

LEMMA LoadPluginsKeeps == ASSUME IInv, LoadPlugins PROVE IInv'
<1>1. TypeOK'
  BY DEF IInv, TypeOK, LoadPlugins, Go, Return, At, disk, loop, IsDeployed, Steps
<1>2. OnlyDeployed' /\ Broken' /\ Found'
  BY DEF IInv, OnlyDeployed, Broken, Found, LoadPlugins, Go, Return, At, disk, loop, IsDeployed
<1> QED  BY <1>1, <1>2 DEF IInv

LEMMA CheckReadOnlyKeeps == ASSUME IInv, CheckReadOnly PROVE IInv'
<1>1. TypeOK'
  BY DEF IInv, TypeOK, CheckReadOnly, Go, Return, At, disk, loop, IsDeployed, Steps
<1>2. OnlyDeployed' /\ Broken' /\ Found'
  BY DEF IInv, OnlyDeployed, Broken, Found, CheckReadOnly, Go, Return, At, disk, loop, IsDeployed
<1> QED  BY <1>1, <1>2 DEF IInv

LEMMA CheckParametersKeeps == ASSUME IInv, CheckParameters PROVE IInv'
<1>1. TypeOK'
  BY DEF IInv, TypeOK, CheckParameters, Go, Return, At, loop, IsDeployed, Steps, Draft
<1>2. OnlyDeployed' /\ Broken' /\ Found'
  BY DEF IInv, OnlyDeployed, Broken, Found, CheckParameters, Go, Return, At, loop, IsDeployed
<1> QED  BY <1>1, <1>2 DEF IInv

LEMMA CheckUnchangedKeeps == ASSUME IInv, CheckUnchanged PROVE IInv'
<1>1. TypeOK'
  BY DEF IInv, TypeOK, CheckUnchanged, Go, Return, At, disk, loop, IsDeployed, Steps
<1>2. OnlyDeployed' /\ Broken' /\ Found'
  BY DEF IInv, OnlyDeployed, Broken, Found, CheckUnchanged, Go, Return, At, disk, loop, IsDeployed
<1> QED  BY <1>1, <1>2 DEF IInv

LEMMA CheckLimitsKeeps == ASSUME IInv, CheckLimits PROVE IInv'
<1>1. TypeOK'
  <2>1. draft.comps \subseteq Names
    BY DEF IInv, TypeOK, Draft
  <2>2. config_status' \in Effect /\ left' \subseteq Names
    BY <2>1 DEF IInv, TypeOK, CheckLimits, Effect
  <2>3. /\ pc' \in Steps
        /\ result' = result \/ result' = "refused"
        /\ UNCHANGED <<disk, loop, draft, added, removed>>
    BY AgainOrRefused DEF CheckLimits, Go, Return, Steps
  <2> QED  BY <2>2, <2>3 DEF IInv, TypeOK, disk, loop, IsDeployed
<1>2. OnlyDeployed' /\ Broken'
  BY AgainOrRefused DEF IInv, OnlyDeployed, Broken, CheckLimits, Go, Return, At, disk, loop, IsDeployed
<1>3. Found'
  <2> SUFFICES ASSUME config_status' # "NEED_REDEPLOY", IsDeployed', pc' = "classify"
               PROVE  Found'
    BY AgainOrRefused DEF IInv, Found, CheckLimits, Go, Return, At, disk, loop, IsDeployed
  <2>1. /\ config_status' = config_status /\ left' = draft.comps
        /\ "user" \notin draft.changes /\ (IsStarted => "limits" \notin draft.changes)
        /\ UNCHANGED <<draft, status>>
    BY AgainOrRefused DEF CheckLimits, Go, Return, disk
  <2> QED  BY <2>1 DEF IInv, Found, Covered, CheckLimits, At, IsDeployed, IsStarted
<1> QED  BY <1>1, <1>2, <1>3 DEF IInv

LEMMA ClassifyComponentKeeps == ASSUME IInv, NEW c \in Names, ClassifyComponent(c) PROVE IInv'
<1>1. config_status \in Effect /\ draft.items[c] \in Effect /\ pc = "classify" /\ pc' = pc
  BY DEF IInv, TypeOK, ClassifyComponent, At, Draft
<1>2. TypeOK'
  BY <1>1, ClassifiedGrows DEF IInv, TypeOK, ClassifyComponent, disk, loop, IsDeployed
<1>3. OnlyDeployed' /\ Broken'
  BY <1>1 DEF IInv, OnlyDeployed, Broken, ClassifyComponent, disk, IsDeployed
<1>4. Found'
  <2> SUFFICES ASSUME config_status' # "NEED_REDEPLOY", IsDeployed' PROVE Found'
    BY DEF Found
  <2>1. config_status # "NEED_REDEPLOY" /\ IsDeployed
    <3>1. left # {} /\ status' = status
      BY DEF ClassifyComponent, disk
    <3> QED  BY <1>1, <3>1 DEF IInv, Broken, IsDeployed
  <2>2. Covered /\ left' = left \ {c} /\ UNCHANGED <<draft, status, added, removed>>
    BY <1>1, <2>1 DEF IInv, Found, ClassifyComponent, disk
  <2>3. ASSUME NEW k \in draft.comps \ (left' \cup Changed)
        PROVE  /\ draft.items[k] # "NEED_REDEPLOY"
               /\ IsStarted => Rank[config_status'] >= Rank[draft.items[k]]
    <3>1. k \in Names /\ draft.items[k] \in Effect
      BY DEF IInv, TypeOK, Draft
    <3>2. CASE k = c
      BY <1>1, <2>3, <3>2, ClassifiedGrows DEF ClassifyComponent
    <3>3. CASE k # c
      <4>1. draft.items[k] # "NEED_REDEPLOY"
            /\ (IsStarted => Rank[config_status] >= Rank[draft.items[k]])
        BY <2>2, <2>3, <3>3 DEF Covered
      <4>2. config_status' = config_status \/ Rank[config_status'] >= Rank[config_status]
        BY <1>1, <2>1, ClassifiedGrows DEF ClassifyComponent
      <4> QED  BY <1>1, <3>1, <4>1, <4>2, RankValues DEF Effect, ClassifyComponent, Classified
    <3> QED  BY <3>2, <3>3
  <2>4. Covered'
    BY <2>2, <2>3 DEF Covered, Changed, IsStarted
  <2> QED  BY <1>1, <2>1, <2>2, <2>4 DEF IInv, Found, IsStarted
<1> QED  BY <1>2, <1>3, <1>4 DEF IInv

LEMMA SettleKeeps == ASSUME IInv, Settle PROVE IInv'
<1>1. TypeOK'
  BY DEF IInv, TypeOK, Settle, Go, At, disk, loop, IsDeployed, Steps, Effect
<1>2. OnlyDeployed' /\ Broken'
  BY DEF IInv, OnlyDeployed, Broken, Settle, Go, At, disk, IsDeployed
<1>3. Found'
  BY DEF IInv, Found, Covered, Changed, Settle, Go, At, disk, IsDeployed, IsStarted
<1> QED  BY <1>1, <1>2, <1>3 DEF IInv

LEMMA EndKeeps == ASSUME IInv, Refuse \/ SaveConfig \/ TellComponents \/ SaveWaiting PROVE IInv'
<1>1. TypeOK'
  <2>1. CASE Refuse
    BY <2>1 DEF IInv, TypeOK, Refuse, Return, disk, loop, IsDeployed, Steps
  <2>2. CASE SaveConfig
    BY <2>2 DEF IInv, TypeOK, OnlyDeployed, SaveConfig, Return, loop, IsDeployed, Steps, Status, Effect, Draft
  <2>3. CASE TellComponents
    BY <2>3 DEF IInv, TypeOK, TellComponents, Return, disk, loop, IsDeployed, Steps
  <2>4. CASE SaveWaiting
    BY <2>4 DEF IInv, TypeOK, OnlyDeployed, SaveWaiting, Return, loop, IsDeployed, Steps
  <2> QED  BY <2>1, <2>2, <2>3, <2>4
<1>2. OnlyDeployed' /\ Broken' /\ Found'
  BY DEF IInv, OnlyDeployed, Broken, Found, Refuse, SaveConfig, TellComponents, SaveWaiting, Return, disk,
         IsDeployed
<1> QED  BY <1>1, <1>2 DEF IInv

LEMMA EditNext == IInv /\ [Next]_vars => IInv'
<1> SUFFICES ASSUME IInv, [Next]_vars PROVE IInv'
  OBVIOUS
<1>1. CASE UNCHANGED vars
  BY <1>1 DEF IInv, TypeOK, OnlyDeployed, Broken, Found, Covered, Changed, vars, disk, loop, IsDeployed, IsStarted
<1>2. CASE Check
  BY <1>2, CheckComponentsKeeps, CheckServersKeeps, CheckAttributesKeeps, CheckRsyncKeeps,
     LoadPluginsKeeps, CheckReadOnlyKeeps, CheckParametersKeeps, CheckUnchangedKeeps,
     CheckLimitsKeeps DEF Check
<1> QED
  BY <1>1, <1>2, BeginKeeps, GiveDraftKeeps, ClassifyComponentKeeps, SettleKeeps, EndKeeps DEF Next

-----------------------------------------------------------------------------
(* The theorems.                                                            *)

\* Every variable of the edit loop keeps its type, and nothing but a deployed cluster has a
\* change that waits (edit_deploy_config, src/core.py:709).
THEOREM EditTypeCorrect == Spec => []TypeOK
<1>1. IInv => TypeOK
  BY DEF IInv
<1> QED  BY <1>1, EditInit, EditNext, PTL DEF Spec

\* Only the two steps that write the draft end an edit as saved.
LEMMA SavingSteps == Next /\ Saves => SaveConfig \/ SaveWaiting
<1> SUFFICES ASSUME Next, Saves PROVE SaveConfig \/ SaveWaiting
  OBVIOUS
<1>1. pc = "save" /\ result' = "saved"
  BY DEF Saves
<1>2. ~ \E p \in BOOLEAN : Begin(p)
  BY <1>1 DEF Begin, At
<1>3. ~ \E d \in Drafts : GiveDraft(d)
  BY <1>1 DEF GiveDraft, At
<1>4. ~Check
  BY <1>1 DEF Check, CheckComponents, CheckServers, CheckAttributes, CheckRsync, LoadPlugins,
              CheckReadOnly, CheckParameters, CheckUnchanged, CheckLimits, At
<1>5. ~ \E c \in Names : ClassifyComponent(c)
  BY <1>1 DEF ClassifyComponent, At
<1>6. ~Settle /\ ~Refuse /\ ~TellComponents
  BY <1>1 DEF Settle, Refuse, TellComponents, Return, At
<1> QED  BY <1>2, <1>3, <1>4, <1>5, <1>6 DEF Next

\* What a saved draft needs was found, when it is saved.
LEMMA SavesEnough ==
    ASSUME IInv, Next, Saves, IsDeployed,
           NEW e \in Effect \ {"UNCHNAGE"}, Needs(e)
    PROVE  Rank[config_status] >= Rank[e]
<1>1. SaveConfig \/ SaveWaiting
  BY SavingSteps
<1>2. Changed = {}
  BY <1>1 DEF SaveConfig, SaveWaiting
<1>3. config_status \in Effect
  BY DEF IInv, TypeOK
<1>4. CASE config_status = "NEED_REDEPLOY"
  BY <1>4, RankValues DEF Effect
<1>5. CASE config_status # "NEED_REDEPLOY"
  <2>1. /\ draft.changes \cap {"servers", "attrs", "rsync", "user"} = {}
        /\ IsStarted => "limits" \notin draft.changes
        /\ Covered /\ left = {}
    BY <1>5 DEF IInv, Found, Saves
  <2>2. \A c \in draft.comps : draft.items[c] # "NEED_REDEPLOY"
    BY <1>2, <2>1 DEF Covered
  <2>3. ~NeedsRedeploy
    BY <2>1, <2>2 DEF NeedsRedeploy, IsStarted
  <2>4. IsStarted /\ \E c \in draft.comps : draft.items[c] = e
    BY <2>3 DEF Needs, IsStarted
  <2>5. PICK c \in draft.comps : draft.items[c] = e
    BY <2>4
  <2>6. Rank[config_status] >= Rank[draft.items[c]]
    BY <1>2, <2>1, <2>4 DEF Covered, IsStarted
  <2> QED  BY <2>5, <2>6
<1> QED  BY <1>4, <1>5

\* However many drafts were refused, the effect recorded for a draft of a deployed cluster is
\* at least what each of its changes needs (src/core.py:996).
THEOREM EffectIsEnough == Spec => EffectEnough
<1>1. IInv /\ [Next]_vars =>
        [Saves /\ IsDeployed =>
            \A e \in Effect \ {"UNCHNAGE"} : Needs(e) => Rank[config_status] >= Rank[e]]_vars
  BY SavesEnough DEF vars, Saves
<1> QED  BY <1>1, EditInit, EditNext, PTL DEF Spec, EffectEnough

-----------------------------------------------------------------------------
(* An edit that is not accepted.                                            *)

\* Without a draft that has a component more nothing is ever added, and
\* nothing is written before the draft is accepted.
Untouched ==
    ~wider => /\ draft.comps \subseteq old /\ added = {}
              /\ pc # "idle" \/ result # "saved" => written = {}

LEMMA UntouchedNext == Untouched /\ [Next]_vars => Untouched'
<1> SUFFICES ASSUME Untouched, [Next]_vars PROVE Untouched'
  OBVIOUS
<1>1. CASE UNCHANGED vars
  BY <1>1 DEF vars, disk, loop, Untouched
<1>2. ASSUME NEW p \in BOOLEAN, Begin(p) PROVE Untouched'
  BY <1>2 DEF Begin, Untouched, NoDraft, Go
<1>3. ASSUME NEW d \in Drafts, GiveDraft(d) PROVE Untouched'
  BY <1>3, AgainOrRefused DEF GiveDraft, Untouched, Go, Return, At, disk
<1>4. ASSUME CheckComponents \/ LoadPlugins \/ CheckReadOnly \/ CheckParameters \/ CheckUnchanged
      PROVE  Untouched'
  BY <1>4 DEF CheckComponents, LoadPlugins, CheckReadOnly, CheckParameters, CheckUnchanged,
              Untouched, Go, Return, At, disk, loop
<1>5. ASSUME CheckServers \/ CheckAttributes \/ CheckRsync \/ CheckLimits PROVE Untouched'
  <2>1. /\ UNCHANGED <<disk, loop, draft, added>> /\ pc # "idle"
        /\ pc' # "idle" \/ result' = "refused"
    BY <1>5 DEF CheckServers, CheckAttributes, CheckRsync, CheckLimits, At, Go, Again, Return
  <2> QED  BY <2>1 DEF Untouched, disk, loop
<1>6. ASSUME NEW c \in Names, ClassifyComponent(c) PROVE Untouched'
  BY <1>6 DEF ClassifyComponent, Untouched, At, disk, loop
<1>7. CASE Settle
  BY <1>7 DEF Settle, Untouched, Go, At, disk, loop
<1>8. CASE Refuse \/ SaveConfig \/ TellComponents \/ SaveWaiting
  BY <1>8 DEF Refuse, SaveConfig, TellComponents, SaveWaiting, Untouched, Return, At, disk, loop
<1> QED  BY <1>1, <1>2, <1>3, <1>4, <1>5, <1>6, <1>7, <1>8 DEF Next, Check

\* An edit that ends in an error or changes nothing has written nothing
\* (edit_deploy_config, src/core.py:709), whatever the user gave, as long as
\* no draft had a component more.
THEOREM RefusedIsHarmless == Spec => []RefusedWritesNothing
<1>1. Init => Untouched
  BY DEF Init, Untouched, NoDraft
<1>2. Untouched => RefusedWritesNothing
  BY DEF Untouched, RefusedWritesNothing
<1> QED  BY <1>1, <1>2, UntouchedNext, PTL DEF Spec

-----------------------------------------------------------------------------
(* The components of a deployed cluster.                                    *)

Checked == {"servers", "attrs", "rsync", "plugins", "values", "parameters", "unchanged",
            "limits", "classify", "save"}

\* What the command knows of the components: the ones in force are the ones
\* it has loaded; a difference that was seen is in the two lists, which may
\* be those of an earlier draft if there is none; and a draft of a deployed
\* cluster that has a component more does not get past the values.
Compared ==
    /\ IsDeployed /\ pc # "idle" => names = old
    /\ pc \in Checked /\ status # "NONE" /\ draft.comps # old =>
        added = draft.comps \ old /\ removed = old \ draft.comps
    /\ pc \in {"parameters", "unchanged", "limits", "classify", "save"} /\ IsDeployed =>
        draft.comps \subseteq old

LEMMA ComparedNext == Compared /\ [Next]_vars => Compared'
<1> SUFFICES ASSUME Compared, [Next]_vars PROVE Compared'
  OBVIOUS
<1>1. CASE UNCHANGED vars
  BY <1>1 DEF vars, disk, loop, Compared, IsDeployed
<1>2. ASSUME NEW p \in BOOLEAN, Begin(p) PROVE Compared'
  BY <1>2 DEF Begin, Compared, Go, IsDeployed, Checked
<1>3. ASSUME NEW d \in Drafts, GiveDraft(d) PROVE Compared'
  BY <1>3, AgainOrRefused DEF GiveDraft, Compared, Go, Return, At, disk, IsDeployed, Checked
<1>4. CASE CheckComponents
  BY <1>4 DEF CheckComponents, Compared, Go, Return, At, disk, loop, IsDeployed, Checked
<1>5. ASSUME CheckServers \/ CheckAttributes \/ CheckRsync \/ LoadPlugins PROVE Compared'
  <2>1. /\ UNCHANGED <<disk, loop, draft, added, removed>> /\ pc \in Checked
        /\ pc' \in {"edit", "idle", "attrs", "rsync", "plugins", "values"}
    BY <1>5, AgainOrRefused DEF CheckServers, CheckAttributes, CheckRsync, LoadPlugins, At, Go, Return,
                                Checked
  <2> QED  BY <2>1 DEF Compared, disk, loop, IsDeployed, Checked
<1>6. CASE CheckReadOnly
  BY <1>6 DEF CheckReadOnly, Compared, Go, Return, At, disk, loop, IsDeployed, Checked
<1>7. CASE CheckParameters
  <2>1. /\ pc = "parameters" /\ UNCHANGED <<status, old, draft, added, removed>>
        /\ pc' \in {"unchanged", "idle", "edit"}
    BY <1>7 DEF CheckParameters, At, Go, Return, loop
  <2>2. IsDeployed => names' = names
    <3> SUFFICES ASSUME IsDeployed, added # {} PROVE draft.comps = old /\ names = old
      BY <1>7 DEF CheckParameters
    <3> QED  BY <2>1 DEF Compared, Checked, IsDeployed
  <2> QED  BY <2>1, <2>2 DEF Compared, Checked, IsDeployed
<1>8. ASSUME CheckUnchanged \/ CheckLimits PROVE Compared'
  <2>1. /\ UNCHANGED <<disk, loop, draft, added, removed>> /\ pc \in {"unchanged", "limits"}
        /\ pc' \in {"edit", "idle", "limits", "classify", "save"}
    BY <1>8, AgainOrRefused DEF CheckUnchanged, CheckLimits, At, Go, Return
  <2> QED  BY <2>1 DEF Compared, disk, loop, IsDeployed, Checked
<1>9. ASSUME NEW c \in Names, ClassifyComponent(c) PROVE Compared'
  BY <1>9 DEF ClassifyComponent, Compared, At, disk, loop, IsDeployed
<1>10. CASE Settle
  BY <1>10 DEF Settle, Compared, Go, At, disk, loop, IsDeployed, Checked
<1>11. CASE Refuse \/ SaveConfig \/ TellComponents \/ SaveWaiting
  BY <1>11 DEF Refuse, SaveConfig, TellComponents, SaveWaiting, Compared, Return, Checked
<1> QED
  BY <1>1, <1>2, <1>3, <1>4, <1>5, <1>6, <1>7, <1>8, <1>9, <1>10, <1>11 DEF Next, Check

\* Only two steps write the components, and neither another list of a
\* deployed cluster.
LEMMA NamesKept == ASSUME Compared, Next, IsDeployed PROVE names' = names
<1>1. CASE CheckParameters
  <2> SUFFICES ASSUME added # {} PROVE draft.comps = old /\ names = old
    BY <1>1 DEF CheckParameters
  <2> QED  BY <1>1 DEF CheckParameters, At, Compared, Checked, IsDeployed
<1>2. CASE SaveConfig
  <2>1. pc = "save" /\ Changed = {} /\ names' = draft.comps
    BY <1>2 DEF SaveConfig, At
  <2> QED  BY <2>1 DEF Compared, Checked, Changed, IsDeployed
<1>3. ASSUME NEW p \in BOOLEAN, Begin(p) PROVE names' = names
  BY <1>3 DEF Begin
<1>4. ASSUME NEW d \in Drafts, GiveDraft(d) PROVE names' = names
  BY <1>4 DEF GiveDraft, disk
<1>5. ASSUME NEW c \in Names, ClassifyComponent(c) PROVE names' = names
  BY <1>5 DEF ClassifyComponent, disk
<1>6. CASE Check /\ ~CheckParameters
  BY <1>6 DEF Check, CheckComponents, CheckServers, CheckAttributes, CheckRsync, LoadPlugins,
              CheckReadOnly, CheckUnchanged, CheckLimits, disk
<1>7. CASE Settle \/ Refuse \/ TellComponents \/ SaveWaiting
  BY <1>7 DEF Settle, Refuse, TellComponents, SaveWaiting, disk
<1> QED  BY <1>1, <1>2, <1>3, <1>4, <1>5, <1>6, <1>7 DEF Next

\* The components of a deployed cluster stay what they are, whatever drafts
\* with other components an edit has seen and dropped, and with whatever lists
\* of added and removed components (src/core.py:804) they left behind.
THEOREM DeployedComponentsKept == Spec => ComponentsKept
<1>1. Init => Compared
  BY DEF Init, Compared, Checked
<1>2. Compared /\ [Next]_vars
        => [IsDeployed => names' = names /\ (Saves => draft.comps = names)]_vars
  <2> SUFFICES ASSUME Compared, Next, IsDeployed
               PROVE  names' = names /\ (Saves => draft.comps = names)
    OBVIOUS
  <2>1. names' = names
    BY NamesKept
  <2>2. ASSUME Saves PROVE draft.comps = names
    <3>1. pc = "save" /\ Changed = {}
      BY <2>2, SavingSteps DEF SaveConfig, SaveWaiting, At
    <3> QED  BY <3>1 DEF Compared, Checked, Changed, IsDeployed
  <2> QED  BY <2>1, <2>2
<1> QED  BY <1>1, <1>2, ComparedNext, PTL DEF Spec, ComponentsKept

-----------------------------------------------------------------------------
(* The effect of the first draft.                                           *)

\* The effect found for the first draft is the one of a change of it.
Needed ==
    IsDeployed =>
        /\ pc = "edit" /\ drafts = 0 => config_status = "UNCHNAGE"
        /\ pc \notin {"idle", "edit"} => drafts # 0
        /\ pc = "classify" => left \subseteq draft.comps
        /\ pc \notin {"idle", "edit"} /\ drafts = 1 =>
            \/ config_status = "UNCHNAGE"
            \/ config_status = "NEED_REDEPLOY" /\ NeedsRedeploy
            \/ /\ pc = "classify" \/ (pc = "save" /\ IsStarted)
               /\ \E c \in draft.comps : draft.items[c] = config_status

LEMMA NeededNext == IInv /\ Needed /\ [Next]_vars => Needed'
<1> SUFFICES ASSUME IInv, Needed, [Next]_vars PROVE Needed'
  OBVIOUS
<1>1. CASE UNCHANGED vars
  BY <1>1 DEF vars, disk, loop, Needed, IsDeployed, IsStarted, NeedsRedeploy
<1>2. ASSUME NEW p \in BOOLEAN, Begin(p) PROVE Needed'
  BY <1>2 DEF Begin, Needed, Go
<1>3. ASSUME NEW d \in Drafts, GiveDraft(d) PROVE Needed'
  <2>1. /\ pc = "edit" /\ pc' \in {"components", "edit", "idle"} /\ UNCHANGED <<status, config_status>>
        /\ drafts' = (IF drafts = 0 THEN 1 ELSE 2)
    BY <1>3, AgainOrRefused DEF GiveDraft, Go, Return, At, disk
  <2> QED  BY <2>1 DEF Needed, IsDeployed
<1>4. ASSUME CheckComponents \/ LoadPlugins \/ CheckReadOnly \/ CheckParameters \/ CheckUnchanged
      PROVE  Needed'
  <2>1. /\ UNCHANGED <<status, drafts, draft, config_status>>
        /\ pc \in {"components", "plugins", "values", "parameters", "unchanged"}
        /\ \/ pc' \in {"servers", "plugins", "values", "parameters", "unchanged", "limits", "save"}
           \/ pc' = "idle"
           \/ pc' = "edit" /\ pc = "parameters"
    BY <1>4 DEF CheckComponents, LoadPlugins, CheckReadOnly, CheckParameters, CheckUnchanged,
                At, Go, Return, disk, loop
  <2> QED  BY <2>1 DEF Needed, IsDeployed, IsStarted, NeedsRedeploy
<1>5. ASSUME CheckServers \/ CheckAttributes \/ CheckRsync PROVE Needed'
  <2>1. /\ UNCHANGED <<status, drafts, draft>> /\ pc \in {"servers", "attrs", "rsync"}
        /\ pc' \in {"edit", "idle", "attrs", "rsync", "plugins"}
        /\ \/ pc' \in {"edit", "idle"}
           \/ config_status' = config_status
           \/ config_status' = "NEED_REDEPLOY" /\ NeedsRedeploy
    BY <1>5, AgainOrRefused
       DEF CheckServers, CheckAttributes, CheckRsync, At, Go, disk, loop, NeedsRedeploy
  <2> QED  BY <2>1 DEF Needed, IsDeployed, IsStarted, NeedsRedeploy
<1>6. CASE CheckLimits
  <2>1. /\ UNCHANGED <<status, drafts, draft>> /\ pc = "limits"
        /\ pc' \in {"edit", "idle", "classify"} /\ left' \subseteq draft.comps
        /\ \/ config_status' = config_status
           \/ config_status' = "NEED_REDEPLOY" /\ NeedsRedeploy
    BY <1>6, AgainOrRefused DEF CheckLimits, At, Go, Return, disk, loop, NeedsRedeploy
  <2> QED  BY <2>1 DEF Needed, IsDeployed, IsStarted, NeedsRedeploy
<1>7. ASSUME NEW c \in Names, ClassifyComponent(c) PROVE Needed'
  <2>1. /\ UNCHANGED <<status, drafts, draft, pc>> /\ pc = "classify" /\ c \in left
        /\ left' \subseteq left
        /\ config_status' = config_status \/ config_status' = draft.items[c]
    BY <1>7 DEF ClassifyComponent, At, disk, loop, Classified
  <2>2. draft.items[c] = "NEED_REDEPLOY" /\ c \in draft.comps => NeedsRedeploy
    BY DEF NeedsRedeploy
  <2> QED  BY <2>1, <2>2 DEF Needed, IsDeployed, IsStarted, NeedsRedeploy
<1>8. CASE Settle
  <2>1. /\ UNCHANGED <<status, drafts, draft>> /\ pc = "classify" /\ pc' = "save"
        /\ \/ config_status' = "UNCHNAGE"
           \/ config_status' = config_status
              /\ (status # "DEPLOYED" \/ config_status = "NEED_REDEPLOY")
    BY <1>8 DEF Settle, At, Go, disk, loop
  <2>2. IsDeployed /\ status # "DEPLOYED" => IsStarted
    BY DEF IsDeployed, IsStarted
  <2>3. config_status = "NEED_REDEPLOY" /\ (\E c \in draft.comps : draft.items[c] = config_status)
            => NeedsRedeploy
    BY DEF NeedsRedeploy
  <2> QED  BY <2>1, <2>2, <2>3 DEF Needed, IsDeployed, IsStarted, NeedsRedeploy
<1>9. CASE Refuse \/ SaveConfig \/ TellComponents \/ SaveWaiting
  BY <1>9 DEF Refuse, SaveConfig, TellComponents, SaveWaiting, Needed, Return
<1> QED  BY <1>1, <1>2, <1>3, <1>4, <1>5, <1>6, <1>7, <1>8, <1>9 DEF Next, Check

\* Nobody is told to redeploy, or to restart, for a change that needs less:
\* what is recorded for the first draft given is needed by one of its changes
\* (src/core.py:996, 1055).
THEOREM EffectIsNeeded == Spec => EffectNeeded
<1>1. Init => IInv /\ Needed
  BY EditInit DEF Init, Needed
<1>2. IInv /\ Needed /\ [Next]_vars
        => [Saves /\ IsDeployed /\ drafts = 1 =>
              config_status = "UNCHNAGE" \/ Needs(config_status)]_vars
  <2> SUFFICES ASSUME Needed, pc = "save", IsDeployed, drafts = 1, config_status # "UNCHNAGE"
               PROVE  Needs(config_status)
    BY DEF Saves
  <2>1. \/ config_status = "NEED_REDEPLOY" /\ NeedsRedeploy
        \/ IsStarted /\ \E c \in draft.comps : draft.items[c] = config_status
    BY DEF Needed
  <2>2. CASE config_status = "NEED_REDEPLOY"
    BY <2>1, <2>2 DEF Needs, NeedsRedeploy
  <2>3. CASE config_status # "NEED_REDEPLOY"
    BY <2>1, <2>3 DEF Needs
  <2> QED  BY <2>2, <2>3
<1> QED  BY <1>1, <1>2, EditNext, NeededNext, PTL DEF Spec, EffectNeeded
=============================================================================
