---------------------------- MODULE WebTask_proofs ----------------------------
(***************************************************************************)
(* Theorems about the tasks of the web service (module WebTask), for any   *)
(* number of requests, components and threads: a record that is finished   *)
(* is final; and as long as there is one deployment, whoever is told that  *)
(* an installation was successful has had all of it done.                  *)
(***************************************************************************)
EXTENDS WebTask, TLAPS

Locals == [deploy : Deployments \cup {Nobody}, comps : SUBSET Components,
           next : 1..(Len(Order) + 1), failed : SUBSET {"deploy", "start"}, before : Status]

Asked == [kind : Kinds, name : Deployments]

Whats == {"init", "start", "stop", "wipe"}

\* The requests that were accepted are those that are at some step.
Accepted == \A r \in Requests : at[r] # "unused" <=> r \in DOMAIN accepted

\* A function that has not been registered has done nothing.
Untouched ==
    \A r \in Requests :
        /\ at[r] \in {"unused", "queued"} => task[r] = Pending
        /\ at[r] \in {"unused", "queued", "begin", "init"} =>
             local[r].next = 1 /\ local[r].failed = {}

\* The functions that destroy work on a deployment of their own.
Owned ==
    \A r \in Requests : at[r] = "check" => local[r].deploy \in Deployments

\* An installation takes steps of its own.
Installs(r) == r \in DOMAIN accepted /\ Kind(r) = "install"

OwnSteps ==
    \A r \in Requests : Installs(r) =>
        at[r] \notin {"started", "stop", "stopped", "check", "wipe", "configured"}

BInv == TypeOK /\ Accepted /\ Untouched /\ Owned /\ OwnSteps

-----------------------------------------------------------------------------
LEMMA Types ==
    ASSUME BInv
    PROVE  /\ accepted \in Seq(Asked)
           /\ at \in [Requests -> Steps] /\ local \in [Requests -> Locals]
           /\ DOMAIN task = Requests
           /\ did \in [Requests -> SUBSET (Whats \X Deployments \X Components)]
           /\ home \in Deployments \cup {Nobody}
BY DEF BInv, TypeOK, Locals, Whats, Asked

LEMMA Named ==
    ASSUME BInv, NEW r \in Requests, at[r] # "unused"
    PROVE  Name(r) \in Deployments /\ Kind(r) \in Kinds /\ r \in DOMAIN accepted
<1>1. r \in DOMAIN accepted
    BY DEF BInv, Accepted
<1>2. accepted[r] \in Asked
    BY <1>1, Types
<1> QED
    BY <1>1, <1>2 DEF Name, Kind, Asked

LEMMA Ordered ==
    /\ Len(Order) \in Nat /\ DOMAIN Order = 1..Len(Order)
    /\ \A i \in 1..Len(Order) : Order[i] \in Components
    /\ \A c \in Components : \E i \in 1..Len(Order) : c = Order[i]
<1>1. Order \in Seq(Components)
    BY WebTaskAssumption
<1>2. /\ Len(Order) \in Nat /\ DOMAIN Order = 1..Len(Order)
      /\ \A i \in 1..Len(Order) : Order[i] \in Components
    BY <1>1
<1>3. \A c \in Components : \E i \in 1..Len(Order) : c = Order[i]
    BY <1>2 DEF Components
<1> QED
    BY <1>2, <1>3

LEMMA InitBInv == Init => BInv
<1> SUFFICES ASSUME Init PROVE BInv
    OBVIOUS
<1>1. TypeOK
    <2>1. 1 \in 1..(Len(Order) + 1)
        BY Ordered
    <2> QED
        BY <2>1, WebTaskAssumption DEF Init, TypeOK, Steps, Pending, Running, Finished, Status, Requests
<1>2. Accepted /\ Untouched /\ Owned /\ OwnSteps
    BY DEF Init, Accepted, Untouched, Owned, OwnSteps, Installs
<1> QED
    BY <1>1, <1>2 DEF BInv

\* A step of one function: where it goes, and what is left of its variables
\* and of what it has done.
Moved(r, step, mine, done) ==
    /\ at[r] \notin {"unused", "queued"} /\ step \in Steps \ {"unused", "queued", "begin"}
    /\ at' = [at EXCEPT ![r] = step]
    /\ task' = task \/ \E result \in {"FAILED", "SUCCESSFUL"} :
                          task' = [task EXCEPT ![r] = Finished(result)]
    /\ UNCHANGED <<accepted, registry>>
    /\ home' \in Deployments \cup {Nobody} /\ scope' \subseteq Components
    /\ status' \in [Deployments -> Status] /\ up' \subseteq Deployments \X Components
    /\ mine \in Locals /\ local' = [local EXCEPT ![r] = mine]
    /\ done \in SUBSET (Whats \X Deployments \X Components) /\ did' = [did EXCEPT ![r] = done]
    /\ step = "init" => mine.next = 1 /\ mine.failed = {}
    /\ step = "check" => mine.deploy \in Deployments
    /\ Kind(r) = "install" =>
        step \notin {"started", "stop", "stopped", "check", "wipe", "configured"}

LEMMA MovedBInv ==
    ASSUME BInv, NEW r \in Requests, NEW step, NEW mine, NEW done, Moved(r, step, mine, done)
    PROVE  BInv'
<1> USE DEF BInv, Moved
<1>1. TypeOK'
    BY DEF TypeOK, Locals, Whats, Finished
<1>2. Accepted'
    BY Types DEF Accepted
<1>3. Untouched'
    <2> SUFFICES ASSUME NEW q \in Requests
                 PROVE  /\ at'[q] \in {"unused", "queued"} => task'[q] = Pending
                        /\ at'[q] \in {"unused", "queued", "begin", "init"} =>
                             local'[q].next = 1 /\ local'[q].failed = {}
        BY DEF Untouched
    <2>1. CASE q = r
        BY <2>1, Types
    <2>2. CASE q # r
        <3>1. at'[q] = at[q] /\ task'[q] = task[q] /\ local'[q] = local[q]
            BY <2>2, Types
        <3> QED
            BY <3>1 DEF Untouched
    <2> QED
        BY <2>1, <2>2
<1>4. Owned'
    BY Types DEF Owned
<1>5. OwnSteps'
    BY Types DEF OwnSteps, Installs, Kind
<1> QED
    BY <1>1, <1>2, <1>3, <1>4, <1>5

\* What an action says with EXCEPT, and what it leaves unchanged.
LEMMA Kept ==
    ASSUME BInv, NEW r \in Requests
    PROVE  /\ local = [local EXCEPT ![r] = local[r]] /\ local[r] \in Locals
           /\ did = [did EXCEPT ![r] = did[r]]
           /\ did[r] \in SUBSET (Whats \X Deployments \X Components)
BY Types

LEMMA Updated ==
    ASSUME BInv, NEW d, NEW s \in Status, Update(d, s)
    PROVE  status' \in [Deployments -> Status]
BY DEF Update, BInv, TypeOK

LEMMA Ends ==
    ASSUME NEW r \in Requests, NEW result \in {"FAILED", "SUCCESSFUL"}, Return(r, result)
    PROVE  /\ at' = [at EXCEPT ![r] = "ended"]
           /\ task' = task \/ \E x \in {"FAILED", "SUCCESSFUL"} : task' = [task EXCEPT ![r] = Finished(x)]
BY DEF Return

LEMMA BeginInstallStep == ASSUME BInv, NEW r \in Requests, BeginInstall(r) PROVE BInv'
<1> USE DEF BeginInstall
<1>1. Name(r) \in Deployments /\ at[r] = "begin" /\ Kind(r) = "install"
    BY Named
<1>2. local[r].next = 1 /\ local[r].failed = {}
    BY <1>1 DEF BInv, Untouched
<1>3. CASE home = Nobody
    <2>1. Moved(r, "ended", local[r], did[r])
        BY <1>1, <1>3, Kept, Ends DEF Raise, Moved, Steps, BInv, TypeOK, cluster, shared
    <2> QED
        BY <2>1, MovedBInv
<1>4. CASE home # Nobody /\ status[Name(r)] \in {"CONFIGURED", "DESTROYED"}
    <2>1. Moved(r, "init", local[r], did[r])
        BY <1>1, <1>2, <1>4, Kept DEF Moved, Goto, Steps, BInv, TypeOK, cluster
    <2> QED
        BY <2>1, MovedBInv
<1>5. CASE home # Nobody /\ status[Name(r)] \notin {"CONFIGURED", "DESTROYED"}
    <2> DEFINE mine == [local[r] EXCEPT !.failed = {"deploy"}]
    <2>1. local' = [local EXCEPT ![r] = mine] /\ mine \in Locals
        BY <1>5, Kept, <1>4 DEF Locals
    <2> HIDE DEF mine
    <2>2. Moved(r, "choose", mine, did[r])
        BY <1>1, <1>5, <2>1, Kept DEF Moved, Goto, Steps, BInv, TypeOK, cluster
    <2> QED
        BY <2>2, MovedBInv
<1> QED
    BY <1>3, <1>4, <1>5

LEMMA InitServersStep == ASSUME BInv, NEW r \in Requests, InitServers(r) PROVE BInv'
<1> USE DEF InitServers
<1>1. CASE home # Nobody /\ Did(r, "init", Components) /\ Goto(r, "deployed") /\ UNCHANGED local
    <2> DEFINE done == did[r] \cup {"init"} \X {home} \X Components
    <2>1. done \in SUBSET (Whats \X Deployments \X Components) /\ did' = [did EXCEPT ![r] = done]
        BY <1>1, Kept, Types DEF Did, Whats
    <2> HIDE DEF done
    <2>2. Moved(r, "deployed", local[r], done)
        BY <1>1, <2>1, Kept DEF Moved, Goto, Steps, BInv, TypeOK, cluster, shared
    <2> QED
        BY <2>2, MovedBInv
<1>2. CASE local' = [local EXCEPT ![r].failed = {"deploy"}] /\ Goto(r, "choose") /\ UNCHANGED did
    <2> DEFINE mine == [local[r] EXCEPT !.failed = {"deploy"}]
    <2>1. local' = [local EXCEPT ![r] = mine] /\ mine \in Locals
        BY <1>2, Kept DEF Locals
    <2> HIDE DEF mine
    <2>2. Moved(r, "choose", mine, did[r])
        BY <1>2, <2>1, Kept DEF Moved, Goto, Steps, BInv, TypeOK, cluster, shared
    <2> QED
        BY <2>2, MovedBInv
<1> QED
    BY <1>1, <1>2

LEMMA RecordDeployedStep == ASSUME BInv, NEW r \in Requests, RecordDeployed(r) PROVE BInv'
<1>1. status' \in [Deployments -> Status]
    BY Updated DEF RecordDeployed, Status
<1>2. Moved(r, "choose", local[r], did[r])
    BY <1>1, Kept DEF RecordDeployed, Moved, Goto, Steps, BInv, TypeOK, shared
<1> QED
    BY <1>2, MovedBInv

LEMMA ChooseComponentStep == ASSUME BInv, NEW r \in Requests, ChooseComponent(r) PROVE BInv'
<1> USE DEF ChooseComponent
<1>1. CASE home = Nobody
    <2>1. Moved(r, "ended", local[r], did[r])
        BY <1>1, Kept, Ends DEF Raise, Moved, Steps, BInv, TypeOK, cluster
    <2> QED
        BY <2>1, MovedBInv
<1>2. CASE home # Nobody
    <2> DEFINE n    == local[r].next
               mine == [local[r] EXCEPT !.deploy = home, !.comps = {Order[n]}, !.next = n + 1]
    <2>1. n \in 1..Len(Order) /\ n + 1 \in 1..(Len(Order) + 1) /\ Order[n] \in Components
        BY Kept, Ordered DEF Locals
    <2>2. local' = [local EXCEPT ![r] = mine]
        BY <1>2, Types
    <2>3. mine \in Locals /\ scope' \subseteq Components
        BY <1>2, <2>1, Kept, Types DEF Locals
    <2> HIDE DEF mine, n
    <2>4. Moved(r, "start", mine, did[r])
        BY <1>2, <2>2, <2>3, Kept DEF Moved, Goto, Steps, BInv, TypeOK, cluster
    <2> QED
        BY <2>4, MovedBInv
<1> QED
    BY <1>1, <1>2

LEMMA EndInstallStep == ASSUME BInv, NEW r \in Requests, EndInstall(r) PROVE BInv'
<1> USE DEF EndInstall
<1>1. CASE Raise(r) /\ UNCHANGED status
    <2>1. Moved(r, "ended", local[r], did[r])
        BY <1>1, Kept, Ends DEF Raise, Moved, Steps, BInv, TypeOK
    <2> QED
        BY <2>1, MovedBInv
<1>2. CASE Update(home, "RUNNING") /\ Goto(r, "recorded")
    <2>1. status' \in [Deployments -> Status]
        BY <1>2, Updated DEF Status
    <2>2. Moved(r, "recorded", local[r], did[r])
        BY <1>2, <2>1, Kept DEF Moved, Goto, Steps, BInv, TypeOK
    <2> QED
        BY <2>2, MovedBInv
<1> QED
    BY <1>1, <1>2

LEMMA LeaveInstallStep == ASSUME BInv, NEW r \in Requests, LeaveInstall(r) PROVE BInv'
<1>1. PICK result \in {"FAILED", "SUCCESSFUL"} : Return(r, result)
    BY DEF LeaveInstall, Raise
<1>2. Moved(r, "ended", local[r], did[r])
    BY <1>1, Kept, Ends DEF LeaveInstall, Moved, Steps, BInv, TypeOK, cluster
<1> QED
    BY <1>2, MovedBInv

LEMMA BeginStep == ASSUME BInv, NEW r \in Requests, Begin(r) PROVE BInv'
<1> USE DEF Begin
<1>1. Name(r) \in Deployments /\ at[r] = "begin" /\ Kind(r) \in {"start", "stop"}
    BY Named
<1>2. CASE Return(r, "SUCCESSFUL") /\ UNCHANGED local
    <2>1. Moved(r, "ended", local[r], did[r])
        BY <1>1, <1>2, Kept, Ends DEF Moved, Steps, BInv, TypeOK, cluster
    <2> QED
        BY <2>1, MovedBInv
<1>3. CASE local' = [local EXCEPT ![r].deploy = Name(r), ![r].comps = Chosen] /\ Goto(r, Kind(r))
    <2> DEFINE mine == [local[r] EXCEPT !.deploy = Name(r), !.comps = Chosen]
    <2>1. local' = [local EXCEPT ![r] = mine]
        BY <1>3, Types
    <2>2. mine \in Locals
        BY <1>1, Kept DEF Locals, Chosen, BInv, TypeOK
    <2> HIDE DEF mine
    <2>3. Moved(r, Kind(r), mine, did[r])
        BY <1>1, <1>3, <2>1, <2>2, Kept DEF Moved, Goto, Steps, BInv, TypeOK, cluster
    <2> QED
        BY <2>3, MovedBInv
<1> QED
    BY <1>2, <1>3

\* Plugins of any kind leave sound servers, and a sound history.
LEMMA Affected ==
    ASSUME BInv, NEW r \in Requests, NEW what \in Whats, NEW comps \in SUBSET Components,
           NEW effect \in BOOLEAN, Works(r, what, comps, effect) \/ Breaks(r, what, comps, effect)
    PROVE  /\ up' \subseteq Deployments \X Components
           /\ \E done \in SUBSET (Whats \X Deployments \X Components) : did' = [did EXCEPT ![r] = done]
<1>1. PICK some \in SUBSET comps :
        (home = Nobody => some = {}) /\ Affect(some, effect) /\ Did(r, what, some)
    BY DEF Works, Breaks
<1>2. {home} \X some \subseteq Deployments \X Components
    BY <1>1, Types
<1>3. up' \subseteq Deployments \X Components
    BY <1>1, <1>2 DEF Affect, BInv, TypeOK
<1>4. {what} \X {home} \X some \subseteq Whats \X Deployments \X Components
    BY <1>1, Types
<1>5. did' = [did EXCEPT ![r] = did[r] \cup {what} \X {home} \X some]
    BY <1>1 DEF Did
<1> QED
    BY <1>3, <1>4, <1>5, Kept

LEMMA StartServersStep == ASSUME BInv, NEW r \in Requests, StartServers(r) PROVE BInv'
<1> USE DEF StartServers
<1>1. local[r].comps \in SUBSET Components
    BY Kept DEF Locals
<1>2. up' \subseteq Deployments \X Components
    BY <1>1, Affected DEF Whats
<1>3. PICK done \in SUBSET (Whats \X Deployments \X Components) : did' = [did EXCEPT ![r] = done]
    BY <1>1, Affected DEF Whats
<1>4. CASE Goto(r, IF Kind(r) = "install" THEN "choose" ELSE "started") /\ UNCHANGED local
    <2>1. CASE Kind(r) = "install"
        <3>1. Moved(r, "choose", local[r], done)
            BY <1>2, <1>3, <1>4, <2>1, Kept DEF Moved, Goto, Steps, BInv, TypeOK, shared
        <3> QED
            BY <3>1, MovedBInv
    <2>2. CASE Kind(r) # "install"
        <3>1. Moved(r, "started", local[r], done)
            BY <1>2, <1>3, <1>4, <2>2, Kept DEF Moved, Goto, Steps, BInv, TypeOK, shared
        <3> QED
            BY <3>1, MovedBInv
    <2> QED
        BY <2>1, <2>2
<1>5. CASE local' = [local EXCEPT ![r].failed = @ \cup {"start"}] /\ Goto(r, "choose")
    <2> DEFINE mine == [local[r] EXCEPT !.failed = @ \cup {"start"}]
    <2>1. local' = [local EXCEPT ![r] = mine] /\ mine \in Locals
        BY <1>5, Kept DEF Locals
    <2> HIDE DEF mine
    <2>2. Moved(r, "choose", mine, done)
        BY <1>2, <1>3, <1>5, <2>1, Kept DEF Moved, Goto, Steps, BInv, TypeOK, shared
    <2> QED
        BY <2>2, MovedBInv
<1>6. CASE Return(r, "SUCCESSFUL") /\ UNCHANGED local
    <2>1. Moved(r, "ended", local[r], done)
        BY <1>2, <1>3, <1>6, Kept, Ends DEF Moved, Steps, BInv, TypeOK, shared
    <2> QED
        BY <2>1, MovedBInv
<1> QED
    BY <1>4, <1>5, <1>6

LEMMA NotInstalls ==
    ASSUME BInv, NEW r \in Requests,
           at[r] \in {"started", "stop", "stopped", "check", "wipe", "configured"}
    PROVE  Kind(r) # "install"
BY Named DEF BInv, OwnSteps, Installs

LEMMA RecordStartedStep == ASSUME BInv, NEW r \in Requests, RecordStarted(r) PROVE BInv'
<1>1. status' \in [Deployments -> Status]
    BY Updated DEF RecordStarted, Status, BInv, TypeOK
<1>2. Moved(r, "ended", local[r], did[r])
    BY <1>1, Kept, Ends DEF RecordStarted, Moved, Steps, BInv, TypeOK, shared
<1> QED
    BY <1>2, MovedBInv

LEMMA StopServersStep == ASSUME BInv, NEW r \in Requests, StopServers(r) PROVE BInv'
<1> USE DEF StopServers
<1>1. local[r].comps \in SUBSET Components /\ local[r].before \in Status
    BY Kept DEF Locals
<1>2. up' \subseteq Deployments \X Components
    BY <1>1, Affected DEF Whats
<1>3. PICK done \in SUBSET (Whats \X Deployments \X Components) : did' = [did EXCEPT ![r] = done]
    BY <1>1, Affected DEF Whats
<1>4. CASE Goto(r, "stopped") /\ UNCHANGED status
    <2>1. Moved(r, "stopped", local[r], done)
        BY <1>2, <1>3, <1>4, Kept, NotInstalls DEF Moved, Goto, Steps, BInv, TypeOK, shared
    <2> QED
        BY <2>1, MovedBInv
<1>5. CASE Update(local[r].deploy, local[r].before) /\ Raise(r)
    <2>1. status' \in [Deployments -> Status]
        BY <1>1, <1>5, Updated
    <2>2. Moved(r, "ended", local[r], done)
        BY <1>2, <1>3, <1>5, <2>1, Kept, Ends DEF Raise, Moved, Steps, BInv, TypeOK, shared
    <2> QED
        BY <2>2, MovedBInv
<1>6. CASE Return(r, "SUCCESSFUL") /\ UNCHANGED status
    <2>1. Moved(r, "ended", local[r], done)
        BY <1>2, <1>3, <1>6, Kept, Ends DEF Moved, Steps, BInv, TypeOK, shared
    <2> QED
        BY <2>1, MovedBInv
<1> QED
    BY <1>4, <1>5, <1>6

LEMMA RecordStoppedStep == ASSUME BInv, NEW r \in Requests, RecordStopped(r) PROVE BInv'
<1> USE DEF RecordStopped
<1>1. status' \in [Deployments -> Status]
    BY Updated DEF Status, BInv, TypeOK
<1>2. CASE Goto(r, "wipe")
    <2>1. Moved(r, "wipe", local[r], did[r])
        BY <1>1, <1>2, Kept, NotInstalls DEF Moved, Goto, Steps, BInv, TypeOK, shared
    <2> QED
        BY <2>1, MovedBInv
<1>3. CASE Return(r, "SUCCESSFUL")
    <2>1. Moved(r, "ended", local[r], did[r])
        BY <1>1, <1>3, Kept, Ends DEF Moved, Steps, BInv, TypeOK, shared
    <2> QED
        BY <2>1, MovedBInv
<1> QED
    BY <1>2, <1>3

LEMMA BeginDestroyStep == ASSUME BInv, NEW r \in Requests, BeginDestroy(r) PROVE BInv'
<1> USE DEF BeginDestroy
<1>1. Name(r) \in Deployments /\ Kind(r) # "install"
    BY Named
<1> DEFINE mine == [local[r] EXCEPT !.deploy = Name(r)]
<1>2. local' = [local EXCEPT ![r] = mine]
    BY Types
<1>3. mine \in Locals /\ mine.deploy \in Deployments
    BY <1>1, Kept DEF Locals
<1> HIDE DEF mine
<1>4. Moved(r, "check", mine, did[r])
    BY <1>1, <1>2, <1>3, Kept DEF Moved, Goto, Steps, BInv, TypeOK, cluster
<1> QED
    BY <1>4, MovedBInv

LEMMA CheckServersStep == ASSUME BInv, NEW r \in Requests, CheckServers(r) PROVE BInv'
<1> USE DEF CheckServers
<1>1. CASE Raise(r) /\ UNCHANGED <<local, status>>
    <2>1. Moved(r, "ended", local[r], did[r])
        BY <1>1, Kept, Ends DEF Raise, Moved, Steps, BInv, TypeOK, shared
    <2> QED
        BY <2>1, MovedBInv
<1>2. CASE Goto(r, "wipe") /\ UNCHANGED <<local, status>>
    <2>1. Moved(r, "wipe", local[r], did[r])
        BY <1>2, Kept, NotInstalls DEF Moved, Goto, Steps, BInv, TypeOK, shared
    <2> QED
        BY <2>1, MovedBInv
<1>3. CASE /\ local' = [local EXCEPT ![r].before = status[local[r].deploy], ![r].comps = Chosen]
           /\ Update(local[r].deploy, "RUNNING") /\ Goto(r, "stop")
    <2> DEFINE mine == [local[r] EXCEPT !.before = status[local[r].deploy], !.comps = Chosen]
    <2>1. local' = [local EXCEPT ![r] = mine]
        BY <1>3, Types
    <2>2. status[local[r].deploy] \in Status
        BY DEF BInv, Owned, TypeOK
    <2>3. Chosen \in SUBSET Components
        BY DEF Chosen, BInv, TypeOK
    <2>4. mine \in Locals
        BY <2>2, <2>3, Kept DEF Locals
    <2>5. status' \in [Deployments -> Status]
        BY <1>3, Updated DEF Status
    <2> HIDE DEF mine
    <2>6. Moved(r, "stop", mine, did[r])
        BY <1>3, <2>1, <2>4, <2>5, Kept, NotInstalls
        DEF Moved, Goto, Steps, BInv, TypeOK, shared
    <2> QED
        BY <2>6, MovedBInv
<1> QED
    BY <1>1, <1>2, <1>3

LEMMA WipeServersStep == ASSUME BInv, NEW r \in Requests, WipeServers(r) PROVE BInv'
<1> USE DEF WipeServers
<1>1. up' \subseteq Deployments \X Components
    BY Affected DEF Whats
<1>2. PICK done \in SUBSET (Whats \X Deployments \X Components) : did' = [did EXCEPT ![r] = done]
    BY Affected DEF Whats
<1>3. status' \in [Deployments -> Status]
    BY Updated DEF Status
<1>4. Moved(r, "configured", local[r], done)
    BY <1>1, <1>2, <1>3, Kept, NotInstalls DEF Moved, Goto, Steps, BInv, TypeOK, shared
<1> QED
    BY <1>4, MovedBInv

LEMMA RecordConfiguredStep == ASSUME BInv, NEW r \in Requests, RecordConfigured(r) PROVE BInv'
<1>1. status' \in [Deployments -> Status]
    BY Updated DEF RecordConfigured, Status
<1>2. Moved(r, "ended", local[r], did[r])
    BY <1>1, Kept, Ends DEF RecordConfigured, Moved, Steps, BInv, TypeOK
<1> QED
    BY <1>2, MovedBInv

LEMMA FunctionStep == ASSUME BInv, NEW r \in Requests, Function(r) PROVE BInv'
BY BeginInstallStep, InitServersStep, RecordDeployedStep, ChooseComponentStep, EndInstallStep,
   LeaveInstallStep, BeginStep, StartServersStep, RecordStartedStep, StopServersStep,
   RecordStoppedStep, BeginDestroyStep, CheckServersStep, WipeServersStep, RecordConfiguredStep
DEF Function

\* The new request is the next one, which was at no step before.
LEMMA Requested ==
    ASSUME BInv, NEW kind \in Kinds, NEW name \in Deployments, Request(kind, name)
    PROVE  LET n == Len(accepted) + 1 IN
           /\ n \in Requests /\ at[n] = "unused" /\ at' = [at EXCEPT ![n] = "queued"]
           /\ accepted' \in Seq(Asked) /\ Len(accepted') = n
           /\ DOMAIN accepted = 1..(n - 1) /\ DOMAIN accepted' = 1..n
           /\ \A q \in DOMAIN accepted : accepted'[q] = accepted[q]
<1> DEFINE asked == [kind |-> kind, name |-> name]
           n     == Len(accepted) + 1
<1>1. asked \in Asked /\ accepted' = Append(accepted, asked)
    BY DEF Request, Asked
<1>2. accepted \in Seq(Asked) /\ MaxRequests \in Nat /\ Len(accepted) < MaxRequests
    BY Types, WebTaskAssumption DEF Request
<1> HIDE DEF asked
<1>3. /\ accepted' \in Seq(Asked) /\ Len(accepted') = n
      /\ DOMAIN accepted = 1..(n - 1) /\ DOMAIN accepted' = 1..n
      /\ \A q \in DOMAIN accepted : accepted'[q] = accepted[q]
    BY <1>1, <1>2
<1>4. n \in Requests /\ n \notin DOMAIN accepted
    BY <1>2, <1>3 DEF Requests
<1>5. at[n] = "unused"
    BY <1>4 DEF BInv, Accepted
<1>6. at' = [at EXCEPT ![n] = "queued"]
    BY <1>3 DEF Request
<1> QED
    BY <1>3, <1>4, <1>5, <1>6

LEMMA RequestStep ==
    ASSUME BInv, NEW kind \in Kinds, NEW name \in Deployments, Request(kind, name)
    PROVE  BInv'
<1> DEFINE n == Len(accepted) + 1
<1>1. /\ n \in Requests /\ at[n] = "unused" /\ at' = [at EXCEPT ![n] = "queued"]
      /\ accepted' \in Seq(Asked) /\ Len(accepted') = n
      /\ DOMAIN accepted = 1..(n - 1) /\ DOMAIN accepted' = 1..n
      /\ \A q \in DOMAIN accepted : accepted'[q] = accepted[q]
    BY Requested
<1>2. UNCHANGED <<task, home, scope, local, status, up, did>>
    BY DEF Request, shared, cluster
<1>3. \A q \in Requests : at'[q] = IF q = n THEN "queued" ELSE at[q]
    BY <1>1, Types
<1>4. n <= MaxRequests
    BY <1>1, WebTaskAssumption DEF Requests
<1>5. registry' \in [Kinds \X Deployments -> 0..MaxRequests]
    BY WebTaskAssumption DEF Request, BInv, TypeOK
<1> HIDE DEF n
<1>6. TypeOK'
    BY <1>1, <1>2, <1>4, <1>5 DEF BInv, TypeOK, Asked, Steps
<1>7. Accepted'
    <2>1. \A q \in Requests : q \in DOMAIN accepted' <=> q = n \/ q \in DOMAIN accepted
        BY <1>1, WebTaskAssumption DEF Requests
    <2> QED
        BY <1>1, <1>3, <2>1 DEF BInv, Accepted
<1>8. Untouched'
    BY <1>1, <1>2, <1>3 DEF BInv, Untouched
<1>9. Owned'
    BY <1>2, <1>3 DEF BInv, Owned
<1>10. OwnSteps'
    <2> SUFFICES ASSUME NEW q \in Requests, Installs(q)'
                 PROVE  at'[q] \notin {"started", "stop", "stopped", "check", "wipe", "configured"}
        BY DEF OwnSteps
    <2>1. CASE q = n
        BY <2>1, <1>3
    <2>2. CASE q # n
        <3>1. at'[q] = at[q]
            BY <2>2, <1>3
        <3>2. CASE q \in DOMAIN accepted
            <4>1. Installs(q)
                BY <3>2, <1>1 DEF Installs, Kind
            <4> QED
                BY <3>1, <4>1 DEF BInv, OwnSteps
        <3>3. CASE q \notin DOMAIN accepted
            BY <3>1, <3>3 DEF BInv, Accepted
        <3> QED
            BY <3>2, <3>3
    <2> QED
        BY <2>1, <2>2
<1> QED
    BY <1>6, <1>7, <1>8, <1>9, <1>10 DEF BInv

LEMMA RegisterStep == ASSUME BInv, NEW r \in Requests, Register(r) PROVE BInv'
<1> USE DEF Register, shared, cluster
<1>1. Name(r) \in Deployments /\ Kind(r) \in Kinds /\ r \in 0..MaxRequests
    BY Named, WebTaskAssumption DEF Requests
<1>2. \A q \in Requests : at'[q] = (IF q = r THEN "begin" ELSE at[q])
    BY Types
<1>3. \A q \in Requests : q # r => task'[q] = task[q]
    BY Types
<1>4. registry' \in [Kinds \X Deployments -> 0..MaxRequests]
    BY <1>1 DEF BInv, TypeOK
<1>5. TypeOK'
    BY <1>4 DEF BInv, TypeOK, Steps, Pending, Running
<1>6. Accepted'
    BY <1>2 DEF BInv, Accepted
<1>7. Untouched'
    BY <1>2, <1>3 DEF BInv, Untouched
<1>8. Owned' /\ OwnSteps'
    BY <1>2 DEF BInv, Owned, OwnSteps, Installs, Kind
<1> QED
    BY <1>5, <1>6, <1>7, <1>8 DEF BInv

LEMMA TimeoutStep == ASSUME BInv, NEW r \in Requests, Timeout(r) PROVE BInv'
<1> USE DEF Timeout, shared, cluster
<1>1. TypeOK'
    BY DEF BInv, TypeOK, Finished
<1>2. Untouched'
    <2>1. at[r] \notin {"unused", "queued"}
        BY DEF Busy
    <2> QED
        BY <2>1, Types DEF BInv, Untouched
<1>3. Accepted' /\ Owned' /\ OwnSteps'
    BY DEF BInv, Accepted, Owned, OwnSteps, Installs, Kind
<1> QED
    BY <1>1, <1>2, <1>3 DEF BInv

LEMMA NextBInv == BInv /\ [Next]_vars => BInv'
<1> SUFFICES ASSUME BInv, [Next]_vars PROVE BInv'
    OBVIOUS
<1>1. ASSUME NEW k \in Kinds, NEW n \in Deployments, Request(k, n) PROVE BInv'
    BY <1>1, RequestStep
<1>2. ASSUME NEW n \in Deployments, Look(n) PROVE BInv'
    BY <1>2 DEF Look, cluster, BInv, TypeOK, Accepted, Untouched, Owned, OwnSteps, Installs, Kind
<1>3. ASSUME NEW r \in Requests, Register(r) PROVE BInv'
    BY <1>3, RegisterStep
<1>4. ASSUME NEW r \in Requests, Timeout(r) PROVE BInv'
    BY <1>4, TimeoutStep
<1>5. ASSUME NEW r \in Requests, Function(r) PROVE BInv'
    BY <1>5, FunctionStep
<1>6. CASE UNCHANGED vars
    BY <1>6 DEF vars, BInv, TypeOK, Accepted, Untouched, Owned, OwnSteps, Installs, Kind
<1> QED
    BY <1>1, <1>2, <1>3, <1>4, <1>5, <1>6 DEF Next

\* What every state of the service satisfies, however many requests, threads
\* and deployments it has.
LEMMA AlwaysBInv == Spec => []BInv
<1>1. Init => BInv
    BY InitBInv
<1>2. BInv /\ [Next]_vars => BInv'
    BY NextBInv
<1> QED
    BY <1>1, <1>2, PTL DEF Spec

-----------------------------------------------------------------------------
(* The records.                                                             *)

\* The variables of the service always have their types: what a function holds
\* in local variables, the servers that run and the history of each request
\* stay well formed however the tasks of AutoRegister interleave on one
\* ObdHome (task.py, deployment_handler.py).
THEOREM WebTypeCorrect == Spec => []TypeOK
<1>1. BInv => TypeOK
    BY DEF BInv
<1> QED
    BY <1>1, AlwaysBInv, PTL

\* A step of a function leaves a finished record alone, its own included:
\* after a timeout nobody waits for the thread.
LEMMA FunctionFinal ==
    ASSUME BInv, NEW r \in Requests, NEW q \in Requests, Function(r), task[q].status = "FINISHED"
    PROVE  task'[q] = task[q]
<1>1. task' = task \/ (task[r] = Running /\ \E x : task' = [task EXCEPT ![r] = x])
    BY DEF Function, BeginInstall, InitServers, RecordDeployed, ChooseComponent, EndInstall,
           LeaveInstall, Begin, StartServers, RecordStarted, StopServers, RecordStopped,
           BeginDestroy, CheckServers, WipeServers, RecordConfigured, Goto, Raise, Return
<1>2. CASE task' = task
    BY <1>2
<1>3. CASE task[r] = Running /\ \E x : task' = [task EXCEPT ![r] = x]
    <2>1. q # r
        BY <1>3 DEF Running
    <2> QED
        BY <1>3, <2>1, Types
<1> QED
    BY <1>1, <1>2, <1>3

\* A record that is finished keeps its result for ever: neither a late end of
\* the thread (task.py, AutoRegister), nor a second request of the same name,
\* nor its registration changes what the client was told.
THEOREM RecordsFinal == Spec => FinishedIsFinal
<1>1. ASSUME BInv, [Next]_vars, NEW q \in Requests, task[q].status = "FINISHED"
      PROVE  task'[q] = task[q]
    <2>1. ASSUME NEW k \in Kinds, NEW n \in Deployments, Request(k, n) PROVE task'[q] = task[q]
        BY <2>1 DEF Request
    <2>2. ASSUME NEW n \in Deployments, Look(n) PROVE task'[q] = task[q]
        BY <2>2 DEF Look
    <2>3. ASSUME NEW r \in Requests, Register(r) PROVE task'[q] = task[q]
        <3>1. task[r] = Pending
            BY <1>1, <2>3 DEF Register, BInv, Untouched
        <3>2. q # r
            BY <1>1, <3>1 DEF Pending
        <3> QED
            BY <2>3, <3>2, Types, <1>1 DEF Register
    <2>4. ASSUME NEW r \in Requests, Timeout(r) PROVE task'[q] = task[q]
        <3>1. q # r
            BY <1>1, <2>4 DEF Timeout, Running
        <3> QED
            BY <2>4, <3>1, Types, <1>1 DEF Timeout
    <2>5. ASSUME NEW r \in Requests, Function(r) PROVE task'[q] = task[q]
        BY <1>1, <2>5, FunctionFinal
    <2>6. CASE UNCHANGED vars
        BY <2>6 DEF vars
    <2> QED
        BY <1>1, <2>1, <2>2, <2>3, <2>4, <2>5, <2>6 DEF Next
<1>2. BInv /\ [Next]_vars =>
        [\A r \in Requests : task[r].status = "FINISHED" => task'[r] = task[r]]_vars
    BY <1>1
<1> QED
    BY <1>2, AlwaysBInv, PTL DEF Spec, FinishedIsFinal

-----------------------------------------------------------------------------
(* What the client of an installation is told.  With a second deployment the *)
(* property fails for another reason, the shared ObdHome.deploy (run         *)
(* web_shared): so there is one deployment here, and any number of tasks.    *)

Single == \A d, e \in Deployments : d = e

\* The components before the n-th have been started by request r.
StartedBefore(r, n) ==
    \A i \in 1..(n - 1) : <<"start", Name(r), Order[i]>> \in did[r]

AllSetUp(r) == \A c \in Components : <<"init", Name(r), c>> \in did[r]

\* How far an installation has got, unless it has noted a failure.
Progress(r) ==
    /\ at[r] = "deployed" => local[r].next = 1 /\ local[r].failed = {}
    /\ at[r] \in {"deployed", "choose", "start"} /\ "deploy" \notin local[r].failed => AllSetUp(r)
    /\ at[r] = "choose" /\ "start" \notin local[r].failed => StartedBefore(r, local[r].next)
    /\ at[r] = "start" =>
         /\ local[r].next - 1 \in 1..Len(Order)
         /\ local[r].comps = {Order[local[r].next - 1]}
         /\ "start" \notin local[r].failed => StartedBefore(r, local[r].next - 1)
    /\ at[r] = "recorded" => AllSetUp(r) /\ StartedBefore(r, Len(Order) + 1)

PInv == \A r \in Requests : Installs(r) => Progress(r)

LEMMA AtHome ==
    ASSUME BInv, Single, NEW r \in Requests, at[r] # "unused", home # Nobody
    PROVE  home = Name(r)
BY Named, Types DEF Single

\* A request of which nothing changes keeps its progress.
LEMMA ProgressKept ==
    ASSUME NEW r \in Requests, Installs(r) => Progress(r), Installs(r)' => Installs(r),
           Installs(r)' => accepted'[r] = accepted[r],
           at'[r] = at[r], local'[r] = local[r], did'[r] = did[r]
    PROVE  Installs(r)' => Progress(r)'
BY DEF Installs, Progress, AllSetUp, StartedBefore, Name

LEMMA OthersAlone ==
    ASSUME BInv, NEW r \in Requests, NEW q \in Requests, q # r, Function(r)
    PROVE  accepted' = accepted /\ at'[q] = at[q] /\ local'[q] = local[q] /\ did'[q] = did[q]
<1>1. /\ accepted' = accepted
      /\ \E x : at' = [at EXCEPT ![r] = x]
      /\ local' = local \/ \E x : local' = [local EXCEPT ![r] = x]
      /\ did' = did \/ \E x : did' = [did EXCEPT ![r] = x]
    BY DEF Function, BeginInstall, InitServers, RecordDeployed, ChooseComponent, EndInstall,
           LeaveInstall, Begin, StartServers, RecordStarted, StopServers, RecordStopped,
           BeginDestroy, CheckServers, WipeServers, RecordConfigured, Goto, Raise, Return,
           Works, Breaks, Did
<1> QED
    BY <1>1, Types

LEMMA BeginInstallProgress ==
    ASSUME BInv, NEW r \in Requests, BeginInstall(r) PROVE Progress(r)'
<1> USE DEF BeginInstall, Goto, Raise, Return
<1>1. at[r] = "begin" /\ local[r].next = 1 /\ local[r].failed = {}
    BY DEF BInv, Untouched
<1>2. CASE at'[r] \in {"ended", "init"}
    BY <1>2 DEF Progress
<1>3. CASE at'[r] \notin {"ended", "init"}
    <2>1. at'[r] = "choose" /\ local' = [local EXCEPT ![r].failed = {"deploy"}]
        BY <1>3, Types
    <2>2. local'[r].failed = {"deploy"} /\ local'[r].next = 1
        BY <1>1, <2>1, Types, Kept DEF Locals
    <2> QED
        BY <2>1, <2>2 DEF Progress, StartedBefore
<1> QED
    BY <1>2, <1>3

LEMMA InitServersProgress ==
    ASSUME BInv, Single, NEW r \in Requests, InitServers(r) PROVE Progress(r)'
<1> USE DEF InitServers, Goto
<1>1. at[r] = "init" /\ local[r].next = 1 /\ local[r].failed = {} /\ accepted' = accepted
    BY DEF BInv, Untouched
<1>2. CASE home # Nobody /\ Did(r, "init", Components) /\ Goto(r, "deployed") /\ UNCHANGED local
    <2>1. at'[r] = "deployed" /\ local'[r] = local[r]
        BY <1>2, Types
    <2>2. did'[r] = did[r] \cup {"init"} \X {home} \X Components
        BY <1>2, Types DEF Did
    <2>3. Name(r)' = home
        BY <1>1, <1>2, AtHome DEF Name
    <2>4. AllSetUp(r)'
        BY <2>2, <2>3 DEF AllSetUp
    <2> QED
        BY <1>1, <2>1, <2>4 DEF Progress
<1>3. CASE local' = [local EXCEPT ![r].failed = {"deploy"}] /\ Goto(r, "choose") /\ UNCHANGED did
    <2>1. at'[r] = "choose"
        BY <1>3, Types
    <2>2. local'[r].failed = {"deploy"} /\ local'[r].next = 1
        BY <1>1, <1>3, Types, Kept DEF Locals
    <2> QED
        BY <2>1, <2>2 DEF Progress, StartedBefore
<1> QED
    BY <1>2, <1>3

LEMMA RecordDeployedProgress ==
    ASSUME BInv, NEW r \in Requests, Progress(r), RecordDeployed(r) PROVE Progress(r)'
<1>1. /\ at[r] = "deployed" /\ at'[r] = "choose" /\ local' = local /\ did' = did
      /\ accepted' = accepted
    BY Types DEF RecordDeployed, Goto
<1>2. AllSetUp(r)' /\ local'[r].next = 1
    BY <1>1 DEF Progress, AllSetUp, Name
<1> QED
    BY <1>1, <1>2 DEF Progress, StartedBefore

LEMMA ChooseComponentProgress ==
    ASSUME BInv, NEW r \in Requests, Progress(r), ChooseComponent(r) PROVE Progress(r)'
<1> USE DEF ChooseComponent
<1>1. at[r] = "choose" /\ did' = did /\ accepted' = accepted
    OBVIOUS
<1>2. CASE home = Nobody
    <2>1. at'[r] = "ended"
        BY <1>2, Types DEF Raise, Return
    <2> QED
        BY <2>1 DEF Progress
<1>3. CASE home # Nobody
    <2> DEFINE n == local[r].next
    <2>1. at'[r] = "start"
        BY <1>3, Types DEF Goto
    <2>2. /\ local'[r].next = n + 1 /\ local'[r].comps = {Order[n]}
          /\ local'[r].failed = local[r].failed
        BY <1>3, Types, Kept DEF Locals
    <2>3. n \in 1..Len(Order)
        BY Kept, Ordered DEF Locals
    <2> HIDE DEF n
    <2>4. n + 1 - 1 = n
        BY <2>3, Ordered
    <2>5. AllSetUp(r)' <=> AllSetUp(r)
        BY <1>1 DEF AllSetUp, Name
    <2>6. StartedBefore(r, n) => StartedBefore(r, local[r].next - 1)'
        <3>1. local'[r].next - 1 = n
            BY <2>2, <2>3, Ordered
        <3>2. ASSUME StartedBefore(r, n), NEW i \in 1..(local'[r].next - 1 - 1)
              PROVE  <<"start", Name(r)', Order[i]>> \in did'[r]
            BY <1>1, <3>1, <3>2 DEF StartedBefore, Name
        <3> QED
            BY <3>2 DEF StartedBefore
    <2>7. local[r].next = n
        BY DEF n
    <2> QED
        BY <1>1, <2>1, <2>2, <2>3, <2>4, <2>5, <2>6, <2>7 DEF Progress
<1> QED
    BY <1>2, <1>3

LEMMA EndInstallProgress ==
    ASSUME BInv, NEW r \in Requests, Progress(r), EndInstall(r) PROVE Progress(r)'
<1> USE DEF EndInstall
<1>1. at[r] = "choose" /\ did' = did /\ accepted' = accepted /\ local' = local
    OBVIOUS
<1>2. CASE Raise(r)
    <2>1. at'[r] = "ended"
        BY <1>2, Types DEF Raise, Return
    <2> QED
        BY <2>1 DEF Progress
<1>3. CASE local[r].failed = {} /\ Goto(r, "recorded")
    <2>1. at'[r] = "recorded"
        BY <1>3, Types DEF Goto
    <2>2. local[r].next = Len(Order) + 1
        BY Kept, Ordered DEF Locals
    <2>3. AllSetUp(r) /\ StartedBefore(r, Len(Order) + 1)
        BY <1>1, <1>3, <2>2 DEF Progress
    <2>4. AllSetUp(r)' /\ StartedBefore(r, Len(Order) + 1)'
        BY <1>1, <2>3 DEF AllSetUp, StartedBefore, Name
    <2> QED
        BY <2>1, <2>4 DEF Progress
<1> QED
    BY <1>2, <1>3

LEMMA StartServersProgress ==
    ASSUME BInv, Single, NEW r \in Requests, Kind(r) = "install", Progress(r), StartServers(r)
    PROVE  Progress(r)'
<1> DEFINE n == local[r].next
<1>1. at[r] = "start" /\ accepted' = accepted /\ n \in Nat
    BY Types, Kept, Ordered DEF StartServers, Locals
<1>2. \/ Works(r, "start", local[r].comps, TRUE) /\ local' = local /\ Goto(r, "choose")
      \/ /\ Breaks(r, "start", local[r].comps, TRUE)
         /\ local' = [local EXCEPT ![r].failed = @ \cup {"start"}] /\ Goto(r, "choose")
    BY DEF StartServers
<1>3. at'[r] = "choose"
    BY <1>2, Types DEF Goto
<1>4. CASE Works(r, "start", local[r].comps, TRUE) /\ local' = local
    <2>1. home = Name(r) /\ Name(r)' = Name(r)
        BY <1>1, <1>4, AtHome DEF Works, Name
    <2>2. did'[r] = did[r] \cup {"start"} \X {Name(r)} \X {Order[n - 1]}
        BY <1>1, <1>4, <2>1, Types DEF Works, Did, Progress
    <2>3. AllSetUp(r) => AllSetUp(r)'
        BY <2>1, <2>2 DEF AllSetUp
    <2>4. ASSUME StartedBefore(r, n - 1), NEW i \in 1..(n - 1)
          PROVE  <<"start", Name(r), Order[i]>> \in did'[r]
        <3>1. CASE i = n - 1
            BY <3>1, <2>2
        <3>2. CASE i # n - 1
            <4>1. i \in 1..(n - 1 - 1)
                BY <1>1, <3>2
            <4> QED
                BY <2>2, <2>4, <4>1 DEF StartedBefore
        <3> QED
            BY <3>1, <3>2
    <2>5. StartedBefore(r, n - 1) => StartedBefore(r, local[r].next)'
        BY <1>4, <2>1, <2>4 DEF StartedBefore
    <2>6. local'[r] = local[r]
        BY <1>4
    <2> QED
        BY <1>1, <1>3, <2>3, <2>5, <2>6 DEF Progress
<1>5. CASE /\ Breaks(r, "start", local[r].comps, TRUE)
           /\ local' = [local EXCEPT ![r].failed = @ \cup {"start"}]
    <2>1. local'[r].failed = local[r].failed \cup {"start"}
        BY <1>5, Types, Kept DEF Locals
    <2>2. PICK some : Did(r, "start", some)
        BY <1>5 DEF Breaks
    <2>3. AllSetUp(r) => AllSetUp(r)'
        BY <1>1, <2>2, Types DEF AllSetUp, Name, Did
    <2> QED
        BY <1>1, <1>3, <2>1, <2>3 DEF Progress
<1> QED
    BY <1>2, <1>4, <1>5

\* The other actions are none of an installation.
LEMMA ProgressOfOwn ==
    ASSUME BInv, Single, NEW r \in Requests, Installs(r), Progress(r), Function(r)
    PROVE  Progress(r)'
<1>1. Kind(r) = "install"
    BY DEF Installs
<1>2. ~RecordStarted(r) /\ ~StopServers(r) /\ ~RecordStopped(r)
    BY <1>1, NotInstalls DEF RecordStarted, StopServers, RecordStopped
<1>3. ~CheckServers(r) /\ ~WipeServers(r) /\ ~RecordConfigured(r)
    BY <1>1, NotInstalls DEF CheckServers, WipeServers, RecordConfigured
<1>4. ~Begin(r) /\ ~BeginDestroy(r)
    BY <1>1 DEF Begin, BeginDestroy
<1>5. ASSUME LeaveInstall(r) PROVE Progress(r)'
    <2>1. at'[r] = "ended"
        BY <1>5, Types DEF LeaveInstall, Raise, Return
    <2> QED
        BY <2>1 DEF Progress
<1> QED
    BY <1>1, <1>2, <1>3, <1>4, <1>5, BeginInstallProgress, InitServersProgress,
       RecordDeployedProgress, ChooseComponentProgress, EndInstallProgress, StartServersProgress
    DEF Function

LEMMA NextPInv == BInv /\ Single /\ PInv /\ [Next]_vars => PInv'
<1> SUFFICES ASSUME BInv, Single, PInv, [Next]_vars, NEW q \in Requests
             PROVE  Installs(q)' => Progress(q)'
    BY DEF PInv
<1>1. Installs(q) => Progress(q)
    BY DEF PInv
<1>2. ASSUME NEW k \in Kinds, NEW n \in Deployments, Request(k, n)
      PROVE  Installs(q)' => Progress(q)'
    <2>1. /\ at' = [at EXCEPT ![Len(accepted) + 1] = "queued"]
          /\ DOMAIN accepted = 1..Len(accepted) /\ DOMAIN accepted' = 1..(Len(accepted) + 1)
          /\ \A i \in DOMAIN accepted : accepted'[i] = accepted[i]
          /\ Len(accepted) \in Nat
        BY <1>2, Requested, Types
    <2>2. CASE q = Len(accepted) + 1
        <3>1. at'[q] = "queued"
            BY <2>1, <2>2, Types
        <3> QED
            BY <3>1 DEF Progress
    <2>3. CASE q # Len(accepted) + 1
        <3>1. at'[q] = at[q] /\ local'[q] = local[q] /\ did'[q] = did[q]
            BY <1>2, <2>1, <2>3, Types DEF Request
        <3>2. q \in DOMAIN accepted' => q \in DOMAIN accepted /\ accepted'[q] = accepted[q]
            BY <2>1, <2>3
        <3>3. Installs(q)' => Installs(q) /\ accepted'[q] = accepted[q]
            BY <3>2 DEF Installs, Kind
        <3> QED
            BY <1>1, <3>1, <3>3, ProgressKept
    <2> QED
        BY <2>2, <2>3
<1>3. ASSUME accepted' = accepted, at' = at, local' = local, did' = did
      PROVE  Installs(q)' => Progress(q)'
    <2>1. Installs(q)' => Installs(q)
        BY <1>3 DEF Installs, Kind
    <2> QED
        BY <1>1, <1>3, <2>1, ProgressKept
<1>4. ASSUME NEW r \in Requests, Register(r) PROVE Installs(q)' => Progress(q)'
    <2>1. CASE q = r
        <3>1. at'[q] = "begin"
            BY <1>4, <2>1, Types DEF Register
        <3> QED
            BY <3>1 DEF Progress
    <2>2. CASE q # r
        <3>1. /\ at'[q] = at[q] /\ local'[q] = local[q] /\ did'[q] = did[q]
              /\ accepted' = accepted
            BY <1>4, <2>2, Types DEF Register
        <3>2. Installs(q)' => Installs(q)
            BY <3>1 DEF Installs, Kind
        <3> QED
            BY <1>1, <3>1, <3>2, ProgressKept
    <2> QED
        BY <2>1, <2>2
<1>5. ASSUME NEW r \in Requests, Function(r) PROVE Installs(q)' => Progress(q)'
    <2>1. CASE q = r
        <3>1. accepted' = accepted
            BY <1>5 DEF Function, BeginInstall, InitServers, RecordDeployed, ChooseComponent,
                EndInstall, LeaveInstall, Begin, StartServers, RecordStarted, StopServers,
                RecordStopped, BeginDestroy, CheckServers, WipeServers, RecordConfigured
        <3>2. Installs(q)' => Installs(q)
            BY <3>1 DEF Installs, Kind
        <3> QED
            BY <1>1, <1>5, <2>1, <3>2, ProgressOfOwn
    <2>2. CASE q # r
        <3>1. /\ accepted' = accepted
              /\ at'[q] = at[q] /\ local'[q] = local[q] /\ did'[q] = did[q]
            BY <1>5, <2>2, OthersAlone
        <3>2. Installs(q)' => Installs(q)
            BY <3>1 DEF Installs, Kind
        <3> QED
            BY <1>1, <3>1, <3>2, ProgressKept
    <2> QED
        BY <2>1, <2>2
<1>6. ASSUME NEW n \in Deployments, Look(n) PROVE Installs(q)' => Progress(q)'
    BY <1>3, <1>6 DEF Look
<1>7. ASSUME NEW r \in Requests, Timeout(r) PROVE Installs(q)' => Progress(q)'
    BY <1>3, <1>7 DEF Timeout
<1>8. CASE UNCHANGED vars
    BY <1>3, <1>8 DEF vars
<1> QED
    BY <1>2, <1>4, <1>5, <1>6, <1>7, <1>8 DEF Next

\* Only the last step of an installation says that it was successful.
LEMMA OnlyLeave ==
    ASSUME BInv, [Next]_vars, NEW q \in Requests, Installs(q), task[q] = Running,
           task'[q] = Finished("SUCCESSFUL")
    PROVE  LeaveInstall(q)
<1>1. Kind(q) = "install" /\ Finished("SUCCESSFUL") # Running
    BY DEF Installs, Finished, Running
<1>2. ASSUME NEW k \in Kinds, NEW n \in Deployments, Request(k, n) PROVE FALSE
    BY <1>1, <1>2 DEF Request
<1>3. ASSUME NEW n \in Deployments, Look(n) PROVE FALSE
    BY <1>1, <1>3 DEF Look
<1>4. ASSUME NEW r \in Requests, Register(r) PROVE FALSE
    BY <1>1, <1>4, Types DEF Register
<1>5. ASSUME NEW r \in Requests, Timeout(r) PROVE FALSE
    BY <1>1, <1>5, Types DEF Timeout, Finished
<1>6. ASSUME NEW r \in Requests, Function(r) PROVE LeaveInstall(q)
    <2>1. \A x : (task' = task \/ (r # q /\ task' = [task EXCEPT ![r] = x])) => FALSE
        BY <1>1, Types
    <2>2. r = q
        BY <1>6, <2>1 DEF Function, BeginInstall, InitServers, RecordDeployed, ChooseComponent,
            EndInstall, LeaveInstall, Begin, StartServers, RecordStarted, StopServers,
            RecordStopped, BeginDestroy, CheckServers, WipeServers, RecordConfigured, Goto,
            Raise, Return
    <2>3. ~RecordStarted(q) /\ ~StopServers(q) /\ ~RecordStopped(q)
        BY <1>1, NotInstalls DEF RecordStarted, StopServers, RecordStopped
    <2>4. ~CheckServers(q) /\ ~WipeServers(q) /\ ~RecordConfigured(q)
        BY <1>1, NotInstalls DEF CheckServers, WipeServers, RecordConfigured
    <2>5. ~Begin(q) /\ ~BeginDestroy(q)
        BY <1>1 DEF Begin, BeginDestroy
    <2>6. ~Raise(q)
        BY <1>1, Types DEF Raise, Return, Finished
    <2>7. \A step : ~Goto(q, step)
        BY <1>1 DEF Goto
    <2> QED
        BY <1>1, <1>6, <2>2, <2>3, <2>4, <2>5, <2>6, <2>7
        DEF Function, BeginInstall, InitServers, RecordDeployed, ChooseComponent, EndInstall,
            StartServers
<1>7. CASE UNCHANGED vars
    BY <1>1, <1>7 DEF vars
<1> QED
    BY <1>2, <1>3, <1>4, <1>5, <1>6, <1>7 DEF Next

\* With one deployment, whoever is told that an installation was successful
\* has had every one of its servers set up and every component started by it
\* (deployment_handler.py, _do_install), whatever other installations, starts,
\* stops and destructions of it ran in between, in whatever order.
THEOREM InstallTrue == ASSUME Single PROVE Spec => InstallToldTrue
<1>1. Init => PInv
    BY DEF Init, PInv, Installs
<1>2. BInv /\ PInv /\ [Next]_vars => PInv'
    BY NextPInv
<1>3. ASSUME BInv, PInv, [Next]_vars, NEW r \in Requests, task[r] = Running,
             task'[r] = Finished("SUCCESSFUL"), Kind(r) = "install"
      PROVE  {"init", "start"} \X {Name(r)} \X Components \subseteq did[r]
    <2>1. Installs(r)
        BY <1>3 DEF Installs, BInv, Accepted, Untouched, Pending, Running
    <2>2. at[r] = "recorded"
        BY <1>3, <2>1, OnlyLeave DEF LeaveInstall
    <2>3. AllSetUp(r) /\ StartedBefore(r, Len(Order) + 1)
        BY <1>3, <2>1, <2>2 DEF PInv, Progress
    <2>4. \A i \in 1..Len(Order) : <<"start", Name(r), Order[i]>> \in did[r]
        BY <2>3, Ordered DEF StartedBefore
    <2>5. \A c \in Components : <<"start", Name(r), c>> \in did[r]
        BY <2>4, Ordered
    <2>6. \A c \in Components : <<"init", Name(r), c>> \in did[r]
        BY <2>3 DEF AllSetUp
    <2> QED
        BY <2>5, <2>6
<1>4. BInv /\ PInv /\ [Next]_vars =>
        [\A r \in Requests :
            task[r] = Running /\ task'[r] = Finished("SUCCESSFUL") /\ Kind(r) = "install"
            => {"init", "start"} \X {Name(r)} \X Components \subseteq did[r]]_vars
    BY <1>3
<1> QED
    BY <1>1, <1>2, <1>4, AlwaysBInv, PTL DEF Spec, InstallToldTrue
===============================================================================
