------------------------ MODULE LifecycleRecords_proofs ------------------------
(***************************************************************************)
(* Theorems about what a deployment is recorded as, what its servers do    *)
(* and which configuration they have (module Lifecycle), for any           *)
(* components, servers and number of edits and mishaps.  The sequences of  *)
(* steps and their kinds are those of Lifecycle_proofs.                    *)
(*                                                                         *)
(* Recorded: the records that a command still has to write are behind the  *)
(* steps that make them true.  Promised: what is needed so that servers    *)
(* run only while the deployment is recorded as live, that is, for         *)
(* Lifecycle to implement DeploymentPromise.  Supplied: what applies the   *)
(* waiting configuration is behind the steps that give it to the servers,  *)
(* or they have it.                                                        *)
(***************************************************************************)
EXTENDS Lifecycle_proofs

-----------------------------------------------------------------------------
(* Kinds of steps.                                                           *)

Checks  == Of({"check"})
Wipes   == Of({"wipe"})
Stops   == Of({"stop"})
Raisers == Of({"start", "restart"})                   \* after them servers may run

\* The steps that record a status, but for those that restore one.
StatusRecords(status) == {x \in Of({"status"}) : x.arg = status /\ x.orelse # "ignore"}

StopRecords == StatusRecords("STOPPED")
DeadRecords == StatusRecords("DESTROYED")
RunRecords  == StatusRecords("RUNNING")

\* What nobody may do while servers run.
Ends == StopRecords \cup DeadRecords \cup Wipes \cup Installs

\* The config status of a new configuration, which edit-config writes first.
SaveMarks == {x \in Of({"config_status"}) : x.orelse # "ignore"}

\* The steps that give the running command its servers, if it names them all.
AllStarters == Of({"start", "restart"})
JustStarts  == Of({"start"})
Starters(o) == IF o.servers = {} THEN AllStarters ELSE JustStarts

\* The steps s with the options o.
Ordered(s, o) ==
    /\ Never(s, Raisers, Ends)
    /\ Has(s, Ends \cup Checks) => o.comps = <<>> /\ o.servers = {}
    /\ Has(s, RunRecords) => NamesAll(o.comps)
    /\ Never(s, Step, SaveMarks)

\* The instances that run although no stop that succeeded has left them running.
Obeying == up \ stayed

\* No component has all its servers running, but for one whose servers all
\* stayed through a stop.
NoneWhole ==
    \A c \in Components : {c} \X Servers \subseteq up => {c} \X Servers \subseteq stayed

Recorded ==
    /\ Ordered(todo, opts)
    /\ Behind(todo, StopRecords, Stops) \/ Obeying = {}
    /\ Behind(todo, DeadRecords \cup Wipes, Checks \cup Stops) \/ NoneWhole
    /\ NoneTwice(opts.comps) => Behind(todo, RunRecords, Starters(opts)) \/ done = Instances
    /\ Has(todo, SaveMarks) => mem = Loaded

Live == Loaded.status \in {"DEPLOYED", "STOPPED", "RUNNING"}

\* The record of a deployment that has just been installed.
Enlivens == {x \in StatusRecords("DEPLOYED") : x.orelse = "abort"}

\* Steps that no command takes.
Odd == {x \in Of({"status", "stop"}) :
            \/ x.arg = "CONFIGURED" \/ x.orelse \in {"CONFIGURED", "DESTROYED"}
            \/ x.arg = "DESTROYED" /\ x.orelse # "abort"}

Promised ==
    /\ opts # Idle => mem = Loaded
    /\ Obeying # {} => Live
    /\ lost \subseteq stayed
    /\ todo # <<>> /\ info = Absent => Head(todo).op = "create"
    /\ ~Has(todo, Odd)
    /\ Never(todo, DeadRecords, Checks \cup DeadRecords)
    /\ Never(todo, Enlivens, DeadRecords)
    /\ Has(todo, Checks \cup DeadRecords) => Live
    /\ Behind(todo, Raisers, Enlivens) \/ (Live /\ Never(todo, DeadRecords, Raisers))
    /\ Behind(todo, Installs, DeadRecords) \/ Obeying = {}

-----------------------------------------------------------------------------
(* What every step leaves to be done.                                        *)

\* What destroy -f does first to servers that run.
Forced == S("status", "RUNNING", "ignore") \o StopSteps(<<>>, {}, mem.status)

\* Steps that apply a waiting configuration and unmark it.
Applying ==
    {s \in Program : \A i \in DOMAIN s :
        s[i].op \in {"apply", "config_status"} /\ (s[i].op = "apply" \/ s[i].orelse = "ignore")}

Flow ==
    \/ Rest(todo')
    \/ /\ Head(todo).op \in {"apply", "reapply"}
       /\ \E p \in Applying : todo' = p \o Tail(todo)
    \/ Head(todo).op = "check" /\ todo' = Forced \o Tail(todo)

\* Kinds of steps that no failure and no waiting configuration brings in.
Aloof(A) ==
    \A x \in A : /\ x.op \notin {"dump", "save", "apply"}
                 /\ x.op \in {"status", "config_status"} => x.orelse # "ignore"

LEMMA AloofKinds ==
    /\ Aloof(Checks) /\ Aloof(Wipes) /\ Aloof(Stops) /\ Aloof(Raisers) /\ Aloof(Installs)
    /\ \A v : Aloof(StatusRecords(v))
    /\ Aloof(StopRecords) /\ Aloof(DeadRecords) /\ Aloof(RunRecords) /\ Aloof(Enlivens)
    /\ Aloof(SaveMarks)
    /\ \A A, B : Aloof(A) /\ Aloof(B) => Aloof(A \cup B)
    /\ Aloof(Ends)
  <1>1. /\ Aloof(Checks) /\ Aloof(Wipes) /\ Aloof(Stops) /\ Aloof(Raisers) /\ Aloof(Installs)
        /\ Aloof(SaveMarks)
    BY DEF Aloof, Checks, Wipes, Stops, Raisers, Installs, SaveMarks, Of
  <1>2. \A v : Aloof(StatusRecords(v))
    BY DEF Aloof, StatusRecords, Of
  <1>3. Aloof(StopRecords) /\ Aloof(DeadRecords) /\ Aloof(RunRecords)
    BY <1>2 DEF StopRecords, DeadRecords, RunRecords
  <1>4. Aloof(Enlivens)
    BY <1>2 DEF Aloof, Enlivens
  <1>5. \A A, B : Aloof(A) /\ Aloof(B) => Aloof(A \cup B)
    BY DEF Aloof
  <1>6. Aloof(Ends)
    BY <1>1, <1>3, <1>5 DEF Ends
  <1>7. QED  BY <1>1, <1>2, <1>3, <1>4, <1>5, <1>6

LEMMA AloofWorks ==
    ASSUME NEW A, Aloof(A)
    PROVE  Working(A) /\ \A p \in Applying : ~Has(p, A)
  <1>1. Working(A)
    BY DEF Aloof, Working
  <1>2. ASSUME NEW p \in Applying, NEW i \in DOMAIN p
        PROVE  p[i] \notin A
    BY <1>2 DEF Applying, Aloof
  <1>3. QED  BY <1>1, <1>2 DEF Has

\* The rest of the program has no more than its tail.
LEMMA RestNone ==
    ASSUME todo \in Program, todo # <<>>, NEW t, Rest(t), NEW A, Working(A), ~Has(Tail(todo), A)
    PROVE  ~Has(t, A)
  <1>1. /\ Tail(todo) \in Program
        /\ Head(todo).orelse = "skip" => Tail(todo) # <<>>
    BY ProgramTail
  <1>2. CASE t = <<>> \/ t = Tail(todo)
    BY <1>2, OfNone
  <1>3. CASE Head(todo).orelse = "skip" /\ t = Tail(Tail(todo))
    <2> DEFINE r == Tail(todo)
    <2>1. r \in Program /\ r # <<>>
      BY <1>1, <1>3
    <2>2. Has(Tail(r), A) => Has(r, A)
      BY <2>1, ProgramTyped, OfTail
    <2>3. QED  BY <2>2, <1>3
  <1>4. CASE \E x \in Good :
                /\ t = <<x>>
                /\ x.op \in {"dump", "save", "status"} /\ x.orelse \in {"abort", "ignore"}
                /\ x.op = "save" => Head(todo).orelse = "save"
                /\ x.op = "status" => x.orelse = "ignore"
    <2>1. PICK x \in Good :
                /\ t = <<x>>
                /\ x.op \in {"dump", "save", "status"}
                /\ x.op = "status" => x.orelse = "ignore"
      BY <1>4
    <2>2. x \notin A
      BY <2>1 DEF Working
    <2>3. QED  BY <2>1, <2>2, OfOne
  <1>5. QED  BY <1>2, <1>3, <1>4 DEF Rest

LEMMA FlowNone ==
    ASSUME todo \in Program, todo # <<>>, Flow, Forced \in Program, NEW A, Aloof(A),
           ~Has(Tail(todo), A), ~Has(Forced, A) \/ Head(todo).op # "check"
    PROVE  ~Has(todo', A)
  <1>1. Tail(todo) \in Program
    BY ProgramTail
  <1>2. CASE Rest(todo')
    BY <1>2, RestNone, AloofWorks
  <1>3. ASSUME NEW p \in Applying, todo' = p \o Tail(todo)
        PROVE  ~Has(todo', A)
    <2>1. p \in Program /\ ~Has(p, A)
      BY AloofWorks DEF Applying
    <2>2. QED  BY <2>1, <1>1, <1>3, Concat
  <1>4. CASE Head(todo).op = "check" /\ todo' = Forced \o Tail(todo)
    BY <1>1, <1>4, Concat
  <1>5. QED  BY <1>2, <1>3, <1>4 DEF Flow

LEMMA FlowHas ==
    ASSUME todo \in Program, todo # <<>>, Flow, Forced \in Program, NEW A, Aloof(A),
           Has(todo', A), ~Has(Forced, A) \/ Head(todo).op # "check"
    PROVE  Has(todo, A)
  <1>1. Has(Tail(todo), A)
    BY FlowNone
  <1>2. QED  BY <1>1, ProgramTyped, OfTail

LEMMA FlowNever ==
    ASSUME todo \in Program, todo # <<>>, Flow, Forced \in Program, NEW A, NEW B, Aloof(A),
           Never(todo, A, B), ~Has(Forced, A) \/ Head(todo).op # "check"
    PROVE  Never(todo', A, B)
  <1>1. Tail(todo) \in Program /\ Never(Tail(todo), A, B)
    BY ProgramTail, ProgramTyped, OfTail
  <1>2. CASE Rest(todo')
    BY <1>2, RestKeeps
  <1>3. ASSUME NEW p \in Program, ~Has(p, A), todo' = p \o Tail(todo)
        PROVE  Never(todo', A, B)
    <2>1. Never(p, A, B)
      BY <1>3, NothingToKeep
    <2>2. QED  BY <2>1, <1>1, <1>3, Concat
  <1>4. QED  BY <1>2, <1>3, AloofWorks DEF Flow, Applying

LEMMA FlowBehind ==
    ASSUME todo \in Program, todo # <<>>, Flow, Forced \in Program, NEW A, NEW B, Aloof(A),
           Behind(todo, A, B), Head(todo) \notin B, \A x \in B : x.op # "dump",
           \/ ~Has(Forced, A) \/ Head(todo).op # "check"
           \/ Behind(Forced, A, B)
    PROVE  Behind(todo', A, B)
  <1>1. Tail(todo) \in Program /\ Behind(Tail(todo), A, B)
    BY ProgramTail, ProgramTyped, OfTail
  <1>2. CASE Rest(todo')
    BY <1>2, RestKeeps, AloofWorks
  <1>3. ASSUME NEW p \in Program, Behind(p, A, B), todo' = p \o Tail(todo)
        PROVE  Behind(todo', A, B)
    BY <1>1, <1>3, Concat
  <1>4. CASE Head(todo).op \in {"apply", "reapply"} /\ \E p \in Applying : todo' = p \o Tail(todo)
    <2>1. PICK p \in Applying : todo' = p \o Tail(todo)
      BY <1>4
    <2>2. p \in Program /\ Behind(p, A, B)
      BY AloofWorks, NothingToKeep DEF Applying
    <2>3. QED  BY <2>1, <2>2, <1>3
  <1>5. CASE Head(todo).op = "check" /\ todo' = Forced \o Tail(todo)
    BY <1>3, <1>5, NothingToKeep
  <1>6. QED  BY <1>2, <1>4, <1>5 DEF Flow

-----------------------------------------------------------------------------
(* The kinds of a step.                                                      *)

LEMMA KindOf ==
    ASSUME NEW x \in Step
    PROVE  /\ x \in Checks <=> x.op = "check"
           /\ x \in Wipes <=> x.op = "wipe"
           /\ x \in Stops <=> x.op = "stop"
           /\ x \in Raisers <=> x.op \in {"start", "restart"}
           /\ x \in Installs <=> x.op = "install"
           /\ \A v : x \in StatusRecords(v) <=> x.op = "status" /\ x.arg = v /\ x.orelse # "ignore"
           /\ x \in StopRecords <=> x.op = "status" /\ x.arg = "STOPPED" /\ x.orelse # "ignore"
           /\ x \in DeadRecords <=> x.op = "status" /\ x.arg = "DESTROYED" /\ x.orelse # "ignore"
           /\ x \in RunRecords <=> x.op = "status" /\ x.arg = "RUNNING" /\ x.orelse # "ignore"
           /\ x \in SaveMarks <=> x.op = "config_status" /\ x.orelse # "ignore"
           /\ x \in Enlivens <=> x.op = "status" /\ x.arg = "DEPLOYED" /\ x.orelse = "abort"
           /\ \A o : /\ x \in Starters(o) => x.op \in {"start", "restart"}
                     /\ x.op = "start" => x \in Starters(o)
                     /\ x.op = "restart" /\ o.servers = {} => x \in Starters(o)
                     /\ x \in Starters(o) /\ x.op = "restart" => o.servers = {}
  <1>1. /\ x \in Checks <=> x.op = "check"
        /\ x \in Wipes <=> x.op = "wipe"
        /\ x \in Stops <=> x.op = "stop"
        /\ x \in Raisers <=> x.op \in {"start", "restart"}
        /\ x \in Installs <=> x.op = "install"
    BY DEF Checks, Wipes, Stops, Raisers, Installs, Of
  <1>2. \A v : x \in StatusRecords(v) <=> x.op = "status" /\ x.arg = v /\ x.orelse # "ignore"
    BY DEF StatusRecords, Of
  <1>3. x \in Enlivens <=> x.op = "status" /\ x.arg = "DEPLOYED" /\ x.orelse = "abort"
    BY <1>2 DEF Enlivens
  <1>4. \A o : /\ x \in Starters(o) => x.op \in {"start", "restart"}
               /\ x.op = "start" => x \in Starters(o)
               /\ x.op = "restart" /\ o.servers = {} => x \in Starters(o)
               /\ x \in Starters(o) /\ x.op = "restart" => o.servers = {}
    BY DEF Starters, AllStarters, JustStarts, Of
  <1>5. x \in SaveMarks <=> x.op = "config_status" /\ x.orelse # "ignore"
    BY DEF SaveMarks, Of
  <1>6. QED  BY <1>1, <1>2, <1>3, <1>4, <1>5 DEF StopRecords, DeadRecords, RunRecords

LEMMA EndOf ==
    ASSUME NEW x \in Step
    PROVE  x \in Ends <=>
              \/ x.op \in {"wipe", "install"}
              \/ x.op = "status" /\ x.arg \in {"STOPPED", "DESTROYED"} /\ x.orelse # "ignore"
  BY KindOf DEF Ends

\* A program of a single step.
Single(s, x) == s \in Program /\ x \in Good /\ \A A : Has(s, A) <=> x \in A

LEMMA OneElement ==
    ASSUME NEW T, NEW s \in Seq(T), NEW x, s = <<x>>
    PROVE  x \in T
  <1>1. s # <<>>
    OBVIOUS
  <1>2. Head(s) \in T
    BY <1>1, HeadTailProperties
  <1>3. Head(s) = s[1] /\ s[1] = x
    OBVIOUS
  <1>4. QED  BY <1>2, <1>3

LEMMA SingleStep ==
    ASSUME NEW op, NEW arg, NEW orelse, NEW ops, S(op, arg, orelse) \in Runs(ops),
           op \in Ops, arg \in Status \cup ConfigStatus \cup {""},
           orelse \in {"abort", "ignore", "skip", "dump", "save"} \cup Status
    PROVE  \E x \in Step : /\ x.op = op /\ x.arg = arg /\ x.orelse = orelse
                           /\ Single(S(op, arg, orelse), x)
  <1> DEFINE x == [op |-> op, arg |-> arg, orelse |-> orelse]
             s == S(op, arg, orelse)
  <1>1. x \in Step /\ x.op = op /\ x.arg = arg /\ x.orelse = orelse
    BY DEF Step
  <1>2. s = <<x>>
    BY DEF S
  <1>3. s \in Program /\ s \in Seq(Good)
    BY NoneOf, ProgramTyped
  <1> HIDE DEF x, s
  <1>4. x \in Good
    BY <1>2, <1>3, OneElement
  <1>5. \A A : Has(s, A) <=> x \in A
    BY <1>2, OfOne
  <1>6. QED  BY <1>1, <1>3, <1>4, <1>5 DEF Single, s

\* What destroy -f does first.
LEMMA ForcedFacts ==
    ASSUME mem.status \in Status
    PROVE  /\ Forced \in Program
           /\ ~Has(Forced, Checks) /\ ~Has(Forced, Wipes) /\ ~Has(Forced, Raisers)
           /\ ~Has(Forced, Installs) /\ ~Has(Forced, DeadRecords) /\ ~Has(Forced, RunRecords)
           /\ ~Has(Forced, SaveMarks) /\ ~Has(Forced, Enlivens)
           /\ Has(Forced, Stops) /\ Behind(Forced, StopRecords, Stops)
           /\ \A A : Has(Forced, A) => \E x \in A : x.op \in {"stop", "status"}
  <1> DEFINE e == mem.status
             a == S("status", "RUNNING", "ignore")
             b == S("stop", "", e)
             c == S("status", "STOPPED", e)
             ops == {"stop", "status"}
  <1>1. Forced = a \o (b \o c)
    BY DEF Forced, StopSteps, When
  <1>2. /\ {"RUNNING", "STOPPED"} \subseteq Status /\ e \in Status
        /\ ops \subseteq Ops
    BY DEF Status, Ops
  <1> HIDE DEF e
  <1>3. a \in Runs(ops) /\ b \in Runs(ops) /\ c \in Runs(ops)
    BY <1>2, KnownSteps
  <1>4. /\ "status" \in ops /\ "stop" \in ops
    OBVIOUS
  <1>5. \E x \in Step : x.op = "status" /\ x.arg = "RUNNING" /\ x.orelse = "ignore" /\ Single(a, x)
    BY <1>2, <1>3, <1>4, SingleStep
  <1>6. \E y \in Step : y.op = "stop" /\ y.arg = "" /\ y.orelse = e /\ Single(b, y)
    BY <1>2, <1>3, <1>4, SingleStep
  <1>7. \E z \in Step : z.op = "status" /\ z.arg = "STOPPED" /\ z.orelse = e /\ Single(c, z)
    BY <1>2, <1>3, <1>4, SingleStep
  <1> HIDE DEF a, b, c, ops
  <1>8. PICK x \in Step : x.op = "status" /\ x.arg = "RUNNING" /\ x.orelse = "ignore" /\ Single(a, x)
    BY <1>5
  <1>9. PICK y \in Step : y.op = "stop" /\ y.arg = "" /\ y.orelse = e /\ Single(b, y)
    BY <1>6
  <1>10. PICK z \in Step : z.op = "status" /\ z.arg = "STOPPED" /\ z.orelse = e /\ Single(c, z)
    BY <1>7
  <1>11. /\ b \o c \in Program
         /\ \A A : Has(b \o c, A) <=> Has(b, A) \/ Has(c, A)
         /\ \A A, B : Behind(b, A, B) /\ (Has(b, B) \/ Behind(c, A, B)) => Behind(b \o c, A, B)
    BY <1>9, <1>10, Concat DEF Single
  <1>12. /\ Forced \in Program
         /\ \A A : Has(Forced, A) <=> Has(a, A) \/ Has(b \o c, A)
         /\ \A A, B : Behind(a, A, B) /\ (Has(a, B) \/ Behind(b \o c, A, B)) => Behind(Forced, A, B)
    BY <1>1, <1>8, <1>11, Concat DEF Single
  <1>13. \A A : Has(Forced, A) <=> x \in A \/ y \in A \/ z \in A
    BY <1>8, <1>9, <1>10, <1>11, <1>12 DEF Single
  <1>14. /\ ~Has(Forced, Checks) /\ ~Has(Forced, Wipes) /\ ~Has(Forced, Raisers)
         /\ ~Has(Forced, Installs) /\ ~Has(Forced, DeadRecords) /\ ~Has(Forced, RunRecords)
         /\ ~Has(Forced, SaveMarks) /\ ~Has(Forced, Enlivens)
         /\ Has(Forced, Stops)
    BY <1>8, <1>9, <1>10, <1>13, KindOf
  <1>15. Behind(Forced, StopRecords, Stops)
    <2>1. ~Has(a, StopRecords) /\ ~Has(b, StopRecords) /\ Has(b, Stops)
      BY <1>8, <1>9, KindOf DEF Single
    <2>2. Behind(b \o c, StopRecords, Stops)
      BY <2>1, <1>11, NothingToKeep
    <2>3. QED  BY <2>1, <2>2, <1>12, NothingToKeep
  <1>16. \A A : Has(Forced, A) => \E w \in A : w.op \in {"stop", "status"}
    BY <1>8, <1>9, <1>10, <1>13
  <1>17. QED  BY <1>12, <1>14, <1>15, <1>16

-----------------------------------------------------------------------------
(* What every step does.                                                     *)

LEMMA ApplyingSteps ==
    /\ Unmark \in Applying
    /\ \A c : When(c, S("apply", "", "abort")) \in Applying
  <1>1. ASSUME NEW op, NEW arg, NEW orelse, S(op, arg, orelse) \in Program,
               op = "apply" \/ (op = "config_status" /\ orelse = "ignore")
        PROVE  S(op, arg, orelse) \in Applying
    <2> DEFINE x == [op |-> op, arg |-> arg, orelse |-> orelse]
               s == <<x>>
    <2>1. x.op = op /\ x.orelse = orelse
      OBVIOUS
    <2>2. S(op, arg, orelse) = s
      BY DEF S
    <2> HIDE DEF x
    <2>3. DOMAIN s = {1} /\ s[1] = x
      OBVIOUS
    <2> HIDE DEF s
    <2>4. s \in Program
      BY <1>1, <2>2
    <2>5. s \in Applying
      BY <1>1, <2>1, <2>3, <2>4 DEF Applying
    <2>6. QED  BY <2>2, <2>5
  <1>2. Unmark \in Program /\ S("apply", "", "abort") \in Program
    <2>1. Unmark \in Runs({"config_status"}) /\ S("apply", "", "abort") \in Runs({"apply"})
      BY KnownSteps DEF Unmark
    <2>2. QED  BY <2>1, NoneOf
  <1>3. Unmark \in Applying /\ S("apply", "", "abort") \in Applying
    BY <1>1, <1>2 DEF Unmark
  <1>4. <<>> \in Applying
    <2>1. <<>> \in Program /\ DOMAIN <<>> = {}
      BY NoStep, ProgramRuns
    <2>2. QED  BY <2>1 DEF Applying
  <1>5. QED  BY <1>3, <1>4 DEF When

\* A stop that fails ends the command, or only restores a status.
LEMMA FailedStop ==
    ASSUME TInv, todo # <<>>, Head(todo).op = "stop", Fail, NEW A, Aloof(A)
    PROVE  ~Has(todo', A)
  <1>1. Head(todo) \in Good /\ todo \in Program
    BY HeadKind
  <1>2. Head(todo).orelse = "abort" \/ Head(todo).orelse \in Status
    BY <1>1 DEF Good
  <1>3. CASE Head(todo).orelse = "abort"
    <2>1. todo' = <<>>  BY <1>1, <1>3, FailLeavesRest
    <2>2. QED  BY <2>1, OfNone
  <1>4. CASE Head(todo).orelse \in Status
    <2> DEFINE x == [op |-> "status", arg |-> Head(todo).orelse, orelse |-> "ignore"]
    <2>1. todo' = <<x>>
      BY <1>4 DEF Fail, Status, S
    <2>2. x.op = "status" /\ x.orelse = "ignore"
      OBVIOUS
    <2> HIDE DEF x
    <2>3. x \notin A
      BY <2>2 DEF Aloof
    <2>4. QED  BY <2>1, <2>3, OfOne
  <1>5. QED  BY <1>2, <1>3, <1>4

\* The effect of a step on the servers and on what is to be done.
Effect ==
    /\ opts' = opts /\ Flow
    /\ Head(todo).op \notin {"start", "restart"} =>
         up' \subseteq up /\ stayed \subseteq stayed' /\ done' = done
    /\ Head(todo).op = "start" =>
         todo' = <<>> \/ (todo' = Tail(todo) /\ done' = done \cup Targets)
    /\ Head(todo).op = "restart" =>
         todo' = <<>> \/ (todo' = Tail(todo) /\ done' = done \cup Chosen)
    /\ done \subseteq done'
    /\ Head(todo).op = "stop" =>
         \/ todo' = Tail(todo) /\ Obeying' \subseteq Obeying \ Chosen
         \/ \A A : Aloof(A) => ~Has(todo', A)
    /\ Head(todo).op = "check" =>
         /\ up' = up /\ stayed' = stayed
         /\ \/ todo' = <<>>
            \/ todo' = Tail(todo) /\ StatusCheck = Stopped
            \/ todo' = Forced \o Tail(todo)

LEMMA FilesEffect ==
    ASSUME TInv, FileStep
    PROVE  todo # <<>> /\ Effect
  <1>1. /\ UNCHANGED <<opts, cluster, done>> /\ todo # <<>>
        /\ Head(todo).op \in {"status", "config_status", "info", "create", "copy", "apply",
                              "reapply", "dump", "save"}
    BY DEF FileStep, DumpDeployInfo, CreateDeployConfig, CopyTempConfig, ApplyTempConfig,
           ReapplyTempConfig, DumpDeployConfig, Save, Doing
  <1>2. up' = up /\ stayed' = stayed /\ done' = done /\ opts' = opts
    BY <1>1 DEF cluster
  <1>3. todo \in Program /\ Rest(<<>>) /\ Rest(Tail(todo))
    BY <1>1, HeadKind
  <1>4. (Proceed \/ Abort \/ Fail) => Rest(todo')
    BY <1>1, <1>3, FailLeavesRest DEF Proceed, Abort
  <1>5. CASE ApplyTempConfig
    <2>1. CASE Fail
      BY <2>1, <1>1, <1>2, <1>4 DEF Effect, Flow
    <2>2. CASE todo' = Unmark \o Tail(todo)
      <3>1. Head(todo).op = "apply"
        BY <1>5 DEF ApplyTempConfig, Doing
      <3>2. Flow
        BY <2>2, <3>1, ApplyingSteps DEF Flow
      <3>3. QED  BY <3>1, <3>2, <1>1, <1>2 DEF Effect
    <2>3. QED  BY <1>5, <2>1, <2>2 DEF ApplyTempConfig, Unmark
  <1>6. CASE ReapplyTempConfig
    <2>1. Head(todo).op = "reapply" /\ todo' = When(Changed(mem), S("apply", "", "abort")) \o Tail(todo)
      BY <1>6 DEF ReapplyTempConfig, Doing
    <2>2. Flow
      BY <2>1, ApplyingSteps DEF Flow
    <2>3. QED  BY <2>1, <2>2, <1>1, <1>2 DEF Effect
  <1>7. CASE DumpDeployInfo \/ CreateDeployConfig \/ CopyTempConfig \/ DumpDeployConfig \/ Save
    <2>1. Proceed \/ Abort \/ Fail
      BY <1>7 DEF DumpDeployInfo, CreateDeployConfig, CopyTempConfig, DumpDeployConfig, Save
    <2>2. QED  BY <2>1, <1>1, <1>2, <1>4 DEF Effect, Flow
  <1>8. QED  BY <1>5, <1>6, <1>7 DEF FileStep

LEMMA ServersEffect ==
    ASSUME TInv, ServerStep
    PROVE  todo # <<>> /\ Effect
  <1>1. /\ opts' = opts /\ todo # <<>>
    BY DEF ServerStep, InstallRepositories, StartServers, StopServers, RestartServers,
           ReloadServers, CheckServers, WipeServers, Doing
  <1>2. todo \in Program /\ Rest(Tail(todo)) /\ Head(todo) \in Good
    BY <1>1, HeadKind
  <1>3. /\ Proceed \/ Fail => Rest(todo')
        /\ Fail /\ Head(todo).orelse = "abort" => todo' = <<>>
    BY <1>1, <1>2, FailLeavesRest DEF Proceed
  <1>4. CASE InstallRepositories
    <2>1. /\ Head(todo).op = "install" /\ (Proceed \/ Fail) /\ done' = done
          /\ up' \subseteq up /\ stayed' = stayed
      BY <1>4 DEF InstallRepositories, Doing, RemoveFiles, cluster
    <2>2. QED  BY <2>1, <1>1, <1>3 DEF Effect, Flow
  <1>5. CASE StartServers
    <2>1. /\ Head(todo).op = "start"
          /\ (Proceed /\ done' = done \cup Targets) \/ (Fail /\ done' = done)
      BY <1>5 DEF StartServers, Doing
    <2>2. Head(todo).orelse = "abort"
      BY <2>1, <1>2 DEF Good
    <2>3. QED  BY <2>1, <2>2, <1>1, <1>3 DEF Effect, Flow, Proceed
  <1>6. CASE StopServers
    <2>1. /\ Head(todo).op = "stop" /\ done' = done /\ up' \subseteq up
          /\ stayed \subseteq stayed'
          /\ (Proceed /\ Obeying' \subseteq Obeying \ Chosen) \/ Fail
      BY <1>6 DEF StopServers, Doing, Obeying
    <2>2. Fail => \A A : Aloof(A) => ~Has(todo', A)
      BY <2>1, <1>1, FailedStop
    <2>3. QED  BY <2>1, <2>2, <1>1, <1>3 DEF Effect, Flow, Proceed
  <1>7. CASE RestartServers
    <2>1. /\ Head(todo).op = "restart"
          /\ (Proceed /\ done' = done \cup Chosen) \/ (Fail /\ done' = done)
      BY <1>7 DEF RestartServers, Doing
    <2>2. Head(todo).orelse = "abort"
      BY <2>1, <1>2 DEF Good
    <2>3. QED  BY <2>1, <2>2, <1>1, <1>3 DEF Effect, Flow, Proceed
  <1>8. CASE ReloadServers
    <2>1. /\ Head(todo).op = "reload" /\ (Proceed \/ Fail) /\ done' = done /\ up' = up
          /\ stayed' = stayed
      BY <1>8 DEF ReloadServers, Doing
    <2>2. QED  BY <2>1, <1>1, <1>3 DEF Effect, Flow
  <1>9. CASE CheckServers
    <2>1. /\ Head(todo).op = "check" /\ done' = done /\ up' = up /\ stayed' = stayed
          /\ \/ Proceed /\ StatusCheck = Stopped
             \/ Fail
             \/ todo' = Forced \o Tail(todo)
      BY <1>9 DEF CheckServers, Doing, cluster, Forced
    <2>2. Head(todo).orelse = "abort"
      BY <2>1, <1>2 DEF Good
    <2>3. Flow
      BY <2>1, <1>3 DEF Flow
    <2>4. QED  BY <2>1, <2>2, <2>3, <1>1, <1>3 DEF Effect, Proceed
  <1>10. CASE WipeServers
    <2>1. /\ Head(todo).op = "wipe" /\ Proceed /\ done' = done /\ up' \subseteq up
          /\ stayed' = stayed
      BY <1>10 DEF WipeServers, Doing, RemoveFiles
    <2>2. QED  BY <2>1, <1>1, <1>3 DEF Effect, Flow
  <1>11. QED  BY <1>4, <1>5, <1>6, <1>7, <1>8, <1>9, <1>10 DEF ServerStep

-----------------------------------------------------------------------------
(* The servers that the options name.                                        *)

LEMMA WholeTargets ==
    ASSUME opts.comps = <<>>
    PROVE  /\ Targets = Instances
           /\ opts.servers = {} => Chosen = Instances
  BY DEF Targets, Chosen, Instances

LEMMA NamedTargets ==
    ASSUME TypeOK, NoneTwice(opts.comps), NamesAll(opts.comps)
    PROVE  /\ Targets = Instances
           /\ opts.servers = {} => Chosen = Instances
  <1>1. CASE opts.comps = <<>>
    BY <1>1, WholeTargets
  <1>2. CASE opts.comps # <<>>
    <2> DEFINE c == opts.comps
    <2>1. c \in ComponentLists
      BY DEF TypeOK, Options
    <2>2. /\ ToSet(c) \subseteq Components /\ IsFiniteSet(Components)
          /\ Cardinality(Components) = Len(Order)
      BY <2>1, Constants, LifecycleAssumption
    <2>3. Cardinality(ToSet(c)) = Len(c)
      BY DEF NoneTwice
    <2>4. Len(c) = Len(Order) \/ Len(c) = 0
      BY DEF NamesAll
    <2>5. CASE Len(c) = Len(Order)
      <3>1. ToSet(c) = Components
        BY <2>2, <2>3, <2>5, FS_Subset
      <3>2. QED  BY <3>1, <1>2 DEF Targets, Chosen, Instances
    <2>6. Len(c) # 0
      <3>1. c \in Seq(Components)
        BY <2>1, LifecycleAssumption
      <3>2. QED  BY <3>1, <1>2, EmptySeq
    <2>7. QED  BY <2>4, <2>5, <2>6
  <1>3. QED  BY <1>1, <1>2

\* cluster_status_check, although it takes False for 0: no component of a
\* cluster that counts as stopped has all its servers running.
LEMMA StoppedNoneWhole ==
    ASSUME StatusCheck = Stopped
    PROVE  NoneWhole
  <1> DEFINE st == [n \in DOMAIN Order |->
                        ComponentStatus(Servers, {s \in Servers : <<Order[n], s>> \in up})]
  <1>1. ClusterStatusOf(st) = Stopped
    BY DEF StatusCheck
  <1> HIDE DEF st
  <1>2. st[1] = Stopped /\ \A i \in DOMAIN st : PyEqual(st[1], st[i])
    BY <1>1 DEF ClusterStatusOf, Stopped, Mixed
  <1>3. ASSUME NEW n \in DOMAIN Order
        PROVE  ~({Order[n]} \X Servers \subseteq up)
    <2>1. DOMAIN st = DOMAIN Order
      BY DEF st
    <2>2. st[n] = ComponentStatus(Servers, {s \in Servers : <<Order[n], s>> \in up})
      BY <1>3 DEF st
    <2>3. PyEqual(Stopped, st[n])
      BY <1>2, <1>3, <2>1
    <2>4. st[n] # Running
      BY <2>3 DEF PyEqual, Stopped, Mixed, Running
    <2>5. ~(Servers \subseteq {s \in Servers : <<Order[n], s>> \in up})
      BY <2>2, <2>4 DEF ComponentStatus
    <2>6. PICK s \in Servers : <<Order[n], s>> \notin up
      BY <2>5
    <2>7. QED  BY <2>6
  <1>4. QED  BY <1>3 DEF NoneWhole, Components, ToSet

LEMMA NoneUp ==
    ASSUME Obeying' = {}
    PROVE  NoneWhole'
  BY DEF NoneWhole, Obeying

LEMMA FewerUp ==
    ASSUME up' \subseteq up, stayed \subseteq stayed', NoneWhole
    PROVE  NoneWhole'
  BY DEF NoneWhole

-----------------------------------------------------------------------------
(* Steps keep what was recorded true.                                        *)

LEMMA KindsOfEnds ==
    /\ StopRecords \subseteq Ends /\ DeadRecords \cup Wipes \subseteq Ends
    /\ \A s, A, B : Has(s, A) /\ A \subseteq B => Has(s, B)
    /\ \A s, A, B : Has(s, A \cup B) <=> Has(s, A) \/ Has(s, B)
  BY DEF Ends, Has

\* What a step needs to be followed.
LEMMA StepFacts ==
    ASSUME TInv, Recorded, FileStep \/ ServerStep
    PROVE  /\ TypeOK /\ TypeOK' /\ todo \in Program /\ todo # <<>> /\ Effect /\ Flow
           /\ Forced \in Program /\ Head(todo) \in Step /\ opts' = opts
           /\ \A A, B : /\ Has(todo, A) <=> Head(todo) \in A \/ Has(Tail(todo), A)
                        /\ Never(todo, A, B) /\ Head(todo) \in A => ~Has(Tail(todo), B)
  <1>1. TInv'
    BY TInvNext DEF Next
  <1>2. todo # <<>> /\ Effect
    BY FilesEffect, ServersEffect
  <1>3. todo \in Program
    BY DEF TInv, Formed
  <1>4. mem.status \in Status
    BY DEF TInv, TypeOK, DeployInfo
  <1>5. Forced \in Program
    BY <1>4, ForcedFacts
  <1>6. Head(todo) \in Step
    BY <1>2, <1>3, ProgramTail DEF Good
  <1>7. \A A, B : /\ Has(todo, A) <=> Head(todo) \in A \/ Has(Tail(todo), A)
                  /\ Never(todo, A, B) /\ Head(todo) \in A => ~Has(Tail(todo), B)
    BY <1>2, <1>3, ProgramTyped, OfTail
  <1>8. QED  BY <1>1, <1>2, <1>3, <1>5, <1>6, <1>7 DEF TInv, Effect

LEMMA ForcedTyped ==
    ASSUME TypeOK
    PROVE  mem.status \in Status
  BY DEF TypeOK, DeployInfo

LEMMA OrderKept ==
    ASSUME TInv, Recorded, FileStep \/ ServerStep
    PROVE  Ordered(todo', opts') /\ ~Has(todo', SaveMarks)
  <1>1. /\ TypeOK /\ todo \in Program /\ todo # <<>> /\ Flow /\ Forced \in Program
        /\ Head(todo) \in Step /\ opts' = opts /\ Ordered(todo, opts)
        /\ \A A, B : /\ Has(todo, A) <=> Head(todo) \in A \/ Has(Tail(todo), A)
                     /\ Never(todo, A, B) /\ Head(todo) \in A => ~Has(Tail(todo), B)
    BY StepFacts DEF Recorded
  <1>2. mem.status \in Status
    BY <1>1, ForcedTyped
  <1>3. Never(todo', Raisers, Ends)
    BY <1>1, <1>2, FlowNever, AloofKinds, ForcedFacts DEF Ordered
  <1>4. Has(todo', Ends \cup Checks) => opts.comps = <<>> /\ opts.servers = {}
    <2>1. CASE Head(todo).op = "check"
      <3>1. Head(todo) \in Checks
        BY <2>1, <1>1, KindOf
      <3>2. Has(todo, Ends \cup Checks)
        BY <3>1, <1>1, KindsOfEnds
      <3>3. QED  BY <3>2, <1>1 DEF Ordered
    <2>2. CASE Head(todo).op # "check"
      <3>1. Aloof(Ends \cup Checks)
        BY AloofKinds
      <3>2. Has(todo', Ends \cup Checks) => Has(todo, Ends \cup Checks)
        BY <3>1, <2>2, <1>1, FlowHas
      <3>3. QED  BY <3>2, <1>1 DEF Ordered
    <2>3. QED  BY <2>1, <2>2
  <1>5. Has(todo', RunRecords) => NamesAll(opts.comps)
    BY <1>1, <1>2, FlowHas, AloofKinds, ForcedFacts DEF Ordered
  <1>6. ~Has(todo', SaveMarks)
    <2>1. ~Has(Tail(todo), SaveMarks)
      BY <1>1 DEF Ordered
    <2>2. QED  BY <2>1, <1>1, <1>2, FlowNone, AloofKinds, ForcedFacts
  <1>7. Never(todo', Step, SaveMarks)
    BY <1>6, NothingToKeep
  <1>8. QED  BY <1>1, <1>3, <1>4, <1>5, <1>6, <1>7 DEF Ordered

LEMMA WholeStop ==
    ASSUME TInv, Recorded, FileStep \/ ServerStep, Head(todo).op = "stop",
           NEW A, Aloof(A), A \subseteq Ends
    PROVE  ~Has(todo', A) \/ Obeying' = {}
  <1>1. /\ TypeOK /\ Effect /\ Ordered(todo, opts)
        /\ Has(todo, Ends) <=> Head(todo) \in Ends \/ Has(Tail(todo), Ends)
    BY StepFacts DEF Recorded
  <1>2. CASE todo' = Tail(todo) /\ Obeying' \subseteq Obeying \ Chosen
    <2>1. CASE Has(Tail(todo), A)
      <3>1. Has(todo, Ends \cup Checks)
        BY <2>1, <1>1, KindsOfEnds
      <3>2. Chosen = Instances
        BY <3>1, <1>1, WholeTargets DEF Ordered
      <3>3. Obeying \subseteq Instances
        BY <1>1 DEF TypeOK, Obeying
      <3>4. QED  BY <3>2, <3>3, <1>2
    <2>2. QED  BY <2>1, <1>2
  <1>3. QED  BY <1>1, <1>2 DEF Effect

LEMMA StopsKept ==
    ASSUME TInv, Recorded, FileStep \/ ServerStep
    PROVE  Behind(todo', StopRecords, Stops) \/ Obeying' = {}
  <1>1. /\ TypeOK /\ todo \in Program /\ todo # <<>> /\ Flow /\ Forced \in Program /\ Effect
        /\ Head(todo) \in Step /\ Ordered(todo, opts)
        /\ Never(todo, Raisers, Ends) /\ Head(todo) \in Raisers => ~Has(Tail(todo), Ends)
    BY StepFacts DEF Recorded
  <1>2. mem.status \in Status
    BY <1>1, ForcedTyped
  <1>3. Aloof(StopRecords) /\ StopRecords \subseteq Ends
    BY AloofKinds, KindsOfEnds
  <1>4. CASE Head(todo).op = "stop"
    BY <1>3, <1>4, WholeStop, NothingToKeep
  <1>5. CASE Head(todo).op \in {"start", "restart"}
    <2>1. Head(todo) \in Raisers /\ ~Has(Tail(todo), Ends)
      BY <1>1, <1>5, KindOf DEF Ordered
    <2>2. ~Has(Tail(todo), StopRecords)
      BY <2>1, <1>3, KindsOfEnds
    <2>3. ~Has(todo', StopRecords)
      BY <2>2, <1>1, <1>3, <1>5, FlowNone
    <2>4. QED  BY <2>3, NothingToKeep
  <1>6. CASE Head(todo).op \notin {"stop", "start", "restart"}
    <2>1. CASE Obeying = {}
      BY <2>1, <1>1, <1>6 DEF Effect, Obeying
    <2>2. CASE Behind(todo, StopRecords, Stops)
      <3>1. Head(todo) \notin Stops /\ \A x \in Stops : x.op # "dump"
        BY <1>1, <1>6, KindOf DEF Stops, Of
      <3>2. Behind(Forced, StopRecords, Stops)
        BY <1>2, ForcedFacts
      <3>3. QED  BY <3>1, <3>2, <2>2, <1>1, <1>3, FlowBehind
    <2>3. QED  BY <2>1, <2>2 DEF Recorded
  <1>7. QED  BY <1>4, <1>5, <1>6

LEMMA WipesKept ==
    ASSUME TInv, Recorded, FileStep \/ ServerStep
    PROVE  Behind(todo', DeadRecords \cup Wipes, Checks \cup Stops) \/ NoneWhole'
  <1> DEFINE A == DeadRecords \cup Wipes
             B == Checks \cup Stops
  <1>1. /\ TypeOK /\ todo \in Program /\ todo # <<>> /\ Flow /\ Forced \in Program /\ Effect
        /\ Head(todo) \in Step /\ Ordered(todo, opts)
        /\ Never(todo, Raisers, Ends) /\ Head(todo) \in Raisers => ~Has(Tail(todo), Ends)
    BY StepFacts DEF Recorded
  <1>2. mem.status \in Status
    BY <1>1, ForcedTyped
  <1>3. Aloof(A) /\ A \subseteq Ends
    BY AloofKinds, KindsOfEnds
  <1>4. ~Has(Forced, A) /\ Has(Forced, B)
    BY <1>2, ForcedFacts, KindsOfEnds
  <1>5. /\ Head(todo) \in B <=> Head(todo).op \in {"check", "stop"}
        /\ \A x \in B : x.op # "dump"
    BY <1>1, KindOf DEF Checks, Stops, Of
  <1>6. Behind(todo, A, B) \/ NoneWhole
    BY DEF Recorded
  <1> HIDE DEF A, B
  <1>7. CASE Head(todo).op = "stop"
    BY <1>3, <1>7, WholeStop, NothingToKeep, NoneUp DEF A, B
  <1>8. CASE Head(todo).op \in {"start", "restart"}
    <2>1. Head(todo) \in Raisers /\ ~Has(Tail(todo), Ends)
      BY <1>1, <1>8, KindOf DEF Ordered
    <2>2. ~Has(Tail(todo), A)
      BY <2>1, <1>3, KindsOfEnds
    <2>3. ~Has(todo', A)
      BY <2>2, <1>1, <1>3, <1>8, FlowNone
    <2>4. QED  BY <2>3, NothingToKeep DEF A, B
  <1>9. CASE Head(todo).op = "check"
    <2>1. CASE todo' = <<>>
      BY <2>1, OfNone
    <2>2. CASE todo' = Tail(todo) /\ StatusCheck = Stopped
      <3>1. NoneWhole
        BY <2>2, StoppedNoneWhole
      <3>2. QED  BY <3>1, <1>1, <1>9, FewerUp DEF Effect
    <2>3. CASE todo' = Forced \o Tail(todo)
      <3>1. Behind(Forced, A, B) /\ Tail(todo) \in Program
        BY <1>1, <1>4, NothingToKeep, ProgramTail
      <3>2. Behind(todo', A, B)
        BY <3>1, <2>3, <1>1, <1>4, Concat
      <3>3. QED  BY <3>2 DEF A, B
    <2>4. QED  BY <2>1, <2>2, <2>3, <1>1, <1>9 DEF Effect
  <1>10. CASE Head(todo).op \notin {"check", "stop", "start", "restart"}
    <2>1. CASE NoneWhole
      BY <2>1, <1>1, <1>10, FewerUp DEF Effect
    <2>2. CASE Behind(todo, A, B)
      <3>1. Behind(todo', A, B)
        BY <2>2, <1>1, <1>3, <1>4, <1>5, <1>10, FlowBehind
      <3>2. QED  BY <3>1 DEF A, B
    <2>3. QED  BY <2>1, <2>2, <1>6
  <1>11. QED  BY <1>7, <1>8, <1>9, <1>10

LEMMA StartsKept ==
    ASSUME TInv, Recorded, NoneTwice(opts.comps), FileStep \/ ServerStep
    PROVE  Behind(todo', RunRecords, Starters(opts')) \/ done' = Instances
  <1>1. /\ TypeOK /\ TypeOK' /\ todo \in Program /\ todo # <<>> /\ Flow /\ Forced \in Program
        /\ Head(todo) \in Step /\ Ordered(todo, opts) /\ Effect /\ opts' = opts
        /\ Has(todo, RunRecords) <=> Head(todo) \in RunRecords \/ Has(Tail(todo), RunRecords)
    BY StepFacts DEF Recorded
  <1>2. mem.status \in Status
    BY <1>1, ForcedTyped
  <1>3. Aloof(RunRecords) /\ ~Has(Forced, RunRecords)
    BY <1>2, AloofKinds, ForcedFacts
  <1>4. done \subseteq done' /\ done \subseteq Instances /\ done' \subseteq Instances
    BY <1>1 DEF Effect, TypeOK
  <1>5. CASE Head(todo) \in Starters(opts)
    <2>1. Head(todo).op = "start" \/ (Head(todo).op = "restart" /\ opts.servers = {})
      BY <1>1, <1>5, KindOf
    <2>2. CASE todo' = <<>>
      BY <2>2, OfNone
    <2>3. CASE todo' # <<>> /\ Has(Tail(todo), RunRecords)
      <3>1. NamesAll(opts.comps)
        BY <2>3, <1>1 DEF Ordered
      <3>2. Targets = Instances /\ (opts.servers = {} => Chosen = Instances)
        BY <3>1, <1>1, NamedTargets
      <3>3. done' = done \cup Targets \/ (done' = done \cup Chosen /\ opts.servers = {})
        BY <2>1, <2>3, <1>1 DEF Effect
      <3>4. QED  BY <3>2, <3>3, <1>4
    <2>4. CASE todo' # <<>> /\ ~Has(Tail(todo), RunRecords)
      <3>1. todo' = Tail(todo)
        BY <2>1, <2>4, <1>1 DEF Effect
      <3>2. QED  BY <3>1, <2>4, NothingToKeep
    <2>5. QED  BY <2>2, <2>3, <2>4
  <1>6. CASE Head(todo) \notin Starters(opts) /\ done = Instances
    BY <1>4, <1>6
  <1>7. CASE Head(todo) \notin Starters(opts) /\ Behind(todo, RunRecords, Starters(opts))
    <2>1. \A x \in Starters(opts) : x.op # "dump"
      BY DEF Starters, AllStarters, JustStarts, Of
    <2>2. Behind(todo', RunRecords, Starters(opts))
      BY <2>1, <1>1, <1>3, <1>7, FlowBehind
    <2>3. QED  BY <2>2, <1>1
  <1>8. QED  BY <1>5, <1>6, <1>7 DEF Recorded

LEMMA StepsRecord ==
    ASSUME TInv, Recorded, FileStep \/ ServerStep
    PROVE  Recorded'
  BY OrderKept, StopsKept, WipesKept, StartsKept, StepFacts DEF Recorded, Ordered

-----------------------------------------------------------------------------
(* The programs of the commands are in order.                                *)

\* The steps s are fit for a command with the options o.
Fit(s, o) ==
    /\ s \in Program /\ Ordered(s, o)
    /\ Behind(s, StopRecords, Stops)
    /\ Behind(s, DeadRecords \cup Wipes, Checks \cup Stops)
    /\ Behind(s, RunRecords, Starters(o))

Whole(o) == o.comps = <<>> /\ o.servers = {}

LEMMA FitConcat ==
    ASSUME NEW o, NEW p, NEW t, Fit(p, o), Fit(t, o),
           Has(p, Raisers) => ~Has(t, Ends), ~Has(t, SaveMarks)
    PROVE  Fit(p \o t, o)
  <1> DEFINE s == p \o t
  <1>1. /\ s \in Program
        /\ \A A : Has(s, A) <=> Has(p, A) \/ Has(t, A)
        /\ \A A, B :
             /\ Never(s, A, B) <=>
                  Never(p, A, B) /\ Never(t, A, B) /\ (Has(p, A) => ~Has(t, B))
             /\ Behind(p, A, B) /\ (Has(p, B) \/ Behind(t, A, B)) => Behind(s, A, B)
    BY Concat DEF Fit
  <1> HIDE DEF s
  <1>2. /\ Behind(s, StopRecords, Stops)
        /\ Behind(s, DeadRecords \cup Wipes, Checks \cup Stops)
        /\ Behind(s, RunRecords, Starters(o))
    BY <1>1 DEF Fit
  <1>3. Ordered(s, o)
    BY <1>1 DEF Fit, Ordered
  <1>4. QED  BY <1>1, <1>2, <1>3 DEF Fit, s

\* Programs without the steps that have their place.
LEMMA NoneHere ==
    ASSUME NEW ops, NEW s \in Runs(ops)
    PROVE  /\ s \in Program
           /\ ops \cap {"start", "restart"} = {} => ~Has(s, Raisers)
           /\ "config_status" \notin ops => ~Has(s, SaveMarks)
           /\ ops \cap {"status", "wipe", "install"} = {} => ~Has(s, Ends)
           /\ "check" \notin ops => ~Has(s, Checks)
           /\ "stop" \notin ops => ~Has(s, Stops)
           /\ "wipe" \notin ops => ~Has(s, Wipes)
           /\ "status" \notin ops =>
                ~Has(s, StopRecords) /\ ~Has(s, DeadRecords) /\ ~Has(s, RunRecords)
  <1>1. s \in Program
    BY RunsMore
  <1>2. \A i \in DOMAIN s : s[i] \in Step /\ s[i].op \in ops
    BY <1>1, LenProperties, ElementOfSeq DEF Runs, Program, Good
  <1>3. /\ ops \cap {"start", "restart"} = {} => ~Has(s, Raisers)
        /\ "config_status" \notin ops => ~Has(s, SaveMarks)
        /\ "check" \notin ops => ~Has(s, Checks)
        /\ "stop" \notin ops => ~Has(s, Stops)
        /\ "wipe" \notin ops => ~Has(s, Wipes)
    BY <1>2 DEF Has, Raisers, SaveMarks, Checks, Stops, Wipes, Of
  <1>4. "status" \notin ops =>
            ~Has(s, StopRecords) /\ ~Has(s, DeadRecords) /\ ~Has(s, RunRecords)
    BY <1>2 DEF Has, StopRecords, DeadRecords, RunRecords, StatusRecords, Of
  <1>5. ops \cap {"status", "wipe", "install"} = {} => ~Has(s, Ends)
    <2>1. ASSUME ops \cap {"status", "wipe", "install"} = {}, NEW i \in DOMAIN s
          PROVE  s[i] \notin Ends
      BY <2>1, <1>2, EndOf
    <2>2. QED  BY <2>1 DEF Has
  <1>6. QED  BY <1>1, <1>3, <1>4, <1>5

LEMMA FitPlain ==
    ASSUME NEW o, NEW ops, NEW s \in Runs(ops),
           ops \cap {"status", "config_status", "wipe", "install", "check"} = {}
    PROVE  Fit(s, o) /\ ~Has(s, Ends) /\ ~Has(s, SaveMarks)
  <1>1. /\ s \in Program /\ ~Has(s, Ends) /\ ~Has(s, SaveMarks) /\ ~Has(s, Checks)
        /\ ~Has(s, Wipes) /\ ~Has(s, StopRecords) /\ ~Has(s, DeadRecords) /\ ~Has(s, RunRecords)
    BY NoneHere
  <1>2. ~Has(s, Ends \cup Checks) /\ ~Has(s, DeadRecords \cup Wipes)
    BY <1>1, KindsOfEnds
  <1>3. Ordered(s, o)
    BY <1>1, <1>2, NothingToKeep DEF Ordered
  <1>4. QED  BY <1>1, <1>2, <1>3, NothingToKeep DEF Fit

\* No steps are fit.
LEMMA FitNone ==
    ASSUME NEW o
    PROVE  Fit(<<>>, o) /\ \A A : ~Has(<<>>, A)
  <1>1. \A A, B : ~Has(<<>>, A) /\ Never(<<>>, A, B) /\ Behind(<<>>, A, B)
    BY OfNone
  <1>2. <<>> \in Program
    BY NoStep, ProgramRuns
  <1>3. QED  BY <1>1, <1>2 DEF Fit, Ordered

\* After the steps p one more step x, alone or left out.
LEMMA FitOneMore ==
    ASSUME NEW o, NEW p, Fit(p, o), NEW t, NEW x \in Step, Single(t, x) \/ t = <<>>,
           t # <<>> =>
             /\ x \in Ends \cup Checks => Whole(o)
             /\ x \in Ends => ~Has(p, Raisers)
             /\ x \in RunRecords => NamesAll(o.comps) /\ Has(p, Starters(o))
             /\ x \in StopRecords => Has(p, Stops)
             /\ x \in DeadRecords \cup Wipes => Has(p, Checks \cup Stops)
             /\ x \notin SaveMarks
    PROVE  /\ Fit(p \o t, o)
           /\ \A A : Has(p \o t, A) <=> Has(p, A) \/ (t # <<>> /\ x \in A)
  <1> DEFINE s == p \o t
  <1>1. CASE t = <<>>
    <2>1. p \in Seq(Good)
      BY ProgramTyped DEF Fit
    <2>2. s = p
      BY <2>1, <1>1, ConcatEmptySeq
    <2>3. QED  BY <2>2, <1>1
  <1>2. CASE t # <<>>
    <2>1. t \in Program /\ (\A A : Has(t, A) <=> x \in A)
      BY <1>2 DEF Single
    <2>2. /\ s \in Program
          /\ \A A : Has(s, A) <=> Has(p, A) \/ Has(t, A)
          /\ \A A, B :
               /\ Never(s, A, B) <=>
                    Never(p, A, B) /\ Never(t, A, B) /\ (Has(p, A) => ~Has(t, B))
               /\ Behind(p, A, B) /\ (Has(p, B) \/ Behind(t, A, B)) => Behind(s, A, B)
      BY <2>1, Concat DEF Fit
    <2>3. \A A, B : x \notin A => Never(t, A, B) /\ Never(t, B, A) /\ Behind(t, A, B)
      BY <2>1, NothingToKeep
    <2> HIDE DEF s
    <2>4. x \notin Raisers \/ x \notin Ends
      BY KindOf, EndOf
    <2>5. Ordered(s, o)
      <3>1. Never(s, Raisers, Ends)
        BY <2>1, <2>2, <2>3, <2>4, <1>2 DEF Fit, Ordered
      <3>2. Has(s, Ends \cup Checks) => o.comps = <<>> /\ o.servers = {}
        BY <2>1, <2>2, <1>2 DEF Fit, Ordered, Whole
      <3>3. Has(s, RunRecords) => NamesAll(o.comps)
        BY <2>1, <2>2, <1>2 DEF Fit, Ordered
      <3>4. Never(s, Step, SaveMarks)
        BY <2>1, <2>2, <2>3, <1>2 DEF Fit, Ordered
      <3>5. QED  BY <3>1, <3>2, <3>3, <3>4 DEF Ordered
    <2>6. /\ Behind(s, StopRecords, Stops)
          /\ Behind(s, DeadRecords \cup Wipes, Checks \cup Stops)
          /\ Behind(s, RunRecords, Starters(o))
      BY <2>2, <2>3, <1>2 DEF Fit
    <2>7. QED  BY <2>1, <2>2, <2>5, <2>6, <1>2 DEF Fit, s
  <1>3. QED  BY <1>1, <1>2

\* The step S(op, arg, orelse), alone or left out.
LEMMA WhenSingle ==
    ASSUME NEW c, NEW op, NEW arg, NEW orelse, S(op, arg, orelse) \in Runs(Ops),
           op \in Ops, arg \in Status \cup ConfigStatus \cup {""},
           orelse \in {"abort", "ignore", "skip", "dump", "save"} \cup Status
    PROVE  \E x \in Step :
              /\ x.op = op /\ x.arg = arg /\ x.orelse = orelse
              /\ Single(S(op, arg, orelse), x)
              /\ c => Single(When(c, S(op, arg, orelse)), x)
              /\ ~c => When(c, S(op, arg, orelse)) = <<>>
  <1>1. \E x \in Step : x.op = op /\ x.arg = arg /\ x.orelse = orelse
                        /\ Single(S(op, arg, orelse), x)
    BY SingleStep
  <1>2. QED  BY <1>1 DEF When

\* _start_cluster
LEMMA FitStart ==
    ASSUME NEW o, NEW comps, o.comps = comps
    PROVE  /\ Fit(StartSteps(comps), o)
           /\ ~Has(StartSteps(comps), Ends) /\ ~Has(StartSteps(comps), SaveMarks)
  <1> DEFINE p == S("start", "", "abort")
             x == [op |-> "status", arg |-> "RUNNING", orelse |-> "skip"]
             y == [op |-> "dump", arg |-> "", orelse |-> "ignore"]
             u == S("status", "RUNNING", "skip") \o S("dump", "", "ignore")
             t == When(NamesAll(comps), u)
             s == p \o t
             ops == {"status", "dump"}
  <1>1. /\ p \in Runs({"start"}) /\ u \in Runs(ops)
    BY KnownSteps
  <1>2. Fit(p, o) /\ ~Has(p, Ends) /\ ~Has(p, SaveMarks)
    BY <1>1, FitPlain
  <1>3. Has(p, Starters(o))
    <2>1. \E z \in Step : z.op = "start" /\ z.arg = "" /\ z.orelse = "abort" /\ Single(p, z)
      BY <1>1, SingleStep DEF Ops
    <2> HIDE DEF p
    <2>2. PICK z \in Step : z.op = "start" /\ Single(p, z)
      BY <2>1
    <2>3. QED  BY <2>2, KindOf DEF Single
  <1>4. u = <<x>> \o <<y>> /\ <<x>> \in Seq(Step) /\ <<y>> \in Seq(Step) /\ x \in Step /\ y \in Step
        /\ x.op = "status" /\ x.arg = "RUNNING" /\ y.op = "dump"
    BY DEF S, Step, Ops, Status
  <1> HIDE DEF x, y, u
  <1>5. x \notin Ends /\ y \notin Ends
    BY <1>4, EndOf
  <1>6. ~Has(u, Ends)
    BY <1>4, <1>5, OfConcat, OfOne
  <1>7. /\ u \in Program /\ ~Has(u, Raisers) /\ ~Has(u, SaveMarks) /\ ~Has(u, Checks)
        /\ ~Has(u, Stops) /\ ~Has(u, Wipes)
    <2>1. /\ ops \cap {"start", "restart"} = {} /\ "config_status" \notin ops /\ "check" \notin ops
          /\ "stop" \notin ops /\ "wipe" \notin ops
      OBVIOUS
    <2> HIDE DEF ops
    <2>2. QED  BY <2>1, <1>1, NoneHere
  <1>8. /\ t \in Program /\ ~Has(t, Raisers) /\ ~Has(t, SaveMarks) /\ ~Has(t, Checks)
        /\ ~Has(t, Stops) /\ ~Has(t, Wipes) /\ ~Has(t, Ends)
        /\ Has(t, RunRecords) => NamesAll(comps)
    <2>1. CASE NamesAll(comps)
      BY <2>1, <1>6, <1>7 DEF When
    <2>2. CASE ~NamesAll(comps)
      <3>1. t = <<>>
        BY <2>2 DEF When
      <3>2. QED  BY <3>1, FitNone DEF Fit
    <2>3. QED  BY <2>1, <2>2
  <1> HIDE DEF p, t
  <1>9. /\ s \in Program
        /\ \A A : Has(s, A) <=> Has(p, A) \/ Has(t, A)
        /\ \A A, B :
             /\ Never(s, A, B) <=>
                  Never(p, A, B) /\ Never(t, A, B) /\ (Has(p, A) => ~Has(t, B))
             /\ Behind(p, A, B) /\ (Has(p, B) \/ Behind(t, A, B)) => Behind(s, A, B)
    BY <1>2, <1>8, Concat DEF Fit
  <1> HIDE DEF s
  <1>10. ~Has(t, StopRecords) /\ ~Has(t, DeadRecords \cup Wipes) /\ ~Has(t, Ends \cup Checks)
    BY <1>8, KindsOfEnds
  <1>11. /\ Behind(s, StopRecords, Stops)
         /\ Behind(s, DeadRecords \cup Wipes, Checks \cup Stops)
         /\ Behind(s, RunRecords, Starters(o))
    BY <1>2, <1>3, <1>9, <1>10, NothingToKeep DEF Fit
  <1>12. Ordered(s, o)
    <2>1. Never(s, Raisers, Ends) /\ Never(s, Step, SaveMarks)
      BY <1>2, <1>8, <1>9, NothingToKeep DEF Fit, Ordered
    <2>2. Has(s, Ends \cup Checks) => o.comps = <<>> /\ o.servers = {}
      BY <1>2, <1>9, <1>10 DEF Fit, Ordered
    <2>3. Has(s, RunRecords) => NamesAll(o.comps)
      BY <1>2, <1>8, <1>9 DEF Fit, Ordered
    <2>4. QED  BY <2>1, <2>2, <2>3 DEF Ordered
  <1>13. Fit(s, o) /\ ~Has(s, Ends) /\ ~Has(s, SaveMarks)
    BY <1>2, <1>8, <1>9, <1>11, <1>12 DEF Fit
  <1>14. StartSteps(comps) = s
    BY DEF StartSteps, s, p, t, u
  <1>15. QED  BY <1>13, <1>14

\* _stop_cluster
LEMMA FitStop ==
    ASSUME NEW o, NEW comps, NEW servers, o.comps = comps, o.servers = servers
    PROVE  /\ Fit(StopSteps(comps, servers, "abort"), o)
           /\ ~Has(StopSteps(comps, servers, "abort"), Raisers)
           /\ ~Has(StopSteps(comps, servers, "abort"), SaveMarks)
  <1> DEFINE c == comps = <<>> /\ servers = {}
             p == S("stop", "", "abort")
             e == S("status", "STOPPED", "abort")
             t == When(c, e)
  <1>1. "STOPPED" \in Status /\ "stop" \in Ops /\ "status" \in Ops
    BY DEF Status, Ops
  <1>2. p \in Runs({"stop"}) /\ e \in Runs({"status"})
    BY <1>1, KnownSteps
  <1>3. Fit(p, o) /\ ~Has(p, Raisers) /\ ~Has(p, SaveMarks)
    <2>1. Fit(p, o) /\ ~Has(p, SaveMarks)
      BY <1>2, FitPlain
    <2>2. {"stop"} \cap {"start", "restart"} = {}
      OBVIOUS
    <2> HIDE DEF p
    <2>3. QED  BY <2>1, <2>2, <1>2, NoneHere
  <1>4. Has(p, Stops)
    <2>1. \E z \in Step : z.op = "stop" /\ z.arg = "" /\ z.orelse = "abort" /\ Single(p, z)
      BY <1>1, <1>2, SingleStep
    <2> HIDE DEF p
    <2>2. PICK z \in Step : z.op = "stop" /\ Single(p, z)
      BY <2>1
    <2>3. QED  BY <2>2, KindOf DEF Single
  <1>5. \E x \in Step : /\ x.op = "status" /\ x.arg = "STOPPED" /\ x.orelse = "abort"
                        /\ Single(e, x)
    BY <1>1, <1>2, SingleStep
  <1>6. /\ StopSteps(comps, servers, "abort") = p \o t
        /\ c => t = e
        /\ ~c => t = <<>>
        /\ c => Whole(o)
    BY DEF StopSteps, When, Whole
  <1> HIDE DEF p, e, c, t
  <1>7. PICK x \in Step : x.op = "status" /\ x.arg = "STOPPED" /\ x.orelse = "abort" /\ Single(e, x)
    BY <1>5
  <1>8. /\ x \notin Checks /\ x \notin RunRecords /\ x \notin DeadRecords /\ x \notin Wipes
        /\ x \notin SaveMarks /\ x \notin Raisers
    BY <1>7, KindOf
  <1>9. /\ Fit(p \o t, o)
        /\ \A A : Has(p \o t, A) <=> Has(p, A) \/ (t # <<>> /\ x \in A)
    BY <1>3, <1>4, <1>6, <1>7, <1>8, FitOneMore
  <1>10. QED  BY <1>3, <1>6, <1>8, <1>9

\* _restart_cluster
LEMMA FitRestart ==
    ASSUME NEW o, NEW comps, NEW servers, NEW apply, o.comps = comps, o.servers = servers
    PROVE  /\ Fit(RestartSteps(comps, servers, apply), o)
           /\ ~Has(RestartSteps(comps, servers, apply), Ends)
           /\ ~Has(RestartSteps(comps, servers, apply), SaveMarks)
  <1> DEFINE c == NamesAll(comps) /\ servers = {}
             p == S("restart", "", "abort")
             a == When(c /\ apply, S("apply", "", "abort"))
             e == S("status", "RUNNING", "abort")
             t == When(c, e)
  <1>1. "RUNNING" \in Status /\ "restart" \in Ops /\ "status" \in Ops
    BY DEF Status, Ops
  <1>2. p \in Runs({"restart"}) /\ a \in Runs({"apply"}) /\ e \in Runs({"status"})
    BY <1>1, KnownSteps, WhenRuns
  <1>3. /\ Fit(p, o) /\ ~Has(p, Ends) /\ ~Has(p, SaveMarks)
        /\ Fit(a, o) /\ ~Has(a, Ends) /\ ~Has(a, SaveMarks)
    BY <1>2, FitPlain
  <1>4. c => Has(p, Starters(o)) /\ NamesAll(o.comps)
    <2>1. \E z \in Step : z.op = "restart" /\ z.arg = "" /\ z.orelse = "abort" /\ Single(p, z)
      BY <1>1, <1>2, SingleStep
    <2> HIDE DEF p
    <2>2. PICK z \in Step : z.op = "restart" /\ Single(p, z)
      BY <2>1
    <2>3. QED  BY <2>2, KindOf DEF Single
  <1>5. \E x \in Step : /\ x.op = "status" /\ x.arg = "RUNNING" /\ x.orelse = "abort"
                        /\ Single(e, x)
    BY <1>1, <1>2, SingleStep
  <1>6. /\ RestartSteps(comps, servers, apply) = (p \o a) \o t
        /\ c => t = e
        /\ ~c => t = <<>>
    BY DEF RestartSteps, When
  <1> HIDE DEF p, a, e, c, t
  <1>7. PICK x \in Step : x.op = "status" /\ x.arg = "RUNNING" /\ x.orelse = "abort" /\ Single(e, x)
    BY <1>5
  <1>8. /\ x \notin Checks /\ x \notin StopRecords /\ x \notin DeadRecords /\ x \notin Wipes
        /\ x \notin SaveMarks /\ x \notin Ends
    BY <1>7, KindOf, EndOf
  <1>9. /\ Fit(p \o a, o) /\ \A A : Has(p \o a, A) <=> Has(p, A) \/ Has(a, A)
    BY <1>3, FitConcat, Concat DEF Fit
  <1>10. /\ Fit((p \o a) \o t, o)
         /\ \A A : Has((p \o a) \o t, A) <=> Has(p \o a, A) \/ (t # <<>> /\ x \in A)
    BY <1>4, <1>6, <1>7, <1>8, <1>9, FitOneMore
  <1>11. QED  BY <1>3, <1>6, <1>8, <1>9, <1>10

\* A program of one step.
LEMMA FitOne ==
    ASSUME NEW o, NEW t, NEW x \in Step, Single(t, x), t \in Seq(Good),
           x \in Ends \cup Checks => Whole(o),
           x \notin RunRecords \cup StopRecords \cup DeadRecords \cup Wipes,
           x \notin SaveMarks
    PROVE  Fit(t, o)
  <1>1. Fit(<<>>, o) /\ \A A : ~Has(<<>>, A)
    BY FitNone
  <1>2. <<>> \o t = t
    BY ConcatEmptySeq
  <1>3. Fit(<<>> \o t, o)
    BY <1>1, FitOneMore
  <1>4. QED  BY <1>2, <1>3

\* _destroy_cluster
LEMMA FitDestroy ==
    ASSUME NEW o, NEW changed, Whole(o)
    PROVE  /\ Fit(DestroySteps(changed), o)
           /\ ~Has(DestroySteps(changed), Raisers) /\ ~Has(DestroySteps(changed), SaveMarks)
  <1> DEFINE a == S("check", "", "abort")
             b == S("wipe", "", "ignore")
             c == S("status", "DESTROYED", "abort")
             d == S("info", "", "ignore")
             e == When(changed, S("apply", "", "ignore"))
  <1>1. "DESTROYED" \in Status /\ {"check", "wipe", "status", "info", "apply"} \subseteq Ops
    BY DEF Status, Ops
  <1>2. /\ a \in Runs({"check"}) /\ b \in Runs({"wipe"}) /\ c \in Runs({"status"})
        /\ d \in Runs({"info"}) /\ e \in Runs({"apply"})
    BY <1>1, KnownSteps, WhenRuns
  <1>3. /\ Fit(d, o) /\ ~Has(d, Ends) /\ ~Has(d, SaveMarks)
        /\ Fit(e, o) /\ ~Has(e, Ends) /\ ~Has(e, SaveMarks)
    BY <1>2, FitPlain
  <1>4. ~Has(d, Raisers) /\ ~Has(e, Raisers)
    <2>1. {"info"} \cap {"start", "restart"} = {} /\ {"apply"} \cap {"start", "restart"} = {}
      OBVIOUS
    <2> HIDE DEF d, e
    <2>2. QED  BY <2>1, <1>2, NoneHere
  <1>5. /\ \E x \in Step : x.op = "check" /\ x.arg = "" /\ x.orelse = "abort" /\ Single(a, x)
        /\ \E x \in Step : x.op = "wipe" /\ x.arg = "" /\ x.orelse = "ignore" /\ Single(b, x)
        /\ \E x \in Step : x.op = "status" /\ x.arg = "DESTROYED" /\ x.orelse = "abort"
                           /\ Single(c, x)
    BY <1>1, <1>2, SingleStep
  <1>6. DestroySteps(changed) = (((a \o b) \o c) \o d) \o e
    BY DEF DestroySteps
  <1> HIDE DEF a, b, c, d, e
  <1>7. PICK x \in Step : x.op = "check" /\ Single(a, x)
    BY <1>5
  <1>8. PICK y \in Step : y.op = "wipe" /\ Single(b, y)
    BY <1>5
  <1>9. PICK z \in Step : z.op = "status" /\ z.arg = "DESTROYED" /\ z.orelse = "abort"
                          /\ Single(c, z)
    BY <1>5
  <1>10. Fit(a, o) /\ (\A A : Has(a, A) <=> x \in A) /\ x \in Checks /\ x \notin Raisers
         /\ x \notin SaveMarks
    <2>1. /\ x \in Checks /\ x \notin Raisers /\ x \notin SaveMarks
          /\ x \notin RunRecords \cup StopRecords \cup DeadRecords \cup Wipes
      BY <1>7, KindOf
    <2>2. a \in Seq(Good)
      BY <1>7, ProgramTyped DEF Single
    <2>3. QED  BY <2>1, <2>2, <1>7, FitOne DEF Single
  <1>11. /\ Fit(a \o b, o) /\ \A A : Has(a \o b, A) => x \in A \/ y \in A
         /\ Has(a \o b, Checks)
         /\ y \notin Raisers /\ y \notin SaveMarks
    <2>1. /\ y \notin RunRecords /\ y \notin StopRecords /\ y \notin SaveMarks /\ y \notin Raisers
      BY <1>8, KindOf
    <2>2. Has(a, Checks) /\ Has(a, Checks \cup Stops) /\ ~Has(a, Raisers)
      BY <1>10, KindsOfEnds
    <2>3. Fit(a \o b, o) /\ \A A : Has(a \o b, A) <=> Has(a, A) \/ (b # <<>> /\ y \in A)
      BY <2>1, <2>2, <1>8, <1>10, FitOneMore
    <2>4. QED  BY <2>1, <2>2, <2>3, <1>10
  <1>12. /\ Fit((a \o b) \o c, o)
         /\ \A A : Has((a \o b) \o c, A) => x \in A \/ y \in A \/ z \in A
         /\ z \notin Raisers /\ z \notin SaveMarks
    <2>1. z \notin RunRecords /\ z \notin StopRecords /\ z \notin SaveMarks /\ z \notin Raisers
      BY <1>9, KindOf
    <2>2. Has(a \o b, Checks \cup Stops) /\ ~Has(a \o b, Raisers)
      BY <1>10, <1>11, KindsOfEnds
    <2>3. /\ Fit((a \o b) \o c, o)
          /\ \A A : Has((a \o b) \o c, A) <=> Has(a \o b, A) \/ (c # <<>> /\ z \in A)
      BY <2>1, <2>2, <1>9, <1>11, FitOneMore
    <2>4. QED  BY <2>1, <2>3, <1>11
  <1>13. ~Has((a \o b) \o c, Raisers) /\ ~Has((a \o b) \o c, SaveMarks)
    BY <1>10, <1>11, <1>12
  <1>14. /\ Fit(((a \o b) \o c) \o d, o)
         /\ ~Has(((a \o b) \o c) \o d, Raisers) /\ ~Has(((a \o b) \o c) \o d, SaveMarks)
    BY <1>3, <1>4, <1>12, <1>13, FitConcat, Concat DEF Fit
  <1>15. /\ Fit((((a \o b) \o c) \o d) \o e, o)
         /\ ~Has((((a \o b) \o c) \o d) \o e, Raisers)
         /\ ~Has((((a \o b) \o c) \o d) \o e, SaveMarks)
    BY <1>3, <1>4, <1>14, FitConcat, Concat DEF Fit
  <1>16. QED  BY <1>6, <1>15

\* _deploy_cluster
LEMMA FitDeploy ==
    ASSUME NEW o, Whole(o)
    PROVE  Fit(DeploySteps, o) /\ ~Has(DeploySteps, Raisers) /\ ~Has(DeploySteps, SaveMarks)
  <1> DEFINE a == S("install", "", "abort")
             b == S("status", "DEPLOYED", "abort")
             c == S("dump", "", "abort")
  <1>1. "DEPLOYED" \in Status /\ {"install", "status", "dump"} \subseteq Ops
    BY DEF Status, Ops
  <1>2. a \in Runs({"install"}) /\ b \in Runs({"status"}) /\ c \in Runs({"dump"})
    BY <1>1, KnownSteps
  <1>3. Fit(c, o) /\ ~Has(c, Ends) /\ ~Has(c, SaveMarks)
    BY <1>2, FitPlain
  <1>4. ~Has(DeploySteps, Raisers) /\ ~Has(DeploySteps, SaveMarks)
    BY DeployProgram, NoneHere
  <1>5. /\ \E x \in Step : x.op = "install" /\ x.arg = "" /\ x.orelse = "abort" /\ Single(a, x)
        /\ \E x \in Step : x.op = "status" /\ x.arg = "DEPLOYED" /\ x.orelse = "abort"
                           /\ Single(b, x)
    BY <1>1, <1>2, SingleStep
  <1>6. DeploySteps = (a \o b) \o c
    BY DEF DeploySteps
  <1> HIDE DEF a, b, c
  <1>7. PICK x \in Step : x.op = "install" /\ Single(a, x)
    BY <1>5
  <1>8. PICK y \in Step : y.op = "status" /\ y.arg = "DEPLOYED" /\ y.orelse = "abort"
                          /\ Single(b, y)
    BY <1>5
  <1>9. Fit(a, o)
    <2>1. x \notin RunRecords \cup StopRecords \cup DeadRecords \cup Wipes /\ x \notin SaveMarks
      BY <1>7, KindOf
    <2>2. a \in Seq(Good)
      BY <1>7, ProgramTyped DEF Single
    <2>3. QED  BY <2>1, <2>2, <1>7, FitOne
  <1>10. Fit(a \o b, o)
    <2>1. /\ y \notin RunRecords /\ y \notin StopRecords /\ y \notin SaveMarks
          /\ y \notin DeadRecords \cup Wipes /\ y \notin Ends \cup Checks
      BY <1>8, KindOf, EndOf
    <2>2. QED  BY <2>1, <1>8, <1>9, FitOneMore
  <1>11. Fit((a \o b) \o c, o)
    BY <1>3, <1>10, FitConcat
  <1>12. QED  BY <1>4, <1>6, <1>11

\* The end of edit_deploy_config.
LEMMA FitNewConfig ==
    ASSUME NEW o, NEW k \in ConfigStatus
    PROVE  Fit(NewConfig(k), o)
  <1> DEFINE a == S("create", "", "abort")
             b == S("config_status", "UNCHNAGE", "ignore")
             c == S("dump", "", "ignore")
             d == S("save", "", "abort")
             e == S("config_status", k, "save")
             f == S("copy", "", "ignore")
  <1>1. /\ {"create", "config_status", "dump", "save", "copy"} \subseteq Ops
        /\ "UNCHNAGE" \in ConfigStatus
    BY DEF Ops, ConfigStatus
  <1>2. /\ a \in Runs({"create"}) /\ b \in Runs({"config_status"}) /\ c \in Runs({"dump"})
        /\ d \in Runs({"save"}) /\ e \in Runs({"config_status"}) /\ f \in Runs({"copy"})
    BY <1>1, KnownSteps
  <1>3. /\ Fit(a, o) /\ ~Has(a, Ends) /\ ~Has(a, SaveMarks)
        /\ Fit(c, o) /\ ~Has(c, Ends) /\ ~Has(c, SaveMarks)
        /\ Fit(d, o) /\ ~Has(d, Ends) /\ ~Has(d, SaveMarks)
        /\ Fit(f, o) /\ ~Has(f, Ends) /\ ~Has(f, SaveMarks)
    BY <1>2, FitPlain
  <1>4. /\ \E x \in Step : x.op = "config_status" /\ x.arg = "UNCHNAGE" /\ x.orelse = "ignore"
                           /\ Single(b, x)
        /\ \E x \in Step : x.op = "config_status" /\ x.arg = k /\ x.orelse = "save"
                           /\ Single(e, x)
    BY <1>1, <1>2, SingleStep
  <1>5. \A A, B : Never(e, A, B)
    BY OfOne DEF S
  <1>6. NewConfig(k) = ((a \o b) \o c) \o d \/ NewConfig(k) = (e \o f) \o d
    BY DEF NewConfig
  <1> HIDE DEF a, b, c, d, e, f
  <1>7. Fit(a \o b, o)
    <2>1. PICK x \in Step : x.op = "config_status" /\ x.arg = "UNCHNAGE" /\ x.orelse = "ignore"
                            /\ Single(b, x)
      BY <1>4
    <2>2. /\ x \notin RunRecords /\ x \notin StopRecords /\ x \notin SaveMarks
          /\ x \notin DeadRecords \cup Wipes /\ x \notin Ends \cup Checks
      BY <2>1, KindOf, EndOf
    <2>3. QED  BY <2>1, <2>2, <1>3, FitOneMore
  <1>8. Fit((a \o b) \o c, o)
    BY <1>3, <1>7, FitConcat
  <1>9. Fit(((a \o b) \o c) \o d, o)
    BY <1>3, <1>8, FitConcat
  <1>10. Fit(e, o)
    <2>1. PICK x \in Step : x.op = "config_status" /\ Single(e, x)
      BY <1>4
    <2>2. /\ x \notin RunRecords /\ x \notin StopRecords
          /\ x \notin DeadRecords \cup Wipes /\ x \notin Ends \cup Checks
      BY <2>1, KindOf, EndOf
    <2>3. /\ ~Has(e, RunRecords) /\ ~Has(e, StopRecords)
          /\ ~Has(e, DeadRecords \cup Wipes) /\ ~Has(e, Ends \cup Checks) /\ e \in Program
      BY <2>1, <2>2 DEF Single
    <2>4. QED  BY <2>3, <1>5, NothingToKeep DEF Fit, Ordered
  <1>11. Fit(e \o f, o)
    BY <1>3, <1>10, FitConcat
  <1>12. Fit((e \o f) \o d, o)
    BY <1>3, <1>11, FitConcat
  <1>13. QED  BY <1>6, <1>9, <1>12

LEMMA FitWhen ==
    ASSUME NEW o, NEW c, NEW s, Fit(s, o)
    PROVE  Fit(When(c, s), o) /\ \A A : ~Has(s, A) => ~Has(When(c, s), A)
  BY FitNone DEF When

LEMMA FitForcedStop ==
    ASSUME NEW o, Whole(o)
    PROVE  Fit(ForcedStop, o) /\ ~Has(ForcedStop, Raisers) /\ ~Has(ForcedStop, SaveMarks)
  BY FitStop, FitWhen DEF ForcedStop, Whole

\* The options of the commands.
LEMMA WithWhole ==
    ASSUME NEW comps, NEW servers, NEW force, NEW wp, NEW v
    PROVE  /\ With(comps, servers, force, wp).comps = comps
           /\ With(comps, servers, force, wp).servers = servers
           /\ Whole(With(<<>>, {}, force, wp)) /\ With(<<>>, {}, force, wp).comps = <<>>
           /\ Whole(NewVersion(v, force))
  BY DEF With, NewVersion, Idle, Whole

\* Steps without a place of their own before the steps of a command.
LEMMA PlainThenDeploy ==
    ASSUME NEW o, Whole(o), NEW p \in Runs({"apply", "create", "save"})
    PROVE  Fit(p \o DeploySteps, o)
  <1>1. /\ {"apply", "create", "save"} \cap
               {"status", "config_status", "wipe", "install", "check"} = {}
        /\ {"apply", "create", "save"} \cap {"start", "restart"} = {}
    OBVIOUS
  <1>2. Fit(p, o)
    BY <1>1, FitPlain
  <1>3. ~Has(p, Raisers)
    BY <1>1, NoneHere
  <1>4. QED  BY <1>2, <1>3, FitDeploy, FitConcat

LEMMA FitApplyDeploy ==
    ASSUME NEW o, Whole(o), NEW c
    PROVE  /\ Fit(When(c, S("apply", "", "abort")) \o DeploySteps, o)
           /\ Fit(When(c, S("apply", "", "abort")) \o S("create", "", "abort")
                  \o S("save", "", "abort") \o DeploySteps, o)
  <1> DEFINE ops == {"apply", "create", "save"}
             a == When(c, S("apply", "", "abort"))
             b == S("create", "", "abort")
             d == S("save", "", "abort")
  <1>1. a \in Runs(ops) /\ b \in Runs(ops) /\ d \in Runs(ops)
    BY KnownSteps, WhenRuns
  <1> HIDE DEF a, b, d
  <1>2. (a \o b) \o d \in Runs(ops)
    BY <1>1, RunsConcat
  <1>3. Fit(a \o DeploySteps, o) /\ Fit(((a \o b) \o d) \o DeploySteps, o)
    BY <1>1, <1>2, PlainThenDeploy
  <1>4. QED  BY <1>3 DEF a, b, d

LEMMA FitStartRestart ==
    ASSUME NEW o, NEW comps, NEW servers, NEW apply, NEW c, o.comps = comps, o.servers = servers
    PROVE  Fit(When(c, StartSteps(comps)) \o RestartSteps(comps, servers, apply), o)
  BY FitStart, FitWhen, FitRestart, FitConcat

LEMMA FitReload ==
    ASSUME NEW o, NEW c, Whole(o)
    PROVE  Fit(When(c, StartSteps(<<>>)) \o S("reload", "", "dump") \o S("apply", "", "abort"), o)
  <1> DEFINE a == When(c, StartSteps(<<>>))
             b == S("reload", "", "dump")
             d == S("apply", "", "abort")
  <1>1. b \in Runs({"reload"}) /\ d \in Runs({"apply"})
    BY KnownSteps
  <1>2. Fit(b, o) /\ ~Has(b, Ends) /\ ~Has(b, SaveMarks) /\ Fit(d, o) /\ ~Has(d, Ends)
        /\ ~Has(d, SaveMarks)
    BY <1>1, FitPlain
  <1>3. Fit(a, o)
    BY FitStart, FitWhen DEF Whole
  <1> HIDE DEF a, b, d
  <1>4. Fit(a \o b, o)
    BY <1>2, <1>3, FitConcat
  <1>5. Fit((a \o b) \o d, o)
    BY <1>2, <1>4, FitConcat
  <1>6. QED  BY <1>5 DEF a, b, d

LEMMA FitForcedDestroy ==
    ASSUME NEW o, NEW c, Whole(o)
    PROVE  /\ Fit(ForcedStop \o DestroySteps(c), o)
           /\ ~Has(ForcedStop \o DestroySteps(c), Raisers)
  <1>1. /\ Fit(ForcedStop, o) /\ ~Has(ForcedStop, Raisers)
        /\ Fit(DestroySteps(c), o) /\ ~Has(DestroySteps(c), Raisers)
        /\ ~Has(DestroySteps(c), SaveMarks)
    BY FitForcedStop, FitDestroy
  <1>2. QED  BY <1>1, FitConcat, Concat DEF Fit

LEMMA FitRedeploy ==
    ASSUME NEW o, NEW c, Whole(o)
    PROVE  Fit(ForcedStop \o DestroySteps(c) \o S("reapply", "", "abort")
               \o DeploySteps \o StartSteps(<<>>) \o S("dump", "", "abort"), o)
  <1> DEFINE p == ForcedStop \o DestroySteps(c)
             a == S("reapply", "", "abort")
             d == DeploySteps
             b == StartSteps(<<>>)
             e == S("dump", "", "abort")
  <1>1. a \in Runs({"reapply"}) /\ e \in Runs({"dump"})
    BY KnownSteps
  <1>2. /\ Fit(a, o) /\ ~Has(a, Ends) /\ ~Has(a, SaveMarks)
        /\ Fit(e, o) /\ ~Has(e, Ends) /\ ~Has(e, SaveMarks)
    BY <1>1, FitPlain
  <1>3. ~Has(a, Raisers)
    <2>1. {"reapply"} \cap {"start", "restart"} = {}
      OBVIOUS
    <2> HIDE DEF a
    <2>2. QED  BY <2>1, <1>1, NoneHere
  <1>4. Fit(p, o) /\ ~Has(p, Raisers)
    BY FitForcedDestroy
  <1>5. Fit(d, o) /\ ~Has(d, Raisers) /\ ~Has(d, SaveMarks)
    BY FitDeploy
  <1>6. Fit(b, o) /\ ~Has(b, Ends) /\ ~Has(b, SaveMarks)
    BY FitStart DEF Whole
  <1> HIDE DEF p, a, d, b, e
  <1>7. Fit(p \o a, o) /\ ~Has(p \o a, Raisers)
    BY <1>2, <1>3, <1>4, FitConcat, Concat DEF Fit
  <1>8. Fit((p \o a) \o d, o)
    BY <1>5, <1>7, FitConcat
  <1>9. Fit(((p \o a) \o d) \o b, o)
    BY <1>6, <1>8, FitConcat
  <1>10. Fit((((p \o a) \o d) \o b) \o e, o)
    BY <1>2, <1>9, FitConcat
  <1>11. QED  BY <1>10 DEF p, a, d, b, e

LEMMA BeginRecords ==
    ASSUME NEW steps, NEW o, Fit(steps, o), Begin(steps, o)
    PROVE  Recorded'
  <1>1. /\ todo' = steps /\ opts' = o /\ mem' = Loaded /\ Loaded' = Loaded
    BY DEF Begin, disk, Loaded
  <1>2. QED  BY <1>1 DEF Fit, Recorded

LEMMA CommandsRecord ==
    ASSUME TypeOK, Recorded, Command
    PROVE  Recorded'
  <1>1. ASSUME NEW k \in ConfigStatus, EditConfig(k)
        PROVE  Recorded'
    BY <1>1, FitNewConfig, BeginRecords DEF EditConfig
  <1>2. CASE RevertConfig
    <2>1. "UNCHNAGE" \in ConfigStatus
      BY DEF ConfigStatus
    <2>2. QED  BY <1>2, <2>1, FitNewConfig, BeginRecords DEF RevertConfig
  <1>3. ASSUME NEW force \in BOOLEAN, DeployCluster(force)
        PROVE  Recorded'
    BY <1>3, WithWhole, FitApplyDeploy, BeginRecords DEF DeployCluster
  <1>4. ASSUME NEW force \in BOOLEAN, DeployNewConfig(force)
        PROVE  Recorded'
    BY <1>4, WithWhole, FitApplyDeploy, BeginRecords DEF DeployNewConfig
  <1>5. ASSUME NEW comps, NEW servers, NEW wp, StartCluster(comps, servers, wp)
        PROVE  Recorded'
    <2> DEFINE o == With(comps, servers, FALSE, wp)
    <2>1. o.comps = comps
      BY DEF With
    <2>2. Begin(StartSteps(comps), o)
      BY <1>5 DEF StartCluster
    <2> HIDE DEF o
    <2>3. QED  BY <2>1, <2>2, FitStart, BeginRecords
  <1>6. ASSUME NEW comps, NEW servers, StopCluster(comps, servers)
        PROVE  Recorded'
    <2> DEFINE o == With(comps, servers, FALSE, FALSE)
    <2>1. o.comps = comps /\ o.servers = servers
      BY DEF With
    <2>2. Begin(StopSteps(comps, servers, "abort"), o)
      BY <1>6 DEF StopCluster
    <2> HIDE DEF o
    <2>3. QED  BY <2>1, <2>2, FitStop, BeginRecords
  <1>7. ASSUME NEW comps, NEW servers, NEW wp, RestartCluster(comps, servers, wp)
        PROVE  Recorded'
    <2> DEFINE o == With(comps, servers, FALSE, wp)
               c == StatusCheck \in {Mixed, Stopped}
               a == wp /\ Changed(Loaded)
               s == When(c, StartSteps(comps)) \o RestartSteps(comps, servers, a)
    <2>1. o.comps = comps /\ o.servers = servers
      BY DEF With
    <2>2. Begin(s, o)
      BY <1>7 DEF RestartCluster
    <2>3. Fit(s, o)
      <3> HIDE DEF o, a, c
      <3>1. QED  BY <2>1, FitStartRestart
    <2> HIDE DEF o, s
    <2>4. QED  BY <2>2, <2>3, BeginRecords
  <1>8. CASE ReloadCluster
    <2> DEFINE o == With(<<>>, {}, FALSE, FALSE)
               c == ~AllUp
               s == When(c, StartSteps(<<>>)) \o S("reload", "", "dump")
                    \o S("apply", "", "abort")
    <2>1. Whole(o)
      BY WithWhole
    <2>2. Begin(s, o)
      BY <1>8 DEF ReloadCluster
    <2>3. Fit(s, o)
      <3> HIDE DEF o, c
      <3>1. QED  BY <2>1, FitReload
    <2> HIDE DEF o, s
    <2>4. QED  BY <2>2, <2>3, BeginRecords
  <1>9. ASSUME NEW force \in BOOLEAN, DestroyCluster(force)
        PROVE  Recorded'
    BY <1>9, WithWhole, FitForcedDestroy, BeginRecords DEF DestroyCluster
  <1>10. ASSUME NEW force \in BOOLEAN, RedeployCluster(force)
         PROVE  Recorded'
    BY <1>10, WithWhole, FitRedeploy, BeginRecords DEF RedeployCluster
  <1>11. CASE PruneConfig
    <2>1. todo' = <<>>
      BY <1>11 DEF PruneConfig
    <2>2. QED  BY <2>1, OfNone DEF Recorded, Ordered
  <1>12. QED
    BY <1>1, <1>2, <1>3, <1>4, <1>5, <1>6, <1>7, <1>8, <1>9, <1>10, <1>11 DEF Command

-----------------------------------------------------------------------------
(* The invariant.                                                            *)

RInv == TInv /\ Recorded

LEMMA NoneRecorded ==
    ASSUME todo = <<>>
    PROVE  Recorded
  BY OfNone DEF Recorded, Ordered

LEMMA RInvInit ==
    ASSUME Init
    PROVE  RInv
  BY TInvInit, NoneRecorded DEF Init, RInv

LEMMA RInvNext ==
    ASSUME RInv, [Next]_vars
    PROVE  RInv'
  <1>1. TInv'
    BY TInvNext DEF RInv
  <1>2. Recorded'
    <2>1. CASE UNCHANGED vars
      BY <2>1 DEF vars, RInv, Recorded, Loaded, NoneWhole, Obeying
    <2>2. CASE Command
      BY <2>2, CommandsRecord DEF RInv, TInv
    <2>3. CASE FileStep \/ ServerStep
      BY <2>3, StepsRecord DEF RInv
    <2>4. CASE Finish \/ Crash
      <3>1. todo' = <<>>
        BY <2>4 DEF Finish, Crash, Abort
      <3>2. QED  BY <3>1, OfNone DEF Recorded, Ordered
    <2>5. ASSUME NEW i \in Instances, Die(i)
          PROVE  Recorded'
      <3>1. /\ todo' = todo /\ opts' = opts /\ mem' = mem /\ done' = done /\ Loaded' = Loaded
            /\ up' \subseteq up /\ stayed' = stayed
        BY <2>5 DEF Die, disk, Loaded
      <3>2. /\ NoneWhole => NoneWhole'
            /\ Obeying = {} => Obeying' = {}
        BY <3>1, FewerUp DEF Obeying
      <3>3. QED  BY <3>1, <3>2 DEF RInv, Recorded
    <2>6. QED  BY <2>1, <2>2, <2>3, <2>4, <2>5 DEF Next
  <1>3. QED  BY <1>1, <1>2 DEF RInv

\* Who records a status does so with a step that writes it, unless the step
\* restores one.
LEMMA WhoRecords ==
    ASSUME RInv, NEW v \in Status \ {"CONFIGURED"}, [Next]_vars, Records(v), Head(todo).orelse # "ignore"
    PROVE  todo # <<>> /\ todo \in Program /\ Head(todo) \in StatusRecords(v)
  <1>1. /\ info \in DeployInfo \cup {Absent, Unreadable} /\ mem \in DeployInfo
        /\ todo \in Program
    BY DEF RInv, TInv, TypeOK, Formed
  <1>2. info'.status = v /\ info.status # v
    BY DEF Records
  <1>3. v \notin {"ABSENT", "UNREADABLE"}
    BY DEF Status
  <1>4. info' # info /\ info' # Absent /\ info' # Unreadable
    BY <1>2, <1>3 DEF Absent, Unreadable
  <1>5. DumpDeployInfo /\ mem' = Updated(Head(todo)) /\ info' = mem'
    <2>1. CASE UNCHANGED vars
      BY <2>1, <1>4 DEF vars
    <2>2. CASE Command
      <3>1. info' = info \/ info' = Absent
        BY <2>2 DEF Command, EditConfig, RevertConfig, ReloadCluster, PruneConfig, DeployCluster,
                    DeployNewConfig, DestroyCluster, RedeployCluster, StopCluster, StartCluster,
                    RestartCluster, Begin, disk
      <3>2. QED  BY <3>1, <1>4
    <2>3. CASE FileStep
      <3>1. CASE DumpDeployInfo
        BY <3>1, <1>4 DEF DumpDeployInfo
      <3>2. CASE CreateDeployConfig
        BY <3>2, <1>4 DEF CreateDeployConfig
      <3>3. CASE CopyTempConfig \/ ApplyTempConfig \/ ReapplyTempConfig \/ DumpDeployConfig \/ Save
        BY <3>3, <1>4 DEF CopyTempConfig, ApplyTempConfig, ReapplyTempConfig, DumpDeployConfig,
                          Save, disk
      <3>4. QED  BY <2>3, <3>1, <3>2, <3>3 DEF FileStep
    <2>4. CASE ServerStep
      BY <2>4, <1>4 DEF ServerStep, InstallRepositories, StartServers, StopServers,
                        RestartServers, ReloadServers, CheckServers, WipeServers, disk
    <2>5. CASE Finish \/ Crash \/ \E i \in Instances : Die(i)
      BY <2>5, <1>4 DEF Finish, Crash, Die, disk
    <2>6. QED  BY <2>1, <2>2, <2>3, <2>4, <2>5 DEF Next
  <1>6. todo # <<>> /\ Head(todo) \in Good /\ Head(todo).op \in {"status", "config_status", "info"}
    <2>1. todo # <<>> /\ Head(todo).op \in {"status", "config_status", "info"}
      BY <1>5 DEF DumpDeployInfo, Doing
    <2>2. QED  BY <2>1, <1>1, ProgramTail
  <1>7. CASE Head(todo).op = "status"
    <2>1. mem' = [mem EXCEPT !.status = Head(todo).arg]
      BY <1>5, <1>7 DEF Updated
    <2>2. mem'.status = Head(todo).arg
      BY <2>1, <1>1 DEF DeployInfo
    <2>3. Head(todo).arg = v
      BY <2>2, <1>2, <1>5
    <2>4. Head(todo) \in Step
      BY <1>6 DEF Good
    <2>5. Head(todo) \in StatusRecords(v)
      BY <2>3, <2>4, <1>7 DEF StatusRecords, Of
    <2>6. QED  BY <2>5, <1>1, <1>6
  <1>8. CASE Head(todo).op = "config_status"
    <2>1. Head(todo) \in Step
      BY <1>6 DEF Good
    <2>2. Head(todo) \in SaveMarks
      BY <2>1, <1>8, KindOf
    <2>3. Has(todo, SaveMarks)
      BY <2>2, <1>1, <1>6, ProgramTyped, OfTail
    <2>4. mem = Loaded
      BY <2>3 DEF RInv, Recorded
    <2>5. mem' = [mem EXCEPT !.config_status = Head(todo).arg]
      BY <1>5, <1>8 DEF Updated
    <2>6. mem.status = v
      BY <2>5, <1>1, <1>2, <1>5 DEF DeployInfo
    <2>7. CASE info \in {Absent, Unreadable}
      BY <2>4, <2>6, <2>7 DEF Loaded, Fresh
    <2>8. CASE info \notin {Absent, Unreadable}
      BY <2>4, <2>6, <2>8, <1>2 DEF Loaded
    <2>9. QED  BY <2>7, <2>8
  <1>9. CASE Head(todo).op = "info"
    BY <1>6, <1>9 DEF Good
  <1>10. QED  BY <1>6, <1>7, <1>8, <1>9

LEMMA FirstNotBehind ==
    ASSUME todo \in Program, todo # <<>>, NEW A, Head(todo) \in A, NEW B
    PROVE  ~Behind(todo, A, B)
  BY ProgramTyped, OfTail

\* When a deployment is recorded as stopped none of its servers runs but those
\* that a stop left running although it reported success, whatever command does
\* it and whatever failed before; the record that destroy -f restores is left
\* out (core.py, the order of the stop and of update_deploy_status in
\* _stop_cluster).
THEOREM StoppedIsStopped == Spec => StoppedMeansStopped
  <1>1. RInv /\ [Next]_vars =>
           [Records("STOPPED") /\ Head(todo).orelse # "ignore" => up \subseteq stayed]_vars
    <2> SUFFICES ASSUME RInv, [Next]_vars, Records("STOPPED"), Head(todo).orelse # "ignore"
                 PROVE  Obeying = {}
      BY DEF Obeying
    <2>1. "STOPPED" \in Status \ {"CONFIGURED"}
      BY DEF Status
    <2>2. todo # <<>> /\ todo \in Program /\ Head(todo) \in StopRecords
      BY <2>1, WhoRecords DEF StopRecords
    <2>3. ~Behind(todo, StopRecords, Stops)
      BY <2>2, FirstNotBehind
    <2>4. QED  BY <2>3 DEF RInv, Recorded
  <1>2. QED  BY <1>1, RInvInit, RInvNext, PTL DEF Spec, StoppedMeansStopped

\* Only a command that has itself started or restarted every server of every
\* component records the deployment as running, unless its --components names
\* a component twice: start and restart compare the number of names with the
\* number of components (core.py:2441).
THEOREM RunningIsStarted == Spec => RunningMeansStarted
  <1>1. RInv /\ [Next]_vars =>
           [Records("RUNNING") /\ Head(todo).orelse # "ignore" /\ NoneTwice(opts.comps)
            => done = Instances]_vars
    <2> SUFFICES ASSUME RInv, [Next]_vars, Records("RUNNING"), Head(todo).orelse # "ignore",
                        NoneTwice(opts.comps)
                 PROVE  done = Instances
      OBVIOUS
    <2>1. "RUNNING" \in Status \ {"CONFIGURED"}
      BY DEF Status
    <2>2. todo # <<>> /\ todo \in Program /\ Head(todo) \in RunRecords
      BY <2>1, WhoRecords DEF RunRecords
    <2>3. ~Behind(todo, RunRecords, Starters(opts))
      BY <2>2, FirstNotBehind
    <2>4. QED  BY <2>3 DEF RInv, Recorded
  <1>2. QED  BY <1>1, RInvInit, RInvNext, PTL DEF Spec, RunningMeansStarted

\* destroy and redeploy never remove the files of a component all of whose
\* servers run, unless all of them stayed through a stop that reported success:
\* they do so only after a stop of the whole deployment succeeded, or after
\* cluster_status_check found the cluster stopped (core.py, _destroy_cluster).
THEOREM RunningKept == Spec => WipesNoRunningComponent
  <1>1. RInv /\ [Next]_vars =>
           [Doing("wipe") =>
              \A c \in Components : {c} \X Servers \subseteq up => {c} \X Servers \subseteq stayed]_vars
    <2> SUFFICES ASSUME RInv, Doing("wipe")
                 PROVE  NoneWhole
      BY DEF NoneWhole
    <2>1. todo # <<>> /\ Head(todo).op = "wipe" /\ todo \in Program
      BY DEF Doing, RInv, TInv, Formed
    <2>2. Head(todo) \in Step
      BY <2>1, ProgramTail DEF Good
    <2>3. Head(todo) \in DeadRecords \cup Wipes
      BY <2>1, <2>2, KindOf
    <2>4. ~Behind(todo, DeadRecords \cup Wipes, Checks \cup Stops)
      BY <2>1, <2>3, FirstNotBehind
    <2>5. QED  BY <2>4 DEF RInv, Recorded
  <1>2. QED  BY <1>1, RInvInit, RInvNext, PTL DEF Spec, WipesNoRunningComponent

-----------------------------------------------------------------------------
(* The statuses that the commands write.                                     *)

\* The records of these statuses, and stops, that end the command when they
\* fail.
Marked(args) ==
    {s \in Seq(Step) : \A i \in DOMAIN s :
        /\ s[i].op = "status" =>
             s[i].arg \in args /\ s[i].orelse \in (IF s[i].arg = "RUNNING" THEN {"abort", "skip"}
                                                   ELSE {"abort"})
        /\ s[i].op = "stop" => s[i].arg = "" /\ s[i].orelse = "abort"}

LEMMA MarkedConcat ==
    ASSUME NEW args, NEW s \in Marked(args), NEW t \in Marked(args)
    PROVE  s \o t \in Marked(args)
  <1> DEFINE good(x) ==
               /\ x.op = "status" =>
                    x.arg \in args /\ x.orelse \in (IF x.arg = "RUNNING" THEN {"abort", "skip"}
                                                    ELSE {"abort"})
               /\ x.op = "stop" => x.arg = "" /\ x.orelse = "abort"
             A == {x \in Step : ~good(x)}
  <1>1. \A r \in Seq(Step) : r \in Marked(args) <=> ~Has(r, A)
    <2> TAKE r \in Seq(Step)
    <2>1. \A i \in DOMAIN r : r[i] \in Step
      BY LenProperties, ElementOfSeq
    <2>2. r \in Marked(args) <=> \A i \in DOMAIN r : good(r[i])
      BY DEF Marked
    <2> HIDE DEF good
    <2>3. QED  BY <2>1, <2>2 DEF Has
  <1> HIDE DEF A
  <1>2. s \in Seq(Step) /\ t \in Seq(Step)
    BY DEF Marked
  <1>3. s \o t \in Seq(Step)
    BY <1>2, ConcatProperties
  <1>4. QED  BY <1>1, <1>2, <1>3, OfConcat

LEMMA MarkedNone ==
    ASSUME NEW args, NEW s \in Marked(args), "CONFIGURED" \notin args
    PROVE  /\ ~Has(s, Odd)
           /\ "DESTROYED" \notin args => ~Has(s, DeadRecords)
           /\ "DEPLOYED" \notin args => ~Has(s, Enlivens)
  <1>1. \A i \in DOMAIN s :
          /\ s[i].op = "status" =>
               s[i].arg \in args /\ s[i].orelse \in (IF s[i].arg = "RUNNING" THEN {"abort", "skip"}
                                                     ELSE {"abort"})
          /\ s[i].op = "stop" => s[i].arg = "" /\ s[i].orelse = "abort"
    BY DEF Marked
  <1>2. ~Has(s, Odd)
    BY <1>1 DEF Has, Odd, Of
  <1>3. "DESTROYED" \notin args => ~Has(s, DeadRecords)
    BY <1>1 DEF Has, DeadRecords, StatusRecords, Of
  <1>4. "DEPLOYED" \notin args => ~Has(s, Enlivens)
    BY <1>1 DEF Has, Enlivens, StatusRecords, Of
  <1>5. QED  BY <1>2, <1>3, <1>4

LEMMA MarkedWhen ==
    ASSUME NEW args, NEW c, NEW s \in Marked(args)
    PROVE  When(c, s) \in Marked(args)
  <1>1. <<>> \in Seq(Step) /\ DOMAIN <<>> = {}
    OBVIOUS
  <1>2. <<>> \in Marked(args)
    BY <1>1 DEF Marked
  <1>3. QED  BY <1>2 DEF When

LEMMA OneTyped ==
    ASSUME NEW T, NEW x \in T
    PROVE  <<x>> \in Seq(T) /\ DOMAIN <<x>> = {1} /\ <<x>>[1] = x
  OBVIOUS

LEMMA MarkedStep ==
    ASSUME NEW args, NEW op \in Ops, NEW arg \in Status \cup ConfigStatus \cup {""},
           NEW orelse \in {"abort", "ignore", "skip", "dump", "save"} \cup Status,
           op = "status" => arg \in args /\ orelse \in (IF arg = "RUNNING" THEN {"abort", "skip"}
                                                        ELSE {"abort"}),
           op = "stop" => arg = "" /\ orelse = "abort"
    PROVE  S(op, arg, orelse) \in Marked(args)
  <1> DEFINE x == [op |-> op, arg |-> arg, orelse |-> orelse]
             s == <<x>>
  <1>1. x \in Step /\ x.op = op /\ x.arg = arg /\ x.orelse = orelse
    BY DEF Step
  <1>2. S(op, arg, orelse) = s
    BY DEF S
  <1> HIDE DEF x
  <1>3. s \in Seq(Step) /\ DOMAIN s = {1} /\ s[1] = x
    BY <1>1, OneTyped
  <1> HIDE DEF s
  <1>4. s \in Marked(args)
    BY <1>1, <1>3 DEF Marked
  <1>5. QED  BY <1>2, <1>4

LEMMA MarkedMore ==
    ASSUME NEW args, NEW more, args \subseteq more
    PROVE  Marked(args) \subseteq Marked(more)
  BY DEF Marked

\* The parts of the commands.
LEMMA MarkedParts ==
    ASSUME NEW comps, NEW servers, NEW c
    PROVE  /\ StartSteps(comps) \in Marked({"RUNNING"})
           /\ StopSteps(comps, servers, "abort") \in Marked({"STOPPED"})
           /\ ForcedStop \in Marked({"STOPPED"})
           /\ RestartSteps(comps, servers, c) \in Marked({"RUNNING"})
           /\ DestroySteps(c) \in Marked({"DESTROYED"})
           /\ DeploySteps \in Marked({"DEPLOYED"})
  <1>1. /\ {"status", "dump", "start", "stop", "restart", "apply", "check", "wipe", "info",
            "install"} \subseteq Ops
        /\ {"RUNNING", "STOPPED", "DESTROYED", "DEPLOYED"} \subseteq Status
    BY DEF Ops, Status
  <1>2. StartSteps(comps) \in Marked({"RUNNING"})
    <2> DEFINE args == {"RUNNING"}
    <2>1. /\ S("start", "", "abort") \in Marked(args)
          /\ S("status", "RUNNING", "skip") \in Marked(args)
          /\ S("dump", "", "ignore") \in Marked(args)
      BY <1>1, MarkedStep
    <2> HIDE DEF args
    <2>2. StartSteps(comps) \in Marked(args)
      BY <2>1, MarkedConcat, MarkedWhen DEF StartSteps
    <2>3. QED  BY <2>2 DEF args
  <1>3. \A p, q : StopSteps(p, q, "abort") \in Marked({"STOPPED"})
    <2> DEFINE args == {"STOPPED"}
    <2>1. /\ S("stop", "", "abort") \in Marked(args)
          /\ S("status", "STOPPED", "abort") \in Marked(args)
      BY <1>1, MarkedStep
    <2> HIDE DEF args
    <2>2. \A p, q : StopSteps(p, q, "abort") \in Marked(args)
      BY <2>1, MarkedConcat, MarkedWhen DEF StopSteps
    <2>3. QED  BY <2>2 DEF args
  <1>4. ForcedStop \in Marked({"STOPPED"})
    BY <1>3, MarkedWhen DEF ForcedStop
  <1>5. RestartSteps(comps, servers, c) \in Marked({"RUNNING"})
    <2> DEFINE args == {"RUNNING"}
    <2>1. /\ S("restart", "", "abort") \in Marked(args)
          /\ S("status", "RUNNING", "abort") \in Marked(args)
          /\ S("apply", "", "abort") \in Marked(args)
      BY <1>1, MarkedStep
    <2> HIDE DEF args
    <2>2. RestartSteps(comps, servers, c) \in Marked(args)
      BY <2>1, MarkedConcat, MarkedWhen DEF RestartSteps
    <2>3. QED  BY <2>2 DEF args
  <1>6. DestroySteps(c) \in Marked({"DESTROYED"})
    <2> DEFINE args == {"DESTROYED"}
    <2>1. /\ S("check", "", "abort") \in Marked(args)
          /\ S("wipe", "", "ignore") \in Marked(args)
          /\ S("status", "DESTROYED", "abort") \in Marked(args)
          /\ S("info", "", "ignore") \in Marked(args)
          /\ S("apply", "", "ignore") \in Marked(args)
      BY <1>1, MarkedStep
    <2> HIDE DEF args
    <2>2. DestroySteps(c) \in Marked(args)
      BY <2>1, MarkedConcat, MarkedWhen DEF DestroySteps
    <2>3. QED  BY <2>2 DEF args
  <1>7. DeploySteps \in Marked({"DEPLOYED"})
    <2> DEFINE args == {"DEPLOYED"}
    <2>1. /\ S("install", "", "abort") \in Marked(args)
          /\ S("status", "DEPLOYED", "abort") \in Marked(args)
          /\ S("dump", "", "abort") \in Marked(args)
      BY <1>1, MarkedStep
    <2> HIDE DEF args
    <2>2. DeploySteps \in Marked(args)
      BY <2>1, MarkedConcat DEF DeploySteps
    <2>3. QED  BY <2>2 DEF args
  <1>8. QED  BY <1>2, <1>3, <1>4, <1>5, <1>6, <1>7

-----------------------------------------------------------------------------
(* The commands keep the promise.                                            *)

\* What the steps of a command have to respect.
Sworn(steps) ==
    /\ steps \in Program
    /\ ~Has(steps, Odd)
    /\ Never(steps, DeadRecords, Checks \cup DeadRecords)
    /\ Never(steps, Enlivens, DeadRecords)
    /\ Has(steps, Checks \cup DeadRecords) => Live
    /\ Behind(steps, Raisers, Enlivens) \/ (Live /\ Never(steps, DeadRecords, Raisers))
    /\ Behind(steps, Installs, DeadRecords) \/ ~Live

LEMMA SwornPlain ==
    ASSUME NEW ops, NEW args, NEW s \in Runs(ops), s \in Marked(args),
           args \cap {"CONFIGURED", "DESTROYED"} = {}, "check" \notin ops,
           (Live /\ "install" \notin ops) \/ (~Live /\ ops \cap {"start", "restart"} = {})
    PROVE  Sworn(s)
  <1>1. ~Has(s, Odd) /\ ~Has(s, DeadRecords)
    BY MarkedNone
  <1>2. s \in Program /\ ~Has(s, Checks)
    BY NoneHere
  <1>3. "install" \notin ops => ~Has(s, Installs)
    BY NoneOf
  <1>4. ops \cap {"start", "restart"} = {} => ~Has(s, Raisers)
    BY NoneHere
  <1>5. ~Has(s, Checks \cup DeadRecords)
    BY <1>1, <1>2, KindsOfEnds
  <1>6. CASE Live /\ "install" \notin ops
    BY <1>1, <1>2, <1>3, <1>5, <1>6, NothingToKeep DEF Sworn
  <1>7. CASE ~Live /\ ops \cap {"start", "restart"} = {}
    BY <1>1, <1>2, <1>4, <1>5, <1>7, NothingToKeep DEF Sworn
  <1>8. QED  BY <1>6, <1>7

LEMMA SwornNewConfig ==
    ASSUME NEW k \in ConfigStatus
    PROVE  Sworn(NewConfig(k))
  <1> DEFINE ops == {"create", "config_status", "dump", "save", "copy"}
             args == {}
  <1>1. NewConfig(k) \in Runs(ops)
    BY NewConfigProgram
  <1>2. ops \subseteq Ops /\ k \in Status \cup ConfigStatus \cup {""}
        /\ "UNCHNAGE" \in Status \cup ConfigStatus \cup {""}
    BY DEF Ops, ConfigStatus
  <1>3. /\ S("create", "", "abort") \in Marked(args) /\ S("dump", "", "ignore") \in Marked(args)
        /\ S("save", "", "abort") \in Marked(args) /\ S("copy", "", "ignore") \in Marked(args)
        /\ S("config_status", k, "save") \in Marked(args)
        /\ S("config_status", "UNCHNAGE", "ignore") \in Marked(args)
    BY <1>2, MarkedStep
  <1>4. /\ args \cap {"CONFIGURED", "DESTROYED"} = {} /\ "check" \notin ops /\ "install" \notin ops
        /\ ops \cap {"start", "restart"} = {}
    OBVIOUS
  <1> HIDE DEF ops, args
  <1>5. NewConfig(k) \in Marked(args)
    BY <1>3, MarkedConcat DEF NewConfig
  <1>6. QED  BY <1>1, <1>4, <1>5, SwornPlain

\* deploy, of the configuration in force or of a new one
LEMMA SwornDeploy ==
    ASSUME NEW c, ~Live
    PROVE  /\ Sworn(When(c, S("apply", "", "abort")) \o DeploySteps)
           /\ Sworn(When(c, S("apply", "", "abort")) \o S("create", "", "abort")
                    \o S("save", "", "abort") \o DeploySteps)
  <1> DEFINE ops == {"apply", "create", "save", "install", "status", "dump"}
             args == {"DEPLOYED"}
             a == When(c, S("apply", "", "abort"))
             b == S("create", "", "abort")
             d == S("save", "", "abort")
  <1>1. a \in Runs(ops) /\ b \in Runs(ops) /\ d \in Runs(ops)
    BY KnownSteps, WhenRuns
  <1>2. DeploySteps \in Runs(ops)
    BY DeployProgram, RunsMore
  <1>3. {"apply", "create", "save"} \subseteq Ops
    BY DEF Ops
  <1>4. a \in Marked(args) /\ b \in Marked(args) /\ d \in Marked(args)
    <2>1. S("apply", "", "abort") \in Marked(args) /\ b \in Marked(args) /\ d \in Marked(args)
      BY <1>3, MarkedStep
    <2> HIDE DEF args
    <2>2. QED  BY <2>1, MarkedWhen
  <1>5. DeploySteps \in Marked(args)
    BY MarkedParts
  <1>6. /\ args \cap {"CONFIGURED", "DESTROYED"} = {} /\ "check" \notin ops
        /\ ops \cap {"start", "restart"} = {}
    OBVIOUS
  <1> HIDE DEF a, b, d, ops, args
  <1>7. a \o DeploySteps \in Runs(ops) /\ ((a \o b) \o d) \o DeploySteps \in Runs(ops)
    BY <1>1, <1>2, RunsConcat
  <1>8. a \o DeploySteps \in Marked(args) /\ ((a \o b) \o d) \o DeploySteps \in Marked(args)
    BY <1>4, <1>5, MarkedConcat
  <1>9. Sworn(a \o DeploySteps) /\ Sworn(((a \o b) \o d) \o DeploySteps)
    BY <1>6, <1>7, <1>8, SwornPlain
  <1>10. QED  BY <1>9 DEF a, b, d

\* start, stop, restart and reload
LEMMA SwornServers ==
    ASSUME NEW comps, NEW servers, NEW c, NEW e, Live
    PROVE  /\ Sworn(StartSteps(comps))
           /\ Sworn(StopSteps(comps, servers, "abort"))
           /\ Sworn(When(e, StartSteps(comps)) \o RestartSteps(comps, servers, c))
           /\ Sworn(When(e, StartSteps(<<>>)) \o S("reload", "", "dump") \o S("apply", "", "abort"))
  <1> DEFINE ops == {"start", "status", "dump", "stop", "restart", "apply", "reload"}
             args == {"RUNNING", "STOPPED"}
             a == S("reload", "", "dump")
             b == S("apply", "", "abort")
  <1>1. a \in Runs(ops) /\ b \in Runs(ops)
    BY KnownSteps
  <1>2. /\ \A p : StartSteps(p) \in Runs(ops)
        /\ StopSteps(comps, servers, "abort") \in Runs(ops)
        /\ RestartSteps(comps, servers, c) \in Runs(ops)
    BY StartProgram, StopProgram, RestartProgram, RunsMore
  <1>3. {"reload", "apply"} \subseteq Ops
    BY DEF Ops
  <1>4. a \in Marked(args) /\ b \in Marked(args)
    BY <1>3, MarkedStep
  <1>5. /\ \A p : StartSteps(p) \in Marked(args)
        /\ StopSteps(comps, servers, "abort") \in Marked(args)
        /\ RestartSteps(comps, servers, c) \in Marked(args)
    BY MarkedParts, MarkedMore
  <1>6. /\ args \cap {"CONFIGURED", "DESTROYED"} = {} /\ "check" \notin ops
        /\ "install" \notin ops
    OBVIOUS
  <1> HIDE DEF a, b, ops, args
  <1>7. /\ When(e, StartSteps(comps)) \o RestartSteps(comps, servers, c) \in Runs(ops)
        /\ (When(e, StartSteps(<<>>)) \o a) \o b \in Runs(ops)
    BY <1>1, <1>2, WhenRuns, RunsConcat
  <1>8. /\ When(e, StartSteps(comps)) \o RestartSteps(comps, servers, c) \in Marked(args)
        /\ (When(e, StartSteps(<<>>)) \o a) \o b \in Marked(args)
    BY <1>4, <1>5, MarkedWhen, MarkedConcat
  <1>9. Sworn((When(e, StartSteps(<<>>)) \o a) \o b)
    BY <1>6, <1>7, <1>8, SwornPlain
  <1>10. QED  BY <1>2, <1>5, <1>6, <1>7, <1>8, <1>9, SwornPlain DEF a, b

\* _destroy_cluster records the deployment as destroyed once.
LEMMA DestroyOnce ==
    ASSUME NEW c
    PROVE  /\ DestroySteps(c) \in Program
           /\ Has(DestroySteps(c), DeadRecords)
           /\ Never(DestroySteps(c), DeadRecords, Checks \cup DeadRecords)
           /\ ~Has(DestroySteps(c), Odd) /\ ~Has(DestroySteps(c), Enlivens)
           /\ ~Has(DestroySteps(c), Raisers) /\ ~Has(DestroySteps(c), Installs)
  <1> DEFINE a == S("check", "", "abort")
             b == S("wipe", "", "ignore")
             r == S("status", "DESTROYED", "abort")
             d == S("info", "", "ignore")
             e == When(c, S("apply", "", "ignore"))
             Z == Checks \cup DeadRecords
  <1>1. "DESTROYED" \in Status /\ {"check", "wipe", "status", "info", "apply"} \subseteq Ops
    BY DEF Status, Ops
  <1>2. /\ a \in Runs({"check"}) /\ b \in Runs({"wipe"}) /\ r \in Runs({"status"})
        /\ d \in Runs({"info"}) /\ e \in Runs({"apply"})
    BY <1>1, KnownSteps, WhenRuns
  <1>3. /\ a \in Program /\ b \in Program /\ r \in Program /\ d \in Program /\ e \in Program
        /\ ~Has(a, DeadRecords) /\ ~Has(b, DeadRecords)
        /\ ~Has(d, DeadRecords) /\ ~Has(e, DeadRecords)
        /\ ~Has(d, Checks) /\ ~Has(e, Checks)
    <2> HIDE DEF a, b, r, d, e
    <2>1. QED  BY <1>2, NoneHere
  <1>4. ~Has(d, Z) /\ ~Has(e, Z)
    BY <1>3, KindsOfEnds
  <1>5. Has(r, DeadRecords)
    <2>1. \E x \in Step : x.op = "status" /\ x.arg = "DESTROYED" /\ x.orelse = "abort" /\ Single(r, x)
      BY <1>1, <1>2, SingleStep
    <2> HIDE DEF r
    <2>2. PICK x \in Step : x.op = "status" /\ x.arg = "DESTROYED" /\ x.orelse = "abort"
                            /\ Single(r, x)
      BY <2>1
    <2>3. x \in DeadRecords
      BY <2>2, KindOf
    <2>4. QED  BY <2>2, <2>3 DEF Single
  <1>6. Never(r, DeadRecords, Z)
    BY OfOne DEF S
  <1>7. DestroySteps(c) = (((a \o b) \o r) \o d) \o e
    BY DEF DestroySteps
  <1>8. ~Has(DestroySteps(c), Odd) /\ ~Has(DestroySteps(c), Enlivens)
    <2> DEFINE args == {"DESTROYED"}
    <2>1. DestroySteps(c) \in Marked(args) /\ "CONFIGURED" \notin args /\ "DEPLOYED" \notin args
      BY MarkedParts
    <2> HIDE DEF args
    <2>2. QED  BY <2>1, MarkedNone
  <1>9. ~Has(DestroySteps(c), Raisers) /\ ~Has(DestroySteps(c), Installs)
    <2> DEFINE ops == {"check", "wipe", "status", "info", "apply"}
    <2>1. /\ DestroySteps(c) \in Runs(ops) /\ ops \cap {"start", "restart"} = {}
          /\ "install" \notin ops
      BY DestroyProgram
    <2> HIDE DEF ops
    <2>2. QED  BY <2>1, NoneHere, NoneOf
  <1> HIDE DEF a, b, r, d, e, Z
  <1>10. a \o b \in Program /\ ~Has(a \o b, DeadRecords)
    BY <1>3, Concat
  <1>11. /\ (a \o b) \o r \in Program /\ Has((a \o b) \o r, DeadRecords)
         /\ Never((a \o b) \o r, DeadRecords, Z)
    BY <1>3, <1>5, <1>6, <1>10, NothingToKeep, Concat
  <1>12. /\ ((a \o b) \o r) \o d \in Program /\ Has(((a \o b) \o r) \o d, DeadRecords)
         /\ Never(((a \o b) \o r) \o d, DeadRecords, Z)
    BY <1>3, <1>4, <1>11, NothingToKeep, Concat
  <1>13. /\ (((a \o b) \o r) \o d) \o e \in Program
         /\ Has((((a \o b) \o r) \o d) \o e, DeadRecords)
         /\ Never((((a \o b) \o r) \o d) \o e, DeadRecords, Z)
    BY <1>3, <1>4, <1>12, NothingToKeep, Concat
  <1>14. QED  BY <1>7, <1>8, <1>9, <1>13 DEF Z

LEMMA ForcedDestroyOnce ==
    ASSUME NEW c
    PROVE  /\ ForcedStop \o DestroySteps(c) \in Program
           /\ Has(ForcedStop \o DestroySteps(c), DeadRecords)
           /\ Never(ForcedStop \o DestroySteps(c), DeadRecords, Checks \cup DeadRecords)
           /\ ~Has(ForcedStop \o DestroySteps(c), Odd)
           /\ ~Has(ForcedStop \o DestroySteps(c), Enlivens)
           /\ ~Has(ForcedStop \o DestroySteps(c), Raisers)
           /\ ~Has(ForcedStop \o DestroySteps(c), Installs)
  <1> DEFINE p == ForcedStop
             q == DestroySteps(c)
  <1>1. /\ ~Has(p, Odd) /\ ~Has(p, Enlivens) /\ ~Has(p, DeadRecords)
    <2> DEFINE args == {"STOPPED"}
    <2>1. p \in Marked(args) /\ {"CONFIGURED", "DEPLOYED", "DESTROYED"} \cap args = {}
      BY MarkedParts
    <2> HIDE DEF args, p
    <2>2. QED  BY <2>1, MarkedNone
  <1>2. p \in Program /\ ~Has(p, Raisers) /\ ~Has(p, Installs)
    <2> DEFINE ops == {"stop", "status"}
    <2>1. p \in Runs(ops) /\ ops \cap {"start", "restart"} = {} /\ "install" \notin ops
      BY ForcedStopProgram
    <2> HIDE DEF ops, p
    <2>2. QED  BY <2>1, NoneHere, NoneOf
  <1>3. /\ q \in Program /\ Has(q, DeadRecords) /\ Never(q, DeadRecords, Checks \cup DeadRecords)
        /\ ~Has(q, Odd) /\ ~Has(q, Enlivens) /\ ~Has(q, Raisers) /\ ~Has(q, Installs)
    BY DestroyOnce
  <1> HIDE DEF p, q
  <1>4. /\ p \o q \in Program /\ Has(p \o q, DeadRecords)
        /\ Never(p \o q, DeadRecords, Checks \cup DeadRecords)
        /\ ~Has(p \o q, Odd) /\ ~Has(p \o q, Enlivens)
        /\ ~Has(p \o q, Raisers) /\ ~Has(p \o q, Installs)
    BY <1>1, <1>2, <1>3, NothingToKeep, Concat
  <1>5. QED  BY <1>4 DEF p, q

LEMMA SwornDestroy ==
    ASSUME NEW c, Live
    PROVE  Sworn(ForcedStop \o DestroySteps(c))
  BY ForcedDestroyOnce, NothingToKeep DEF Sworn

LEMMA DeployEnlivens ==
    /\ DeploySteps \in Program /\ Has(DeploySteps, Enlivens)
    /\ ~Has(DeploySteps, Odd) /\ ~Has(DeploySteps, DeadRecords)
    /\ ~Has(DeploySteps, Checks) /\ ~Has(DeploySteps, Raisers)
  <1> DEFINE a == S("install", "", "abort")
             b == S("status", "DEPLOYED", "abort")
             d == S("dump", "", "abort")
  <1>1. "DEPLOYED" \in Status /\ {"install", "status", "dump"} \subseteq Ops
    BY DEF Status, Ops
  <1>2. a \in Runs({"install"}) /\ b \in Runs({"status"}) /\ d \in Runs({"dump"})
    BY <1>1, KnownSteps
  <1>3. a \in Program /\ b \in Program /\ d \in Program
    BY <1>2, NoneHere
  <1>4. Has(b, Enlivens)
    <2>1. \E x \in Step : x.op = "status" /\ x.arg = "DEPLOYED" /\ x.orelse = "abort" /\ Single(b, x)
      BY <1>1, <1>2, SingleStep
    <2> HIDE DEF b
    <2>2. PICK x \in Step : x.op = "status" /\ x.arg = "DEPLOYED" /\ x.orelse = "abort"
                            /\ Single(b, x)
      BY <2>1
    <2>3. x \in Enlivens
      BY <2>2, KindOf
    <2>4. QED  BY <2>2, <2>3 DEF Single
  <1>5. DeploySteps = (a \o b) \o d
    BY DEF DeploySteps
  <1>6. ~Has(DeploySteps, Odd) /\ ~Has(DeploySteps, DeadRecords)
    <2> DEFINE args == {"DEPLOYED"}
    <2>1. DeploySteps \in Marked(args) /\ {"CONFIGURED", "DESTROYED"} \cap args = {}
      BY MarkedParts
    <2> HIDE DEF args
    <2>2. QED  BY <2>1, MarkedNone
  <1>7. ~Has(DeploySteps, Checks) /\ ~Has(DeploySteps, Raisers)
    <2> DEFINE ops == {"install", "status", "dump"}
    <2>1. /\ DeploySteps \in Runs(ops) /\ ops \cap {"start", "restart"} = {}
          /\ "check" \notin ops
      BY DeployProgram
    <2> HIDE DEF ops
    <2>2. QED  BY <2>1, NoneHere
  <1> HIDE DEF a, b, d
  <1>8. (a \o b) \o d \in Program /\ Has((a \o b) \o d, Enlivens)
    BY <1>3, <1>4, Concat
  <1>9. QED  BY <1>5, <1>6, <1>7, <1>8

LEMMA SwornRedeploy ==
    ASSUME NEW c, Live
    PROVE  Sworn(ForcedStop \o DestroySteps(c) \o S("reapply", "", "abort")
                 \o DeploySteps \o StartSteps(<<>>) \o S("dump", "", "abort"))
  <1> DEFINE p == ForcedStop \o DestroySteps(c)
             a == S("reapply", "", "abort")
             d == DeploySteps
             b == StartSteps(<<>>)
             e == S("dump", "", "abort")
             Z == Checks \cup DeadRecords
  <1>1. /\ p \in Program /\ Has(p, DeadRecords) /\ Never(p, DeadRecords, Z) /\ ~Has(p, Odd)
        /\ ~Has(p, Enlivens) /\ ~Has(p, Raisers) /\ ~Has(p, Installs)
    BY ForcedDestroyOnce
  <1>2. /\ d \in Program /\ Has(d, Enlivens) /\ ~Has(d, Odd) /\ ~Has(d, DeadRecords)
        /\ ~Has(d, Checks) /\ ~Has(d, Raisers)
    BY DeployEnlivens
  <1>3. a \in Runs({"reapply"}) /\ e \in Runs({"dump"})
    BY KnownSteps
  <1>4. /\ a \in Program /\ ~Has(a, DeadRecords) /\ ~Has(a, Checks) /\ ~Has(a, Raisers)
        /\ ~Has(a, Installs)
    <2>1. {"reapply"} \cap {"start", "restart"} = {}
      OBVIOUS
    <2> HIDE DEF a
    <2>2. QED  BY <2>1, <1>3, NoneHere, NoneOf
  <1>5. /\ e \in Program /\ ~Has(e, DeadRecords) /\ ~Has(e, Checks) /\ ~Has(e, Raisers)
        /\ ~Has(e, Installs)
    <2>1. {"dump"} \cap {"start", "restart"} = {}
      OBVIOUS
    <2> HIDE DEF e
    <2>2. QED  BY <2>1, <1>3, NoneHere, NoneOf
  <1>6. ~Has(a, Odd) /\ ~Has(e, Odd) /\ ~Has(a, Enlivens)
    <2> DEFINE args == {}
    <2>1. {"reapply", "dump"} \subseteq Ops
      BY DEF Ops
    <2>2. a \in Marked(args) /\ e \in Marked(args) /\ {"CONFIGURED", "DEPLOYED"} \cap args = {}
      BY <2>1, MarkedStep
    <2> HIDE DEF args, a, e
    <2>3. QED  BY <2>2, MarkedNone
  <1>7. /\ b \in Program /\ ~Has(b, Checks) /\ ~Has(b, Installs)
    <2> DEFINE ops == {"start", "status", "dump"}
    <2>1. b \in Runs(ops) /\ "check" \notin ops /\ "install" \notin ops
      BY StartProgram
    <2> HIDE DEF ops, b
    <2>2. QED  BY <2>1, NoneHere, NoneOf
  <1>8. ~Has(b, Odd) /\ ~Has(b, DeadRecords)
    <2> DEFINE args == {"RUNNING"}
    <2>1. b \in Marked(args) /\ {"CONFIGURED", "DESTROYED"} \cap args = {}
      BY MarkedParts
    <2> HIDE DEF args, b
    <2>2. QED  BY <2>1, MarkedNone
  <1>9. ~Has(a, Z) /\ ~Has(d, Z) /\ ~Has(b, Z) /\ ~Has(e, Z)
    <2> HIDE DEF a, d, b, e
    <2>1. QED  BY <1>2, <1>4, <1>5, <1>7, <1>8, KindsOfEnds
  <1> HIDE DEF p, a, d, b, e, Z
  <1>10. /\ p \o a \in Program /\ Has(p \o a, DeadRecords) /\ Never(p \o a, DeadRecords, Z)
         /\ ~Has(p \o a, Odd) /\ ~Has(p \o a, Enlivens) /\ ~Has(p \o a, Raisers)
         /\ ~Has(p \o a, Installs)
    BY <1>1, <1>4, <1>6, <1>9, NothingToKeep, Concat
  <1> DEFINE u == (p \o a) \o d
  <1>11. /\ u \in Program /\ Has(u, DeadRecords) /\ Has(u, Enlivens) /\ Never(u, DeadRecords, Z)
         /\ ~Has(u, Odd) /\ ~Has(u, Raisers)
         /\ Never(u, Enlivens, DeadRecords) /\ Behind(u, Installs, DeadRecords)
    BY <1>2, <1>9, <1>10, NothingToKeep, Concat
  <1> HIDE DEF u
  <1>12. /\ u \o b \in Program /\ Has(u \o b, DeadRecords) /\ Has(u \o b, Enlivens)
         /\ Never(u \o b, DeadRecords, Z) /\ ~Has(u \o b, Odd)
         /\ Never(u \o b, Enlivens, DeadRecords) /\ Behind(u \o b, Installs, DeadRecords)
         /\ Behind(u \o b, Raisers, Enlivens)
    BY <1>7, <1>8, <1>9, <1>11, NothingToKeep, Concat
  <1>13. /\ (u \o b) \o e \in Program
         /\ Never((u \o b) \o e, DeadRecords, Z) /\ ~Has((u \o b) \o e, Odd)
         /\ Never((u \o b) \o e, Enlivens, DeadRecords)
         /\ Behind((u \o b) \o e, Installs, DeadRecords)
         /\ Behind((u \o b) \o e, Raisers, Enlivens)
    BY <1>5, <1>6, <1>9, <1>12, NothingToKeep, Concat
  <1>14. Sworn((u \o b) \o e)
    BY <1>13 DEF Sworn, Z
  <1>15. QED  BY <1>14 DEF u, p, a, d, b, e

LEMMA BeginPromised ==
    ASSUME Promised, NEW steps, NEW o, Sworn(steps), Begin(steps, o),
           info # Absent \/ Head(steps).op = "create"
    PROVE  Promised'
  <1>1. /\ todo' = steps /\ opts' = o /\ mem' = Loaded /\ Loaded' = Loaded
        /\ info' = info /\ lost' = lost /\ stayed' = stayed /\ Obeying' = Obeying
    BY DEF Begin, disk, cluster, Loaded, Obeying
  <1>2. Live' = Live
    BY <1>1 DEF Live
  <1>3. Behind(steps, Installs, DeadRecords) \/ Obeying = {}
    BY DEF Sworn, Promised
  <1>4. QED  BY <1>1, <1>2, <1>3 DEF Sworn, Promised

\* Commands that are refused when there is no deployment.
LEMMA NeedDeployment ==
    ASSUME info = Absent
    PROVE  Loaded = Fresh /\ ~Live /\ ~Changed(Loaded)
  BY DEF Loaded, Live, Changed, Fresh

LEMMA EditPromised ==
    ASSUME Promised, NEW k \in ConfigStatus, EditConfig(k)
    PROVE  Promised'
  <1>1. k \in Effects(Loaded.status) /\ Begin(NewConfig(k), NewVersion(edits', FALSE))
    BY DEF EditConfig
  <1>2. info # Absent \/ Head(NewConfig(k)).op = "create"
    <2>1. CASE info = Absent
      <3>1. Loaded.status = "CONFIGURED"
        BY <2>1 DEF Loaded, Fresh
      <3>2. k = "UNCHNAGE"
        BY <3>1, <1>1 DEF Effects
      <3>3. QED  BY <3>2, LiveForm DEF HeadIs
    <2>2. QED  BY <2>1
  <1>3. QED  BY <1>1, <1>2, SwornNewConfig, BeginPromised

LEMMA NewDeployPromised ==
    ASSUME Promised, NEW force \in BOOLEAN, DeployNewConfig(force)
    PROVE  Promised'
  <1> DEFINE c == Changed(Loaded)
             a == When(c, S("apply", "", "abort"))
             b == S("create", "", "abort")
             d == S("save", "", "abort")
             s == ((a \o b) \o d) \o DeploySteps
  <1>1. ~Live
    BY DEF DeployNewConfig, Live
  <1>2. Begin(s, NewVersion(edits', force))
    BY DEF DeployNewConfig
  <1>3. Sworn(s)
    BY <1>1, SwornDeploy
  <1>4. info # Absent \/ Head(s).op = "create"
    <2>1. CASE info = Absent
      <3>1. a = <<>>
        BY <2>1, NeedDeployment DEF When
      <3>2. b \in Seq(Good)
        BY PiecesTyped
      <3> HIDE DEF a, b
      <3>3. a \o b = b
        BY <3>1, <3>2, ConcatEmptySeq
      <3>4. s = Edited
        BY <3>3 DEF Edited, b
      <3> HIDE DEF s
      <3>5. QED  BY <3>4, EditedForm DEF HeadIs
    <2>2. QED  BY <2>1
  <1> HIDE DEF s
  <1>5. QED  BY <1>2, <1>3, <1>4, BeginPromised

LEMMA CommandsPromised ==
    ASSUME TypeOK, Promised, Command
    PROVE  Promised'
  <1>1. ASSUME NEW k \in ConfigStatus, EditConfig(k)
        PROVE  Promised'
    BY <1>1, EditPromised
  <1>2. CASE RevertConfig
    <2>1. "UNCHNAGE" \in ConfigStatus /\ Loaded.status # "CONFIGURED"
      BY <1>2 DEF RevertConfig, ConfigStatus
    <2>2. info # Absent
      BY <2>1 DEF Loaded, Fresh
    <2>3. Begin(NewConfig("UNCHNAGE"), NewVersion(config, FALSE))
      BY <1>2 DEF RevertConfig
    <2>4. Sworn(NewConfig("UNCHNAGE"))
      BY <2>1, SwornNewConfig
    <2>5. QED  BY <2>2, <2>3, <2>4, BeginPromised
  <1>3. ASSUME NEW force \in BOOLEAN, DeployCluster(force)
        PROVE  Promised'
    <2>1. ~Live /\ info # Absent
      BY <1>3 DEF DeployCluster, Live
    <2>2. QED  BY <1>3, <2>1, SwornDeploy, BeginPromised DEF DeployCluster
  <1>4. ASSUME NEW force \in BOOLEAN, DeployNewConfig(force)
        PROVE  Promised'
    BY <1>4, NewDeployPromised
  <1>5. ASSUME NEW comps, NEW servers, NEW wp, StartCluster(comps, servers, wp)
        PROVE  Promised'
    <2>1. Live /\ info # Absent
      BY <1>5, NeedDeployment DEF StartCluster, Live
    <2>2. QED  BY <1>5, <2>1, SwornServers, BeginPromised DEF StartCluster
  <1>6. ASSUME NEW comps, NEW servers, StopCluster(comps, servers)
        PROVE  Promised'
    <2>1. Live /\ info # Absent
      BY <1>6, NeedDeployment DEF StopCluster, Live
    <2>2. QED  BY <1>6, <2>1, SwornServers, BeginPromised DEF StopCluster
  <1>7. ASSUME NEW comps, NEW servers, NEW wp, RestartCluster(comps, servers, wp)
        PROVE  Promised'
    <2> DEFINE c == StatusCheck \in {Mixed, Stopped}
               a == wp /\ Changed(Loaded)
               s == When(c, StartSteps(comps)) \o RestartSteps(comps, servers, a)
               o == With(comps, servers, FALSE, wp)
    <2>1. Live /\ info # Absent
      BY <1>7, NeedDeployment DEF RestartCluster, Live
    <2>2. Begin(s, o)
      BY <1>7 DEF RestartCluster
    <2>3. Sworn(s)
      <3> HIDE DEF a, c
      <3>1. QED  BY <2>1, SwornServers
    <2> HIDE DEF s, o
    <2>4. QED  BY <2>1, <2>2, <2>3, BeginPromised
  <1>8. CASE ReloadCluster
    <2> DEFINE c == ~AllUp
               s == When(c, StartSteps(<<>>)) \o S("reload", "", "dump")
                    \o S("apply", "", "abort")
               o == With(<<>>, {}, FALSE, FALSE)
    <2>1. Live /\ info # Absent
      BY <1>8, NeedDeployment DEF ReloadCluster, Live
    <2>2. Begin(s, o)
      BY <1>8 DEF ReloadCluster
    <2>3. Sworn(s)
      <3> HIDE DEF c
      <3>1. QED  BY <2>1, SwornServers
    <2> HIDE DEF s, o
    <2>4. QED  BY <2>1, <2>2, <2>3, BeginPromised
  <1>9. ASSUME NEW force \in BOOLEAN, DestroyCluster(force)
        PROVE  Promised'
    <2>1. Live /\ info # Absent
      BY <1>9, NeedDeployment DEF DestroyCluster, Live
    <2>2. QED  BY <1>9, <2>1, SwornDestroy, BeginPromised DEF DestroyCluster
  <1>10. ASSUME NEW force \in BOOLEAN, RedeployCluster(force)
         PROVE  Promised'
    <2>1. Live /\ info # Absent
      BY <1>10, NeedDeployment DEF RedeployCluster, Live
    <2>2. QED  BY <1>10, <2>1, SwornRedeploy, BeginPromised DEF RedeployCluster
  <1>11. CASE PruneConfig
    <2>1. /\ todo' = <<>> /\ opts' = Idle /\ lost' = lost /\ stayed' = stayed /\ ~Live
          /\ Obeying' = Obeying
      BY <1>11 DEF PruneConfig, Live, cluster, Obeying
    <2>2. Obeying = {}
      BY <2>1 DEF Promised
    <2>3. QED  BY <2>1, <2>2, OfNone DEF Promised
  <1>12. QED
    BY <1>1, <1>2, <1>3, <1>4, <1>5, <1>6, <1>7, <1>8, <1>9, <1>10, <1>11 DEF Command

-----------------------------------------------------------------------------
(* Steps keep the promise.                                                   *)

\* What the promise is made for.
OneServer == \E s : Servers = {s}
Careful   == {"torn", "copy"} \cap Mishaps = {}

LEMMA AllDown ==
    ASSUME OneServer, TypeOK, NoneWhole
    PROVE  Obeying = {}
  <1>1. PICK s : Servers = {s}
    BY DEF OneServer
  <1>2. ASSUME NEW i \in up
        PROVE  i \in stayed
    <2>1. i \in Components \X {s}
      BY <1>1, <1>2 DEF TypeOK, Instances
    <2>2. PICK c \in Components : i = <<c, s>>
      BY <2>1
    <2>3. {c} \X Servers \subseteq up
      BY <1>1, <1>2, <2>2
    <2>4. QED  BY <1>1, <2>2, <2>3 DEF NoneWhole
  <1>3. QED  BY <1>2 DEF Obeying

\* Where an order of steps holds, its first step is not what it puts last.
LEMMA DownAtEnds ==
    ASSUME OneServer, RInv, Promised, todo # <<>>
    PROVE  /\ Head(todo) \in DeadRecords \cup Wipes => Obeying = {}
           /\ Head(todo) \in Installs => Obeying = {}
           /\ Head(todo) \in Raisers => Live
  <1>1. todo \in Program /\ TypeOK
    BY DEF RInv, TInv, Formed
  <1>2. ASSUME Head(todo) \in DeadRecords \cup Wipes
        PROVE  Obeying = {}
    <2>1. ~Behind(todo, DeadRecords \cup Wipes, Checks \cup Stops)
      BY <1>1, <1>2, FirstNotBehind
    <2>2. NoneWhole
      BY <2>1 DEF RInv, Recorded
    <2>3. QED  BY <2>2, <1>1, AllDown
  <1>3. ASSUME Head(todo) \in Installs
        PROVE  Obeying = {}
    BY <1>1, <1>3, FirstNotBehind DEF Promised
  <1>4. ASSUME Head(todo) \in Raisers
        PROVE  Live
    BY <1>1, <1>4, FirstNotBehind DEF Promised
  <1>5. QED  BY <1>2, <1>3, <1>4

\* What becomes of the status.
LEMMA StatusEffect ==
    ASSUME Careful, TInv, Promised, FileStep \/ ServerStep
    PROVE  /\ mem' = Loaded' /\ info' # Absent
           /\ \/ Loaded'.status = Loaded.status
              \/ /\ Head(todo).op = "status" /\ Loaded'.status = Head(todo).arg
                 /\ todo' = Tail(todo) /\ info # Absent /\ Obeying' = Obeying
  <1>1. todo # <<>>
    BY FilesEffect, ServersEffect
  <1>2. /\ Head(todo) \in Good /\ opts # Idle /\ mem = Loaded /\ mem \in DeployInfo
        /\ info \in DeployInfo \cup {Absent, Unreadable}
    BY <1>1, HeadMore, HeadKind DEF TInv, TypeOK, Promised
  <1>3. info = Absent => Head(todo).op = "create"
    BY <1>1 DEF Promised
  <1>4. "torn" \notin Mishaps /\ "copy" \notin Mishaps
    BY DEF Careful
  <1>5. CASE DumpDeployInfo
    <2>1. Head(todo).op \in {"status", "config_status", "info"}
      BY <1>5 DEF DumpDeployInfo, Doing
    <2>2. CASE mem' = Updated(Head(todo)) /\ info' = mem' /\ Proceed
      <3>1. Obeying' = Obeying /\ todo' = Tail(todo) /\ info # Absent
        BY <1>3, <1>5, <2>1, <2>2 DEF DumpDeployInfo, cluster, Proceed, Obeying
      <3>2. /\ Head(todo).op = "status" => Head(todo).arg \in Status
            /\ Head(todo).op = "config_status" => Head(todo).arg \in ConfigStatus
        BY <1>2 DEF Good
      <3>3. /\ mem' \in DeployInfo
            /\ Head(todo).op = "status" => mem'.status = Head(todo).arg
            /\ Head(todo).op # "status" => mem'.status = mem.status
        BY <1>2, <2>1, <2>2, <3>2 DEF Updated, DeployInfo
      <3>4. info' # Absent /\ info' # Unreadable
        BY <2>2, <3>3 DEF DeployInfo, Status, Absent, Unreadable
      <3>5. Loaded' = mem'
        BY <3>4, <2>2 DEF Loaded
      <3>6. QED  BY <3>1, <3>3, <3>4, <3>5, <1>2
    <2>3. CASE mem' = mem /\ info' = info
      <3>1. Loaded' = Loaded /\ info # Absent
        BY <2>1, <2>3, <1>3 DEF Loaded
      <3>2. QED  BY <3>1, <2>3, <1>2
    <2>4. QED  BY <1>4, <1>5, <2>2, <2>3 DEF DumpDeployInfo, Mishap
  <1>6. CASE CreateDeployConfig
    <2>1. mem' = Loaded /\ info' = (IF info = Absent THEN Unreadable ELSE info)
      BY <1>4, <1>6 DEF CreateDeployConfig, Mishap
    <2>2. Unreadable # Absent
      BY DEF Unreadable, Absent
    <2>3. Loaded' = Loaded /\ info' # Absent
      BY <2>1, <2>2 DEF Loaded
    <2>4. QED  BY <2>1, <2>3
  <1>7. CASE /\ CopyTempConfig \/ ApplyTempConfig \/ ReapplyTempConfig \/ DumpDeployConfig
                \/ Save \/ ServerStep
             /\ ~DumpDeployInfo /\ ~CreateDeployConfig
    <2>1. info' = info /\ mem' = mem /\ Head(todo).op # "create"
      BY <1>7 DEF CopyTempConfig, ApplyTempConfig, ReapplyTempConfig, DumpDeployConfig, Save,
                  ServerStep, InstallRepositories, StartServers, StopServers, RestartServers,
                  ReloadServers, CheckServers, WipeServers, disk, Doing
    <2>2. Loaded' = Loaded /\ info # Absent
      BY <2>1, <1>3 DEF Loaded
    <2>3. QED  BY <2>1, <2>2, <1>2
  <1>8. QED  BY <1>5, <1>6, <1>7 DEF FileStep

\* No process loses its directory but those that stayed through a stop.
LEMMA NothingLost ==
    ASSUME OneServer, RInv, Promised, FileStep \/ ServerStep
    PROVE  lost' \subseteq stayed'
  <1>1. todo # <<>> /\ lost \subseteq stayed
    BY FilesEffect, ServersEffect DEF Promised, RInv
  <1>2. Head(todo) \in Step
    BY <1>1, HeadKind DEF RInv, Good
  <1>3. CASE FileStep
    BY <1>1, <1>3 DEF FileStep, DumpDeployInfo, CreateDeployConfig, CopyTempConfig,
                      ApplyTempConfig, ReapplyTempConfig, DumpDeployConfig, Save, cluster
  <1>4. CASE StartServers \/ StopServers \/ RestartServers \/ ReloadServers \/ CheckServers
    <2>1. CASE StartServers
      BY <2>1, <1>1 DEF StartServers, Startable
    <2>2. CASE StopServers
      BY <2>2, <1>1 DEF StopServers
    <2>3. CASE RestartServers
      BY <2>3, <1>1 DEF RestartServers, Startable
    <2>4. CASE ReloadServers \/ CheckServers
      BY <2>4, <1>1 DEF ReloadServers, CheckServers, cluster
    <2>5. QED  BY <1>4, <2>1, <2>2, <2>3, <2>4
  <1>5. CASE InstallRepositories \/ WipeServers
    <2>1. Head(todo).op \in {"install", "wipe"}
      BY <1>5 DEF InstallRepositories, WipeServers, Doing
    <2>2. Head(todo) \in Installs \/ Head(todo) \in DeadRecords \cup Wipes
      BY <2>1, <1>2, KindOf
    <2>3. Obeying = {}
      BY <2>2, <1>1, DownAtEnds
    <2>4. /\ lost' = lost \/ \E removed : RemoveFiles(removed)
          /\ stayed' = stayed
      BY <1>5 DEF InstallRepositories, WipeServers, cluster
    <2>5. QED  BY <2>3, <2>4, <1>1 DEF RemoveFiles, Obeying
  <1>6. QED  BY <1>3, <1>4, <1>5 DEF ServerStep

\* What destroy -f does first restores no status that is not live.
LEMMA ForcedNotOdd ==
    ASSUME mem.status \in {"DEPLOYED", "STOPPED", "RUNNING"}
    PROVE  Forced \in Program /\ ~Has(Forced, Odd)
  <1> DEFINE e == mem.status
             a == S("status", "RUNNING", "ignore")
             b == S("stop", "", e)
             c == S("status", "STOPPED", e)
             ops == {"stop", "status"}
  <1>1. Forced = a \o (b \o c)
    BY DEF Forced, StopSteps, When
  <1>2. /\ {"RUNNING", "STOPPED"} \subseteq Status /\ e \in Status
        /\ ops \subseteq Ops /\ e \notin {"CONFIGURED", "DESTROYED"}
    BY DEF Status, Ops
  <1> HIDE DEF e
  <1>3. a \in Runs(ops) /\ b \in Runs(ops) /\ c \in Runs(ops)
    BY <1>2, KnownSteps
  <1>4. /\ "status" \in ops /\ "stop" \in ops
    OBVIOUS
  <1>5. \E x \in Step : x.op = "status" /\ x.arg = "RUNNING" /\ x.orelse = "ignore" /\ Single(a, x)
    BY <1>2, <1>3, <1>4, SingleStep
  <1>6. \E y \in Step : y.op = "stop" /\ y.arg = "" /\ y.orelse = e /\ Single(b, y)
    BY <1>2, <1>3, <1>4, SingleStep
  <1>7. \E z \in Step : z.op = "status" /\ z.arg = "STOPPED" /\ z.orelse = e /\ Single(c, z)
    BY <1>2, <1>3, <1>4, SingleStep
  <1> HIDE DEF a, b, c, ops
  <1>8. a \in Program /\ ~Has(a, Odd)
    BY <1>5 DEF Single, Odd
  <1>9. b \in Program /\ ~Has(b, Odd)
    BY <1>2, <1>6 DEF Single, Odd
  <1>10. c \in Program /\ ~Has(c, Odd)
    BY <1>2, <1>7 DEF Single, Odd
  <1>11. b \o c \in Program /\ ~Has(b \o c, Odd)
    BY <1>9, <1>10, Concat
  <1>12. QED  BY <1>1, <1>8, <1>11, Concat

\* No step brings in what no command takes.
LEMMA NothingOdd ==
    ASSUME TInv, Promised, FileStep \/ ServerStep
    PROVE  ~Has(todo', Odd)
  <1>1. /\ todo # <<>> /\ Flow /\ todo \in Program /\ Head(todo) \in Good /\ mem = Loaded
        /\ Tail(todo) \in Program
    <2>1. todo # <<>> /\ Flow
      BY FilesEffect, ServersEffect DEF Effect
    <2>2. QED  BY <2>1, HeadKind, HeadMore, ProgramTail DEF Promised
  <1>2. Head(todo) \notin Odd /\ ~Has(Tail(todo), Odd)
    BY <1>1, ProgramTyped, OfTail DEF Promised
  <1>3. CASE Rest(todo')
    <2>1. CASE todo' = <<>> \/ todo' = Tail(todo)
      BY <2>1, <1>2, OfNone
    <2>2. CASE Head(todo).orelse = "skip" /\ todo' = Tail(Tail(todo))
      <3> DEFINE r == Tail(todo)
      <3>1. r \in Program /\ r # <<>>
        BY <1>1, <2>2, ProgramTail
      <3>2. Has(Tail(r), Odd) => Has(r, Odd)
        BY <3>1, ProgramTyped, OfTail
      <3>3. QED  BY <3>2, <1>2, <2>2
    <2>3. CASE /\ todo' # <<>> /\ todo' # Tail(todo)
               /\ ~(Head(todo).orelse = "skip" /\ todo' = Tail(Tail(todo)))
      <3>1. PICK x \in Good :
                /\ todo' = <<x>>
                /\ x.op \in {"dump", "save", "status"} /\ x.orelse \in {"abort", "ignore"}
                /\ x.op = "status" => x.orelse = "ignore" /\ x.arg = Head(todo).orelse
        BY <1>3, <2>3 DEF Rest
      <3>2. Head(todo).orelse \in {"CONFIGURED", "DESTROYED"} => Head(todo) \in Odd
        BY <1>1 DEF Good, Status, Odd, Of
      <3>3. x \notin Odd
        BY <3>1, <3>2, <1>2 DEF Odd, Of
      <3>4. QED  BY <3>1, <3>3, OfOne
    <2>4. QED  BY <2>1, <2>2, <2>3
  <1>4. ASSUME NEW p \in Applying, todo' = p \o Tail(todo)
        PROVE  ~Has(todo', Odd)
    <2>1. p \in Program /\ \A i \in DOMAIN p : p[i].op \in {"apply", "config_status"}
      BY DEF Applying
    <2>2. ~Has(p, Odd)
      BY <2>1 DEF Has, Odd, Of
    <2>3. QED  BY <2>1, <2>2, <1>1, <1>2, <1>4, Concat
  <1>5. CASE Head(todo).op = "check" /\ todo' = Forced \o Tail(todo)
    <2>1. Head(todo) \in Checks
      BY <1>1, <1>5, KindOf DEF Good
    <2>2. Has(todo, Checks \cup DeadRecords)
      BY <2>1, <1>1, HeadMore
    <2>3. mem.status \in {"DEPLOYED", "STOPPED", "RUNNING"}
      BY <2>2, <1>1 DEF Promised, Live
    <2>4. Forced \in Program /\ ~Has(Forced, Odd)
      BY <2>3, ForcedNotOdd
    <2>5. QED  BY <2>4, <1>1, <1>2, <1>5, Concat
  <1>6. QED  BY <1>1, <1>3, <1>4, <1>5 DEF Flow

\* A status step either writes its status or fails.
LEMMA StatusWritten ==
    ASSUME Careful, TInv, Promised, FileStep \/ ServerStep, Head(todo).op = "status"
    PROVE  \/ todo' = Tail(todo) /\ Loaded'.status = Head(todo).arg
           \/ Head(todo).orelse = "abort" => todo' = <<>>
  <1>1. todo # <<>>
    BY FilesEffect, ServersEffect
  <1>2. todo \in Program /\ Head(todo) \in Good /\ mem \in DeployInfo
    BY <1>1, HeadKind DEF TInv, TypeOK
  <1>3. DumpDeployInfo
    BY DEF FileStep, ServerStep, CreateDeployConfig, CopyTempConfig, ApplyTempConfig,
           ReapplyTempConfig, DumpDeployConfig, Save, InstallRepositories, StartServers,
           StopServers, RestartServers, ReloadServers, CheckServers, WipeServers, Doing
  <1>4. "torn" \notin Mishaps
    BY DEF Careful
  <1>5. CASE mem' = Updated(Head(todo)) /\ info' = mem' /\ Proceed
    <2>1. mem' = [mem EXCEPT !.status = Head(todo).arg] /\ Head(todo).arg \in Status
      BY <1>2, <1>5 DEF Updated, Good
    <2>2. mem' \in DeployInfo /\ mem'.status = Head(todo).arg
      BY <2>1, <1>2 DEF DeployInfo
    <2>3. info' # Absent /\ info' # Unreadable
      BY <2>2, <1>5 DEF DeployInfo, Status, Absent, Unreadable
    <2>4. Loaded' = mem'
      BY <2>3, <1>5 DEF Loaded
    <2>5. QED  BY <2>2, <2>4, <1>4, <1>5 DEF Proceed
  <1>6. CASE Fail
    BY <1>1, <1>2, <1>4, <1>6, FailLeavesRest
  <1>7. QED  BY <1>3, <1>4, <1>5, <1>6 DEF DumpDeployInfo, Mishap

\* The statuses a command writes are live ones, but for the record of a destroy.
LEMMA LiveEffect ==
    ASSUME Careful, TInv, Recorded, Promised, FileStep \/ ServerStep
    PROVE  \/ Loaded'.status = Loaded.status /\ (Live' <=> Live)
           \/ /\ info # Absent /\ Obeying' = Obeying /\ todo' = Tail(todo)
              /\ Live' \/ (Head(todo) \in DeadRecords /\ Loaded'.status = "DESTROYED")
  <1>1. /\ todo # <<>> /\ Head(todo) \in Step
        /\ Has(todo, Odd) <=> Head(todo) \in Odd \/ Has(Tail(todo), Odd)
    BY StepFacts
  <1>2. Head(todo) \in Good
    BY <1>1, HeadKind
  <1>3. Head(todo) \notin Odd
    BY <1>1 DEF Promised
  <1>4. CASE Loaded'.status = Loaded.status
    BY <1>4 DEF Live
  <1>5. CASE /\ Head(todo).op = "status" /\ Loaded'.status = Head(todo).arg
             /\ todo' = Tail(todo) /\ info # Absent /\ Obeying' = Obeying
    <2>1. Head(todo).arg \in Status \ {"CONFIGURED"}
      BY <1>1, <1>2, <1>3, <1>5 DEF Good, Odd, Of
    <2>2. CASE Head(todo).arg = "DESTROYED"
      <3>1. Head(todo).orelse = "abort"
        BY <2>2, <1>1, <1>3, <1>5 DEF Odd, Of
      <3>2. Head(todo) \in DeadRecords
        BY <3>1, <2>2, <1>1, <1>5, KindOf
      <3>3. QED  BY <3>2, <2>2, <1>5
    <2>3. CASE Head(todo).arg # "DESTROYED"
      BY <2>1, <2>3, <1>5 DEF Live, Status
    <2>4. QED  BY <2>2, <2>3
  <1>6. QED  BY <1>4, <1>5, StatusEffect

LEMMA ServersNeedLive ==
    ASSUME OneServer, Careful, RInv, Promised, FileStep \/ ServerStep
    PROVE  Obeying' # {} => Live'
  <1>1. /\ todo # <<>> /\ Effect /\ Head(todo) \in Step
    BY StepFacts DEF RInv
  <1>2. Obeying' # {} => Live
    <2>1. CASE Head(todo).op \in {"start", "restart"}
      BY <2>1, <1>1, KindOf, DownAtEnds
    <2>2. CASE Head(todo).op \notin {"start", "restart"}
      BY <2>2, <1>1 DEF Effect, Promised, Obeying
    <2>3. QED  BY <2>1, <2>2
  <1>3. Head(todo) \in DeadRecords => Obeying = {}
    BY <1>1, DownAtEnds
  <1>4. QED  BY <1>2, <1>3, LiveEffect DEF RInv

LEMMA DeadRecordsKept ==
    ASSUME Careful, TInv, Recorded, Promised, FileStep \/ ServerStep
    PROVE  /\ Never(todo', DeadRecords, Checks \cup DeadRecords)
           /\ Never(todo', Enlivens, DeadRecords)
           /\ Has(todo', Checks \cup DeadRecords) => Live'
  <1>1. /\ TypeOK /\ todo \in Program /\ todo # <<>> /\ Flow /\ Forced \in Program
        /\ \A A, B : Never(todo, A, B) /\ Head(todo) \in A => ~Has(Tail(todo), B)
    BY StepFacts
  <1>2. mem.status \in Status
    BY <1>1, ForcedTyped
  <1>3. /\ ~Has(Forced, DeadRecords) /\ ~Has(Forced, Enlivens)
        /\ ~Has(Forced, Checks \cup DeadRecords)
    BY <1>2, ForcedFacts, KindsOfEnds
  <1>4. Aloof(DeadRecords) /\ Aloof(Enlivens) /\ Aloof(Checks \cup DeadRecords)
    BY AloofKinds
  <1>5. Never(todo', DeadRecords, Checks \cup DeadRecords)
    BY <1>1, <1>3, <1>4, FlowNever DEF Promised
  <1>6. Never(todo', Enlivens, DeadRecords)
    BY <1>1, <1>3, <1>4, FlowNever DEF Promised
  <1>7. ASSUME Has(todo', Checks \cup DeadRecords)
        PROVE  Live'
    <2>1. Has(todo, Checks \cup DeadRecords)
      BY <1>1, <1>3, <1>4, <1>7, FlowHas
    <2>2. Live
      BY <2>1 DEF Promised
    <2>3. todo' = Tail(todo) => Head(todo) \notin DeadRecords
      BY <1>1, <1>7 DEF Promised
    <2>4. QED  BY <2>2, <2>3, LiveEffect
  <1>8. QED  BY <1>5, <1>6, <1>7

LEMMA RaisersKept ==
    ASSUME Careful, TInv, Recorded, Promised, FileStep \/ ServerStep
    PROVE  Behind(todo', Raisers, Enlivens) \/ (Live' /\ Never(todo', DeadRecords, Raisers))
  <1>1. /\ TypeOK /\ todo \in Program /\ todo # <<>> /\ Flow /\ Forced \in Program
        /\ Head(todo) \in Step
        /\ \A A, B : Never(todo, A, B) /\ Head(todo) \in A => ~Has(Tail(todo), B)
    BY StepFacts
  <1>2. mem.status \in Status
    BY <1>1, ForcedTyped
  <1>3. ~Has(Forced, DeadRecords) /\ ~Has(Forced, Raisers)
    BY <1>2, ForcedFacts
  <1>4. Aloof(DeadRecords) /\ Aloof(Raisers) /\ \A x \in Enlivens : x.op # "dump"
    BY AloofKinds DEF Enlivens, StatusRecords, Of
  <1>5. CASE Behind(todo, Raisers, Enlivens) /\ Head(todo) \notin Enlivens
    BY <1>1, <1>3, <1>4, <1>5, FlowBehind
  <1>6. CASE Head(todo) \in Enlivens
    <2>1. /\ Head(todo).op = "status" /\ Head(todo).arg = "DEPLOYED"
          /\ Head(todo).orelse = "abort"
      BY <1>1, <1>6, KindOf
    <2>2. ~Has(Tail(todo), DeadRecords)
      BY <1>1, <1>6 DEF Promised
    <2>3. CASE todo' = Tail(todo) /\ Loaded'.status = Head(todo).arg
      <3>1. Live' /\ Never(todo', DeadRecords, Raisers)
        BY <2>1, <2>2, <2>3, NothingToKeep DEF Live
      <3>2. QED  BY <3>1
    <2>4. CASE todo' = <<>>
      BY <2>4, OfNone
    <2>5. QED  BY <2>1, <2>3, <2>4, StatusWritten
  <1>7. CASE Live /\ Never(todo, DeadRecords, Raisers)
    <2>1. Never(todo', DeadRecords, Raisers)
      BY <1>1, <1>3, <1>4, <1>7, FlowNever
    <2>2. CASE Live'
      BY <2>1, <2>2
    <2>3. CASE ~Live'
      <3>1. Head(todo) \in DeadRecords /\ todo' = Tail(todo)
        BY <2>3, <1>7, LiveEffect
      <3>2. ~Has(todo', Raisers)
        BY <3>1, <1>1, <1>7
      <3>3. QED  BY <3>2, NothingToKeep
    <2>4. QED  BY <2>2, <2>3
  <1>8. QED  BY <1>5, <1>6, <1>7 DEF Promised

LEMMA InstallsKept ==
    ASSUME OneServer, RInv, Promised, FileStep \/ ServerStep
    PROVE  Behind(todo', Installs, DeadRecords) \/ Obeying' = {}
  <1>1. /\ TypeOK /\ todo \in Program /\ todo # <<>> /\ Flow /\ Forced \in Program /\ Effect
        /\ Head(todo) \in Step /\ Ordered(todo, opts)
        /\ Never(todo, Raisers, Ends) /\ Head(todo) \in Raisers => ~Has(Tail(todo), Ends)
    BY StepFacts DEF RInv, Recorded
  <1>2. mem.status \in Status
    BY <1>1, ForcedTyped
  <1>3. ~Has(Forced, Installs) /\ Aloof(Installs) /\ \A x \in DeadRecords : x.op # "dump"
    BY <1>2, ForcedFacts, AloofKinds DEF DeadRecords, StatusRecords, Of
  <1>4. CASE Obeying = {} /\ Head(todo).op \in {"start", "restart"}
    <2>1. Head(todo) \in Raisers
      BY <1>1, <1>4, KindOf
    <2>2. ~Has(Tail(todo), Ends)
      BY <2>1, <1>1 DEF Ordered
    <2>3. ~Has(Tail(todo), Installs)
      BY <2>2 DEF Has, Ends
    <2>4. ~Has(todo', Installs)
      BY <2>3, <1>1, <1>3, FlowNone
    <2>5. QED  BY <2>4, NothingToKeep
  <1>5. CASE Obeying = {} /\ Head(todo).op \notin {"start", "restart"}
    BY <1>1, <1>5 DEF Effect, Obeying
  <1>6. CASE Behind(todo, Installs, DeadRecords) /\ Obeying # {}
    <2>1. Head(todo) \notin DeadRecords
      BY <1>1, <1>6, DownAtEnds
    <2>2. QED  BY <2>1, <1>1, <1>3, <1>6, FlowBehind
  <1>7. QED  BY <1>4, <1>5, <1>6 DEF Promised

LEMMA StepsPromised ==
    ASSUME OneServer, Careful, RInv, Promised, FileStep \/ ServerStep
    PROVE  Promised'
  <1>1. TInv /\ Recorded
    BY DEF RInv
  <1>2. mem' = Loaded' /\ info' # Absent
    BY <1>1, StatusEffect
  <1>3. lost' \subseteq stayed' /\ ~Has(todo', Odd) /\ (Obeying' # {} => Live')
    BY <1>1, NothingLost, NothingOdd, ServersNeedLive
  <1>4. /\ Never(todo', DeadRecords, Checks \cup DeadRecords)
        /\ Never(todo', Enlivens, DeadRecords)
        /\ Has(todo', Checks \cup DeadRecords) => Live'
    BY <1>1, DeadRecordsKept
  <1>5. Behind(todo', Raisers, Enlivens) \/ (Live' /\ Never(todo', DeadRecords, Raisers))
    BY <1>1, RaisersKept
  <1>6. Behind(todo', Installs, DeadRecords) \/ Obeying' = {}
    BY InstallsKept
  <1>7. QED  BY <1>2, <1>3, <1>4, <1>5, <1>6 DEF Promised

PInv == RInv /\ Promised

LEMMA PInvInit ==
    ASSUME Init
    PROVE  PInv
  <1>1. RInv /\ todo = <<>> /\ opts = Idle /\ Obeying = {} /\ lost = {}
    BY RInvInit DEF Init, Obeying
  <1>2. QED  BY <1>1, OfNone DEF PInv, Promised

LEMMA PInvNext ==
    ASSUME OneServer, Careful, PInv, [Next]_vars
    PROVE  PInv'
  <1>1. RInv /\ Promised /\ TypeOK /\ RInv'
    BY RInvNext DEF PInv, RInv, TInv
  <1>2. Promised'
    <2>1. CASE UNCHANGED vars
      BY <2>1, <1>1 DEF vars, Promised, Loaded, Live, Obeying
    <2>2. CASE Command
      BY <2>2, <1>1, CommandsPromised
    <2>3. CASE FileStep \/ ServerStep
      BY <2>3, <1>1, StepsPromised
    <2>4. CASE Finish
      <3>1. /\ todo' = <<>> /\ opts' = Idle /\ lost' = lost /\ Loaded' = Loaded
            /\ stayed' = stayed /\ Obeying' = Obeying
        BY <2>4 DEF Finish, disk, cluster, Loaded, Obeying
      <3>2. Live' = Live
        BY <3>1 DEF Live
      <3>3. QED  BY <3>1, <3>2, <1>1, OfNone DEF Promised
    <2>5. CASE Crash
      <3>1. /\ todo' = <<>> /\ opts' = opts /\ mem' = mem /\ lost' = lost
            /\ Loaded' = Loaded /\ stayed' = stayed /\ Obeying' = Obeying
        BY <2>5 DEF Crash, Abort, disk, cluster, Loaded, Obeying
      <3>2. Live' = Live
        BY <3>1 DEF Live
      <3>3. QED  BY <3>1, <3>2, <1>1, OfNone DEF Promised
    <2>6. ASSUME NEW i \in Instances, Die(i)
          PROVE  Promised'
      <3>1. /\ todo' = todo /\ opts' = opts /\ mem' = mem /\ info' = info /\ Loaded' = Loaded
            /\ up' \subseteq up /\ lost' \subseteq lost /\ stayed' = stayed
        BY <2>6 DEF Die, disk, Loaded
      <3>2. Live' = Live
        BY <3>1 DEF Live
      <3>3. Obeying = {} => Obeying' = {}
        BY <3>1 DEF Obeying
      <3>4. QED  BY <3>1, <3>2, <3>3, <1>1 DEF Promised
    <2>7. QED  BY <2>1, <2>2, <2>3, <2>4, <2>5, <2>6 DEF Next
  <1>3. QED  BY <1>1, <1>2 DEF PInv

-----------------------------------------------------------------------------
(* The refinement of DeploymentPromise.                                      *)

\* The abstract state: what is recorded, and the instances that run although
\* no stop that succeeded has left them running.
phase   == Phase(Loaded.status)
serving == (up \cup lost) \ stayed

\* What the phase says of .data.
PhaseFacts ==
    /\ info = Absent <=> phase = "absent"
    /\ info # Absent /\ Loaded.status = "CONFIGURED" => phase = "configured"
    /\ info # Absent /\ Loaded.status = "DESTROYED" => phase = "destroyed"
    /\ Live <=> phase = "live"
    /\ phase \in {"absent", "configured", "live", "destroyed"}

LEMMA PhaseOf ==
    ASSUME TypeOK
    PROVE  PhaseFacts
  <1> DEFINE v == Loaded.status
  <1>1. v \in Status
    BY LoadedTyped
  <1>2. CASE info = Absent
    <2>1. v = "CONFIGURED"
      BY <1>2 DEF Loaded, Fresh
    <2>2. phase = "absent" /\ ~Live
      BY <1>2, <2>1 DEF phase, Phase, Live
    <2>3. QED  BY <1>2, <2>2 DEF PhaseFacts
  <1>3. CASE info # Absent
    <2>1. phase = CASE v = "CONFIGURED"                          -> "configured"
                    [] v = "DESTROYED"                           -> "destroyed"
                    [] v \in {"DEPLOYED", "STOPPED", "RUNNING"} -> "live"
      BY <1>3 DEF phase, Phase
    <2>2. Live <=> v \in {"DEPLOYED", "STOPPED", "RUNNING"}
      BY DEF Live
    <2> HIDE DEF v
    <2>3. CASE v = "CONFIGURED"
      <3>1. phase = "configured" /\ ~Live
        BY <2>1, <2>2, <2>3
      <3>2. QED  BY <3>1, <2>3, <1>3 DEF PhaseFacts, v
    <2>4. CASE v = "DESTROYED"
      <3>1. phase = "destroyed" /\ ~Live
        BY <2>1, <2>2, <2>4
      <3>2. QED  BY <3>1, <2>4, <1>3 DEF PhaseFacts, v
    <2>5. CASE v \in {"DEPLOYED", "STOPPED", "RUNNING"}
      <3>1. phase = "live" /\ Live /\ v # "CONFIGURED" /\ v # "DESTROYED"
        BY <2>1, <2>2, <2>5
      <3>2. QED  BY <3>1, <1>3 DEF PhaseFacts, v
    <2>6. QED  BY <1>1, <2>3, <2>4, <2>5 DEF Status
  <1>4. QED  BY <1>2, <1>3

LEMMA PhaseAfter == /\ TypeOK => PhaseFacts
                    /\ TypeOK' => PhaseFacts'
  <1>1. TypeOK => PhaseFacts
    BY PhaseOf
  <1>2. TypeOK' => PhaseFacts'
    BY <1>1, PTL
  <1>3. QED  BY <1>1, <1>2

\* A step of a command is a step of the promise, or none that it sees.
LEMMA StepsRefine ==
    ASSUME OneServer, Careful, PInv, PInv', FileStep \/ ServerStep
    PROVE  [Promise!Next]_<<phase, serving>>
  <1>1. /\ TInv /\ Recorded /\ Promised /\ Promised' /\ RInv /\ TypeOK /\ TypeOK'
    BY DEF PInv, RInv, TInv
  <1>2. /\ todo # <<>> /\ Has(todo, DeadRecords) <=> Head(todo) \in DeadRecords \/ Has(Tail(todo), DeadRecords)
    BY <1>1, StepFacts
  <1>3. info' # Absent
    BY <1>1, StatusEffect
  <1>4. serving = Obeying /\ serving' = Obeying' /\ Obeying' \in SUBSET Instances
    BY <1>1 DEF serving, Promised, TypeOK, Obeying
  <1>5. /\ phase' # "absent" /\ phase' \in {"absent", "configured", "live", "destroyed"}
        /\ Loaded'.status = "CONFIGURED" => phase' = "configured"
        /\ Loaded'.status = "DESTROYED" => phase' = "destroyed"
        /\ Live' => phase' = "live"
    BY <1>1, <1>3, PhaseAfter DEF PhaseFacts
  <1>6. CASE info = Absent
    <2>1. Loaded.status = "CONFIGURED" /\ ~Live /\ phase = "absent"
      BY <1>1, <1>6, PhaseOf, NeedDeployment DEF Fresh, PhaseFacts
    <2>2. Loaded'.status = Loaded.status /\ ~Live'
      BY <2>1, <1>1, <1>6, LiveEffect
    <2>3. phase' = "configured" /\ Obeying = {} /\ Obeying' = {}
      BY <2>1, <2>2, <1>1, <1>5 DEF Promised
    <2>4. Promise!Register
      BY <2>1, <2>3, <1>4 DEF Promise!Register, phase, serving
    <2>5. QED  BY <2>4 DEF Promise!Next
  <1>7. CASE info # Absent /\ Loaded'.status = Loaded.status
    <2>1. phase' = phase
      <3>1. Live' <=> Live
        BY <1>7 DEF Live
      <3>2. QED  BY <3>1, <1>1, <1>3, <1>7, PhaseAfter, LoadedTyped DEF PhaseFacts, Live, Status
    <2>2. CASE Live
      <3>1. phase = "live"
        BY <2>2, <1>1, PhaseOf DEF PhaseFacts
      <3>2. Promise!Work
        BY <2>1, <3>1, <1>4 DEF Promise!Work, phase, serving
      <3>3. QED  BY <3>2 DEF Promise!Next
    <2>3. CASE ~Live
      <3>1. ~Live'
        BY <2>3, <1>7 DEF Live
      <3>2. Obeying = {} /\ Obeying' = {}
        BY <2>3, <3>1, <1>1 DEF Promised
      <3>3. QED  BY <3>2, <2>1, <1>4
    <2>4. QED  BY <2>2, <2>3
  <1>8. CASE info # Absent /\ Loaded'.status # Loaded.status
    <2>1. /\ Obeying' = Obeying /\ todo' = Tail(todo)
          /\ Live' \/ (Head(todo) \in DeadRecords /\ Loaded'.status = "DESTROYED")
      BY <1>1, <1>8, LiveEffect
    <2>2. CASE Live' /\ Live
      BY <2>1, <2>2, <1>1, <1>4, <1>5, PhaseOf DEF PhaseFacts
    <2>3. CASE Live' /\ ~Live
      <3>1. phase \in {"configured", "destroyed"} /\ phase' = "live"
        <4>1. phase # "absent" /\ phase # "live"
          BY <2>3, <1>1, <1>8, PhaseOf DEF PhaseFacts
        <4>2. QED  BY <4>1, <2>3, <1>1, <1>5, PhaseOf DEF PhaseFacts
      <3>2. Promise!Deploy
        BY <3>1, <2>1, <1>4 DEF Promise!Deploy, phase, serving
      <3>3. QED  BY <3>2 DEF Promise!Next
    <2>4. CASE Head(todo) \in DeadRecords /\ Loaded'.status = "DESTROYED"
      <3>1. Has(todo, Checks \cup DeadRecords)
        BY <2>4, <1>2, KindsOfEnds
      <3>2. Live /\ Obeying = {}
        BY <3>1, <2>4, <1>1, <1>2, DownAtEnds DEF Promised
      <3>3. phase = "live" /\ phase' = "destroyed"
        BY <3>2, <2>4, <1>1, <1>5, PhaseOf DEF PhaseFacts
      <3>4. Promise!Destroy
        BY <3>2, <3>3, <2>1, <1>4 DEF Promise!Destroy, phase, serving
      <3>5. QED  BY <3>4 DEF Promise!Next
    <2>5. QED  BY <2>1, <2>2, <2>3, <2>4
  <1>9. QED  BY <1>6, <1>7, <1>8

LEMMA CommandsRefine ==
    ASSUME PInv, PInv', Command
    PROVE  [Promise!Next]_<<phase, serving>>
  <1>1. Promised /\ Promised' /\ TypeOK /\ TypeOK'
    BY DEF PInv, RInv, TInv
  <1>2. CASE info' = info /\ up' = up /\ lost' = lost /\ stayed' = stayed
    BY <1>2 DEF phase, serving, Phase, Loaded
  <1>3. CASE PruneConfig
    <2>1. /\ info # Absent /\ Loaded.status \in {"DESTROYED", "CONFIGURED"}
          /\ info' = Absent /\ up' = up /\ lost' = lost /\ stayed' = stayed
      BY <1>3 DEF PruneConfig, cluster
    <2>2. phase \in {"configured", "destroyed"} /\ phase' = "absent" /\ serving' = serving
      BY <2>1, <1>1, PhaseAfter DEF serving, PhaseFacts
    <2>3. Promise!Prune
      BY <2>2 DEF Promise!Prune, phase, serving
    <2>4. QED  BY <2>3 DEF Promise!Next
  <1>4. PruneConfig \/ (disk' = disk /\ cluster' = cluster)
    BY DEF Command, EditConfig, RevertConfig, ReloadCluster, DeployCluster, DeployNewConfig,
           DestroyCluster, RedeployCluster, StopCluster, StartCluster, RestartCluster, Begin
  <1>5. disk' = disk /\ cluster' = cluster
        => info' = info /\ up' = up /\ lost' = lost /\ stayed' = stayed
    BY DEF disk, cluster
  <1>6. QED  BY <1>2, <1>3, <1>4, <1>5

LEMMA DieRefines ==
    ASSUME PInv, PInv', NEW i \in Instances, Die(i)
    PROVE  [Promise!Next]_<<phase, serving>>
  <1>1. Promised /\ Promised' /\ TypeOK /\ TypeOK'
    BY DEF PInv, RInv, TInv
  <1>2. /\ info' = info /\ serving' = serving \ {i} /\ serving = Obeying
        /\ serving' \in SUBSET Instances
    BY <1>1 DEF Die, disk, serving, Obeying, Promised, TypeOK
  <1>3. phase' = phase
    BY <1>2 DEF phase, Phase, Loaded
  <1>4. CASE i \notin Obeying
    BY <1>2, <1>3, <1>4
  <1>5. CASE i \in Obeying
    <2>1. phase = "live"
      BY <1>1, <1>5, PhaseOf DEF PhaseFacts, Promised
    <2>2. Promise!Work
      BY <2>1, <1>2, <1>3 DEF Promise!Work, phase, serving
    <2>3. QED  BY <2>2 DEF Promise!Next
  <1>6. QED  BY <1>4, <1>5

\* obd keeps its promise about a deployment (module DeploymentPromise): servers
\* run only while it is recorded as live, but for those that a stop left running
\* although it reported success; whatever fails and wherever obd is killed
\* between two steps, for any number of components of one server each and while
\* no write of .data is torn and no copy of a new configuration fails
\* (_deploy.py, create_deploy_config, removes the directory then).
THEOREM DeploymentKeepsPromise ==
    ASSUME OneServer, Careful
    PROVE  Spec => KeepsPromise
  <1>1. Init => PInv /\ Promise!Init
    <2>1. ASSUME Init
          PROVE  phase = "absent" /\ serving = {}
      <3>1. info = Absent /\ up = {} /\ lost = {}
        BY <2>1 DEF Init
      <3>2. QED  BY <3>1 DEF phase, Phase, serving
    <2>2. QED  BY <2>1, PInvInit DEF Promise!Init, phase, serving
  <1>2. PInv /\ [Next]_vars => PInv' /\ [Promise!Next]_(Promise!vars)
    <2> SUFFICES ASSUME PInv, [Next]_vars
                 PROVE  PInv' /\ [Promise!Next]_(Promise!vars)
      OBVIOUS
    <2>1. PInv'
      BY PInvNext
    <2>2. [Promise!Next]_<<phase, serving>>
      <3>1. CASE UNCHANGED vars \/ Finish \/ Crash
        <4>1. info' = info /\ up' = up /\ lost' = lost /\ stayed' = stayed
          BY <3>1 DEF vars, Finish, Crash, disk, cluster
        <4>2. QED  BY <4>1 DEF phase, serving, Phase, Loaded
      <3>2. CASE Command
        BY <3>2, <2>1, CommandsRefine
      <3>3. CASE FileStep \/ ServerStep
        BY <3>3, <2>1, StepsRefine
      <3>4. ASSUME NEW i \in Instances, Die(i)
            PROVE  [Promise!Next]_<<phase, serving>>
        BY <3>4, <2>1, DieRefines
      <3>5. QED  BY <3>1, <3>2, <3>3, <3>4 DEF Next
    <2>3. QED  BY <2>1, <2>2 DEF Promise!vars, phase, serving
  <1>3. QED  BY <1>1, <1>2, PTL DEF Spec, KeepsPromise, Promise!Spec

-----------------------------------------------------------------------------
(* The waiting configuration and the servers that run.                       *)

\* Behind these no server that runs lacks the waiting configuration.
Suppliers == Waiters \cup DeadRecords

Given == tmp = None \/ \A i \in Obeying : runs[i] = tmp

\* What applies the waiting configuration comes when the servers have it.
Supplied ==
    /\ NoneTwice(opts.comps) =>
         Behind(todo, Spoilers, Suppliers) \/ (Given /\ Never(todo, Raisers, Spoilers))
    /\ Never(todo, Waiters, Raisers)
    /\ Has(todo, DeadRecords) => Never(todo, Raisers, Spoilers)
    /\ Never(todo, Copies, Spoilers)
    /\ Has(todo, Restarts) /\ Has(todo, Spoilers) =>
         NamesAll(opts.comps) /\ opts.servers = {} /\ opts.wp /\ Changed(mem)

LEMMA SupplyKinds ==
    ASSUME NEW x \in Step
    PROVE  /\ x \in Restarts <=> x.op = "restart"
           /\ x \in Reloads <=> x.op = "reload"
           /\ x \in Waiters <=> x.op \in {"restart", "reload"}
           /\ x \in Copies <=> x.op = "copy"
           /\ x \in Spoilers <=> x.op \in {"apply", "reapply"}
           /\ x \in Preparers <=> x.op \in {"apply", "reapply", "copy", "create", "config_status"}
           /\ x \in Suppliers <=> x.op \in {"restart", "reload"} \/ x \in DeadRecords
           /\ x \in Suppliers => x.op \in {"restart", "reload", "status"}
  <1>1. x \in DeadRecords => x.op = "status"
    BY KindOf
  <1>2. QED  BY <1>1 DEF Restarts, Reloads, Waiters, Copies, Spoilers, Preparers, Suppliers, Of

LEMMA SupplyAloof ==
    /\ Aloof(Restarts) /\ Aloof(Reloads) /\ Aloof(Waiters) /\ Aloof(Copies)
    /\ \A x \in Suppliers : x.op # "dump"
  BY DEF Aloof, Restarts, Reloads, Waiters, Copies, Suppliers, DeadRecords, StatusRecords, Of

\* What destroy -f does first neither restarts, copies nor applies anything.
LEMMA ForcedSupply ==
    ASSUME mem.status \in Status
    PROVE  /\ Forced \in Program
           /\ ~Has(Forced, Waiters) /\ ~Has(Forced, Restarts) /\ ~Has(Forced, Copies)
           /\ ~Has(Forced, Spoilers)
  BY ForcedFacts DEF Waiters, Restarts, Reloads, Copies, Spoilers, Of

\* The effect of a step on the configurations.
LEMMA DataEffect ==
    ASSUME TInv, FileStep \/ ServerStep
    PROVE  /\ Head(todo).op # "copy" => tmp' = tmp \/ tmp' = None
           /\ Head(todo).op \notin {"start", "restart", "reload"} =>
                \A i \in Obeying' : i \in Obeying /\ runs'[i] = runs[i]
           /\ Head(todo).op \notin {"create", "config_status"} => (Changed(mem') <=> Changed(mem))
  <1>1. todo # <<>> /\ TypeOK
    BY FilesEffect, ServersEffect DEF TInv
  <1>2. up \subseteq Instances /\ mem \in DeployInfo
    BY <1>1 DEF TypeOK
  <1>3. CASE DumpDeployInfo
    <2>1. /\ tmp' = tmp /\ Obeying' = Obeying /\ runs' = runs
          /\ mem' = mem \/ mem' = Updated(Head(todo))
          /\ Head(todo).op \in {"status", "config_status", "info"}
      BY <1>3 DEF DumpDeployInfo, cluster, Doing, Obeying
    <2>2. Head(todo).op # "config_status" => (Changed(mem') <=> Changed(mem))
      BY <2>1, <1>2 DEF Updated, Changed, DeployInfo
    <2>3. QED  BY <2>1, <2>2
  <1>4. CASE /\ CreateDeployConfig \/ CopyTempConfig \/ ApplyTempConfig \/ ReapplyTempConfig
                \/ DumpDeployConfig \/ Save
    BY <1>4 DEF CreateDeployConfig, CopyTempConfig, ApplyTempConfig, ReapplyTempConfig,
                DumpDeployConfig, Save, cluster, disk, Doing, Obeying
  <1>5. CASE StartServers \/ StopServers \/ RestartServers \/ ReloadServers \/ CheckServers
             \/ WipeServers
    BY <1>5 DEF StartServers, StopServers, RestartServers, ReloadServers, CheckServers,
                WipeServers, RemoveFiles, cluster, disk, Doing, Obeying
  <1>6. CASE InstallRepositories
    <2>1. /\ tmp' = tmp /\ mem' = mem /\ stayed' = stayed
          /\ \/ up' = up /\ runs' = runs
             \/ \E cleaned \in SUBSET Instances :
                  /\ runs' = [i \in Instances |-> IF i \in cleaned THEN None ELSE runs[i]]
                  /\ up' = up \ cleaned
             \/ up' = up \ Instances
      BY <1>6, <1>2 DEF InstallRepositories, RemoveFiles, cluster, disk
    <2>2. QED  BY <2>1, <1>2 DEF Obeying
  <1>7. QED  BY <1>3, <1>4, <1>5, <1>6 DEF FileStep, ServerStep

\* Who restarts or reloads all servers gives them the waiting configuration.
LEMMA SupplyEffect ==
    ASSUME TInv, FileStep \/ ServerStep
    PROVE  /\ Head(todo).op = "restart" =>
                \/ todo' = <<>>
                \/ /\ todo' = Tail(todo) /\ tmp' = tmp
                   /\ Chosen = Instances /\ opts.wp /\ Changed(mem)
                        => \A i \in Obeying' : runs'[i] = tmp'
           /\ Head(todo).op = "reload" => ~Has(todo', Spoilers) \/ \A i \in Obeying' : runs'[i] = tmp'
  <1>1. /\ todo # <<>> /\ TypeOK /\ TypeOK' /\ todo \in Program /\ Head(todo) \in Good
    <2>1. todo # <<>>
      BY FilesEffect, ServersEffect
    <2>2. TInv'
      BY TInvNext DEF Next
    <2>3. QED  BY <2>1, <2>2, HeadKind DEF TInv
  <1>2. Obeying' \subseteq Instances \ stayed'
    BY <1>1 DEF TypeOK, Obeying
  <1>3. ASSUME Head(todo).op = "restart"
        PROVE  \/ todo' = <<>>
               \/ /\ todo' = Tail(todo) /\ tmp' = tmp
                  /\ Chosen = Instances /\ opts.wp /\ Changed(mem)
                       => \A i \in Obeying' : runs'[i] = tmp'
    <2>1. RestartServers
      BY <1>3 DEF FileStep, ServerStep, DumpDeployInfo, CreateDeployConfig, CopyTempConfig,
                  ApplyTempConfig, ReapplyTempConfig, DumpDeployConfig, Save, InstallRepositories,
                  StartServers, StopServers, ReloadServers, CheckServers, WipeServers, Doing
    <2>2. Head(todo).orelse = "abort"
      BY <1>1, <1>3 DEF Good
    <2>3. Fail => todo' = <<>>
      BY <2>2, <1>1, FailLeavesRest
    <2>4. ASSUME NEW kept, Proceed, kept \subseteq stayed',
                 runs' = GivenTo(Chosen \ kept, IF opts.wp /\ Changed(mem) THEN tmp ELSE config)
          PROVE  /\ todo' = Tail(todo) /\ tmp' = tmp
                 /\ Chosen = Instances /\ opts.wp /\ Changed(mem)
                      => \A i \in Obeying' : runs'[i] = tmp'
      <3>1. todo' = Tail(todo) /\ tmp' = tmp
        BY <2>1, <2>4 DEF RestartServers, disk, Proceed
      <3>2. ASSUME Chosen = Instances, opts.wp, Changed(mem)
            PROVE  \A i \in Obeying' : runs'[i] = tmp'
        BY <3>1, <3>2, <2>4, <1>2 DEF GivenTo
      <3>3. QED  BY <3>1, <3>2
    <2>5. QED  BY <2>1, <2>3, <2>4 DEF RestartServers
  <1>4. ASSUME Head(todo).op = "reload"
        PROVE  ~Has(todo', Spoilers) \/ \A i \in Obeying' : runs'[i] = tmp'
    <2>1. ReloadServers
      BY <1>4 DEF FileStep, ServerStep, DumpDeployInfo, CreateDeployConfig, CopyTempConfig,
                  ApplyTempConfig, ReapplyTempConfig, DumpDeployConfig, Save, InstallRepositories,
                  StartServers, StopServers, RestartServers, CheckServers, WipeServers, Doing
    <2>2. CASE runs' = [i \in Instances |-> IF i \in Instances THEN tmp ELSE runs[i]]
      <3>1. tmp' = tmp
        BY <2>1 DEF ReloadServers, disk
      <3>2. QED  BY <3>1, <2>2, <1>2
    <2>3. CASE Fail
      <3> DEFINE s == S("dump", "", "abort")
      <3>1. Head(todo).orelse = "dump"
        BY <1>1, <1>4 DEF Good
      <3>2. todo' = s
        BY <2>3, <3>1 DEF Fail, Status
      <3>3. s \in Runs({"dump"}) /\ {"dump"} \cap {"apply", "reapply"} = {}
        BY KnownSteps
      <3> HIDE DEF s
      <3>4. QED  BY <3>2, <3>3, NoneOf
    <2>4. QED  BY <2>1, <2>2, <2>3 DEF ReloadServers
  <1>5. QED  BY <1>3, <1>4

\* A step leaves behind the servers' suppliers what was behind them, or has
\* supplied the servers.
LEMMA SuppliersKept ==
    ASSUME OneServer, NoneTwice(opts.comps), RInv, Promised, Supplied, FileStep \/ ServerStep
    PROVE  Behind(todo', Spoilers, Suppliers) \/ (Given' /\ Never(todo', Raisers, Spoilers))
  <1> DEFINE h == Head(todo)
             r == Tail(todo)
  <1>1. /\ TInv /\ Recorded
        /\ TypeOK /\ todo \in Program /\ todo # <<>> /\ Effect /\ Flow
        /\ Forced \in Program /\ h \in Step /\ opts' = opts
        /\ \A A, B : /\ Has(todo, A) <=> h \in A \/ Has(r, A)
                     /\ Never(todo, A, B) /\ h \in A => ~Has(r, B)
    BY StepFacts DEF RInv
  <1>2. mem.status \in Status
    BY <1>1, ForcedTyped
  <1>3. /\ ~Has(Forced, Raisers) /\ ~Has(Forced, Spoilers)
    BY <1>2, ForcedFacts, ForcedSupply
  <1>4. /\ h \in Restarts <=> h.op = "restart"
        /\ h \in Waiters <=> h.op \in {"restart", "reload"}
        /\ h \in Copies <=> h.op = "copy"
        /\ h \in Spoilers <=> h.op \in {"apply", "reapply"}
        /\ h \in Suppliers <=> h.op \in {"restart", "reload"} \/ h \in DeadRecords
        /\ h \in Raisers <=> h.op \in {"start", "restart"}
        /\ h \in DeadRecords => h.op = "status"
    BY <1>1, SupplyKinds, KindOf
  <1>5. ASSUME ~Has(r, Raisers)
        PROVE  Never(todo', Raisers, Spoilers)
    <2>1. ~Has(todo', Raisers)
      BY <1>1, <1>3, <1>5, AloofKinds, FlowNone
    <2>2. QED  BY <2>1, NothingToKeep
  <1>6. Never(todo, Raisers, Spoilers) => Never(todo', Raisers, Spoilers)
    BY <1>1, <1>3, AloofKinds, FlowNever
  <1>7. ASSUME Rest(todo'), ~Has(r, Spoilers)
        PROVE  Behind(todo', Spoilers, Suppliers)
    <2>1. ~Has(todo', Spoilers)
      BY <1>1, <1>7, KindsWork, RestNone
    <2>2. QED  BY <2>1, NothingToKeep
  <1>8. todo' = <<>> \/ todo' = r => Rest(todo')
    BY DEF Rest
  <1>9. CASE h \in DeadRecords
    <2>1. Obeying = {}
      BY <1>1, <1>9, DownAtEnds
    <2>2. Obeying' = {}
      BY <2>1, <1>1, <1>4, <1>9 DEF Effect, Obeying
    <2>3. Never(todo, Raisers, Spoilers)
      BY <1>1, <1>9 DEF Supplied
    <2>4. QED  BY <2>2, <2>3, <1>6 DEF Given
  <1>10. CASE h.op = "reload"
    <2>1. Never(todo', Raisers, Spoilers)
      BY <1>1, <1>4, <1>5, <1>10 DEF Supplied
    <2>2. ~Has(todo', Spoilers) \/ Given'
      BY <1>1, <1>10, SupplyEffect DEF Given
    <2>3. QED  BY <2>1, <2>2, NothingToKeep
  <1>11. CASE h.op = "restart"
    <2>1. Never(todo', Raisers, Spoilers)
      BY <1>1, <1>4, <1>5, <1>11 DEF Supplied
    <2>2. \/ todo' = <<>>
          \/ /\ todo' = r /\ tmp' = tmp
             /\ Chosen = Instances /\ opts.wp /\ Changed(mem) => \A i \in Obeying' : runs'[i] = tmp'
      BY <1>1, <1>11, SupplyEffect
    <2>3. CASE Has(r, Spoilers)
      <3>1. /\ NamesAll(opts.comps) /\ opts.servers = {} /\ opts.wp /\ Changed(mem)
        BY <2>3, <1>1, <1>4, <1>11 DEF Supplied
      <3>2. Chosen = Instances
        BY <3>1, <1>1, NamedTargets
      <3>3. todo' = <<>> \/ Given'
        BY <3>1, <3>2, <2>2 DEF Given
      <3>4. QED  BY <3>3, <2>1, OfNone
    <2>4. QED  BY <2>2, <2>3, <1>7, <1>8
  <1>12. CASE h \notin Suppliers /\ Behind(todo, Spoilers, Suppliers)
    <2>1. h \notin Spoilers
      BY <1>1, <1>12, FirstNotBehind
    <2>2. CASE Rest(todo')
      BY <2>2, <1>1, <1>12, KindsWork, SupplyAloof, RestKeeps
    <2>3. CASE todo' = Forced \o r
      <3>1. r \in Program /\ Behind(r, Spoilers, Suppliers) /\ Behind(Forced, Spoilers, Suppliers)
        BY <1>1, <1>3, <1>12, ProgramTail, ProgramTyped, OfTail, NothingToKeep
      <3>2. QED  BY <3>1, <2>3, <1>1, Concat
    <2>4. QED  BY <2>1, <2>2, <2>3, <1>1, <1>4 DEF Flow
  <1>13. CASE h \notin Suppliers /\ Given /\ Never(todo, Raisers, Spoilers)
    <2>1. CASE h.op = "start"
      <3>1. ~Has(r, Spoilers)
        BY <2>1, <1>1, <1>4, <1>13
      <3>2. todo' = <<>> \/ todo' = r
        BY <2>1, <1>1 DEF Effect
      <3>3. QED  BY <3>1, <3>2, <1>7, <1>8
    <2>2. CASE h.op = "copy"
      <3>1. ~Has(r, Spoilers)
        BY <2>2, <1>1, <1>4 DEF Supplied
      <3>2. Rest(todo')
        BY <2>2, <1>1 DEF Flow
      <3>3. QED  BY <3>1, <3>2, <1>7
    <2>3. CASE h.op \notin {"start", "copy"}
      <3>1. /\ tmp' = tmp \/ tmp' = None
            /\ \A i \in Obeying' : i \in Obeying /\ runs'[i] = runs[i]
        BY <2>3, <1>1, <1>4, <1>13, DataEffect
      <3>2. Given'
        BY <3>1, <1>13 DEF Given
      <3>3. QED  BY <3>2, <1>6, <1>13
    <2>4. QED  BY <2>1, <2>2, <2>3
  <1>14. QED  BY <1>4, <1>9, <1>10, <1>11, <1>12, <1>13 DEF Supplied

LEMMA StepsSupplied ==
    ASSUME OneServer, RInv, Promised, Supplied, FileStep \/ ServerStep
    PROVE  Supplied'
  <1> DEFINE h == Head(todo)
             r == Tail(todo)
  <1>1. /\ TInv /\ Recorded
        /\ TypeOK /\ todo \in Program /\ todo # <<>> /\ Effect /\ Flow
        /\ Forced \in Program /\ h \in Step /\ opts' = opts
        /\ \A A, B : /\ Has(todo, A) <=> h \in A \/ Has(r, A)
                     /\ Never(todo, A, B) /\ h \in A => ~Has(r, B)
    BY StepFacts DEF RInv
  <1>2. mem.status \in Status
    BY <1>1, ForcedTyped
  <1>3. /\ ~Has(Forced, Waiters) /\ ~Has(Forced, Restarts) /\ ~Has(Forced, Copies)
        /\ ~Has(Forced, Spoilers) /\ ~Has(Forced, DeadRecords) /\ ~Has(Forced, Raisers)
    BY <1>2, ForcedFacts, ForcedSupply
  <1>4. /\ h \in Spoilers <=> h.op \in {"apply", "reapply"}
        /\ h \in Preparers <=> h.op \in {"apply", "reapply", "copy", "create", "config_status"}
    BY <1>1, SupplyKinds
  <1>5. Never(todo', Waiters, Raisers) /\ Never(todo', Copies, Spoilers)
    BY <1>1, <1>3, SupplyAloof, FlowNever DEF Supplied
  <1>6. ASSUME Has(todo', DeadRecords)
        PROVE  Never(todo', Raisers, Spoilers)
    <2>1. Has(todo, DeadRecords)
      BY <1>1, <1>3, <1>6, AloofKinds, FlowHas
    <2>2. QED  BY <2>1, <1>1, <1>3, AloofKinds, FlowNever DEF Supplied
  <1>7. ASSUME Has(todo', Restarts), Has(todo', Spoilers)
        PROVE  (NamesAll(opts.comps) /\ opts.servers = {} /\ opts.wp /\ Changed(mem))'
    <2>1. Has(r, Restarts)
      BY <1>1, <1>3, <1>7, SupplyAloof, FlowNone
    <2>2. Has(todo, Spoilers)
      <3>1. CASE h \in Spoilers
        BY <3>1, <1>1
      <3>2. CASE Rest(todo')
        BY <3>2, <1>1, <1>7, KindsWork, RestKeeps
      <3>3. CASE todo' = Forced \o r
        BY <3>3, <1>1, <1>3, <1>7, ProgramTail, Concat
      <3>4. QED  BY <3>1, <3>2, <3>3, <1>1, <1>4 DEF Flow
    <2>3. NamesAll(opts.comps) /\ opts.servers = {} /\ opts.wp /\ Changed(mem)
      BY <2>1, <2>2, <1>1 DEF Supplied
    <2>4. h \notin Preparers
      <3>1. Has(r, Waiters)
        BY <2>1 DEF Has, Waiters
      <3>2. QED  BY <3>1, <1>1 DEF TInv, Waiting
    <2>5. Changed(mem')
      BY <2>3, <2>4, <1>1, <1>4, DataEffect
    <2>6. QED  BY <2>3, <2>5, <1>1 DEF Changed
  <1>8. QED  BY <1>1, <1>5, <1>6, <1>7, SuppliersKept DEF Supplied

-----------------------------------------------------------------------------
(* The commands and the waiting configuration.                               *)

\* What the steps of a command with the options o have to respect.
Supplying(s, o) ==
    /\ s \in Program
    /\ Behind(s, Spoilers, Suppliers) \/ (~Live /\ Never(s, Raisers, Spoilers))
    /\ Never(s, Waiters, Raisers)
    /\ Has(s, DeadRecords) => Never(s, Raisers, Spoilers)
    /\ Never(s, Copies, Spoilers)
    /\ Has(s, Restarts) /\ Has(s, Spoilers) =>
         NamesAll(o.comps) /\ o.servers = {} /\ o.wp /\ Changed(Loaded)

LEMMA BeginSupplied ==
    ASSUME Promised, NEW steps, NEW o, Supplying(steps, o), Begin(steps, o)
    PROVE  Supplied'
  <1>1. /\ todo' = steps /\ opts' = o /\ mem' = Loaded /\ runs' = runs /\ tmp' = tmp
        /\ Obeying' = Obeying
    BY DEF Begin, disk, cluster, Obeying
  <1>2. ~Live => Given'
    BY <1>1 DEF Promised, Given
  <1>3. QED  BY <1>1, <1>2 DEF Supplying, Supplied, Changed

LEMMA SupplyNone ==
    ASSUME NEW ops, NEW s \in Runs(ops)
    PROVE  /\ s \in Program
           /\ "copy" \notin ops => ~Has(s, Copies)
           /\ ops \cap {"restart", "reload"} = {} => ~Has(s, Waiters) /\ ~Has(s, Restarts)
           /\ ops \cap {"apply", "reapply"} = {} => ~Has(s, Spoilers)
           /\ ops \cap {"start", "restart"} = {} => ~Has(s, Raisers)
           /\ "status" \notin ops => ~Has(s, DeadRecords)
  <1>1. "copy" \notin ops => ~Has(s, Copies)
    <2>1. ASSUME "copy" \notin ops
          PROVE  \A x \in Copies : x.op \notin ops
      BY <2>1 DEF Copies, Of
    <2>2. QED  BY <2>1, RunsNone
  <1>2. ops \cap {"restart", "reload"} = {} => ~Has(s, Waiters) /\ ~Has(s, Restarts)
    BY NoneOf
  <1>3. QED  BY <1>1, <1>2, NoneOf, NoneHere

\* Commands that apply no configuration.
LEMMA SupplyingPlain ==
    ASSUME NEW ops, NEW s \in Runs(ops), NEW o,
           ops \cap {"apply", "reapply", "restart", "reload"} = {}
    PROVE  Supplying(s, o)
  <1>1. s \in Program /\ ~Has(s, Spoilers) /\ ~Has(s, Waiters)
    BY SupplyNone
  <1>2. QED  BY <1>1, NothingToKeep DEF Supplying

\* deploy, of the configuration in force or of a new one
LEMMA SupplyingDeploy ==
    ASSUME NEW c, NEW o, ~Live
    PROVE  /\ Supplying(When(c, S("apply", "", "abort")) \o DeploySteps, o)
           /\ Supplying(When(c, S("apply", "", "abort")) \o S("create", "", "abort")
                        \o S("save", "", "abort") \o DeploySteps, o)
  <1> DEFINE ops == {"apply", "create", "save", "install", "status", "dump"}
             a == When(c, S("apply", "", "abort"))
             b == S("create", "", "abort")
             d == S("save", "", "abort")
  <1>1. a \in Runs(ops) /\ b \in Runs(ops) /\ d \in Runs(ops)
    BY KnownSteps, WhenRuns
  <1>2. DeploySteps \in Runs(ops)
    BY DeployProgram, RunsMore
  <1>3. /\ ops \cap {"start", "restart"} = {} /\ "copy" \notin ops
        /\ ops \cap {"restart", "reload"} = {}
    OBVIOUS
  <1> HIDE DEF a, b, d, ops
  <1>4. a \o DeploySteps \in Runs(ops) /\ ((a \o b) \o d) \o DeploySteps \in Runs(ops)
    BY <1>1, <1>2, RunsConcat
  <1>5. ASSUME NEW s \in Runs(ops)
        PROVE  Supplying(s, o)
    <2>1. s \in Program /\ ~Has(s, Waiters) /\ ~Has(s, Restarts) /\ ~Has(s, Raisers)
          /\ ~Has(s, Copies)
      BY <1>3, SupplyNone
    <2>2. QED  BY <2>1, NothingToKeep DEF Supplying
  <1>6. Supplying(a \o DeploySteps, o) /\ Supplying(((a \o b) \o d) \o DeploySteps, o)
    BY <1>4, <1>5
  <1>7. QED  BY <1>6 DEF a, b, d

\* Nothing of a start applies a configuration, or waits for one.
LEMMA StartSupplies ==
    ASSUME NEW comps, NEW e
    PROVE  /\ When(e, StartSteps(comps)) \in Program
           /\ ~Has(When(e, StartSteps(comps)), Spoilers) /\ ~Has(When(e, StartSteps(comps)), Waiters)
           /\ ~Has(When(e, StartSteps(comps)), Restarts) /\ ~Has(When(e, StartSteps(comps)), Copies)
           /\ ~Has(When(e, StartSteps(comps)), DeadRecords)
  <1> DEFINE p == When(e, StartSteps(comps))
             ops == {"start", "status", "dump"}
             args == {"RUNNING"}
  <1>1. p \in Runs(ops)
    BY StartProgram, WhenRuns
  <1>2. p \in Marked(args)
    BY MarkedParts, MarkedWhen
  <1>3. /\ ops \cap {"apply", "reapply"} = {} /\ ops \cap {"restart", "reload"} = {}
        /\ "copy" \notin ops /\ {"CONFIGURED", "DESTROYED"} \cap args = {}
    OBVIOUS
  <1> HIDE DEF p, ops, args
  <1>4. /\ p \in Program /\ ~Has(p, Spoilers) /\ ~Has(p, Waiters) /\ ~Has(p, Restarts)
        /\ ~Has(p, Copies) /\ ~Has(p, DeadRecords)
    BY <1>1, <1>2, <1>3, SupplyNone, MarkedNone
  <1>5. QED  BY <1>4 DEF p

\* restart, which may start servers first
LEMMA SupplyingRestart ==
    ASSUME NEW comps, NEW servers, NEW wp, NEW e, NEW o,
           o.comps = comps, o.servers = servers, o.wp = wp
    PROVE  Supplying(When(e, StartSteps(comps))
                     \o RestartSteps(comps, servers, wp /\ Changed(Loaded)), o)
  <1> DEFINE p == When(e, StartSteps(comps))
             all == NamesAll(comps) /\ servers = {}
             new == wp /\ Changed(Loaded)
             a == S("restart", "", "abort")
             b == When(all /\ new, S("apply", "", "abort"))
             d == When(all, S("status", "RUNNING", "abort"))
             t == (a \o b) \o d
  <1>1. p \in Program /\ ~Has(p, Spoilers) /\ ~Has(p, Waiters) /\ ~Has(p, Copies)
        /\ ~Has(p, DeadRecords)
    BY StartSupplies
  <1>2. a \in Runs({"restart"}) /\ b \in Runs({"apply"}) /\ d \in Runs({"status"})
    <2>1. "RUNNING" \in Status  BY DEF Status
    <2>2. QED  BY <2>1, KnownSteps, WhenRuns
  <1>3. t = RestartSteps(comps, servers, new)
    BY DEF RestartSteps
  <1>4. ~Has(t, DeadRecords)
    <2> DEFINE args == {"RUNNING"}
    <2>1. RestartSteps(comps, servers, new) \in Marked(args) /\ {"CONFIGURED", "DESTROYED"} \cap args = {}
      <3> HIDE DEF new
      <3>1. QED  BY MarkedParts
    <2> HIDE DEF args, t, new
    <2>2. QED  BY <2>1, <1>3, MarkedNone
  <1>5. Has(a, Suppliers) /\ Never(a, Waiters, Raisers)
    <2>1. {"restart"} \subseteq Ops
      BY DEF Ops
    <2>2. \E x \in Step : x.op = "restart" /\ x.arg = "" /\ x.orelse = "abort" /\ Single(a, x)
      <3>1. S("restart", "", "abort") \in Runs({"restart"})
        BY <1>2
      <3>2. QED  BY <3>1, <2>1, SingleStep
    <2>3. Never(a, Waiters, Raisers)
      BY OfOne DEF S
    <2> HIDE DEF a
    <2>4. PICK x \in Step : x.op = "restart" /\ x.arg = "" /\ x.orelse = "abort" /\ Single(a, x)
      BY <2>2
    <2>5. x \in Suppliers
      BY <2>4, SupplyKinds
    <2>6. QED  BY <2>3, <2>4, <2>5 DEF Single
  <1>6. b # <<>> => all /\ new
    BY DEF When
  <1> HIDE DEF p, a, b, d
  <1>7. /\ a \in Program /\ b \in Program /\ d \in Program
        /\ ~Has(a, Spoilers) /\ ~Has(a, Copies)
        /\ ~Has(b, Waiters) /\ ~Has(b, Raisers) /\ ~Has(b, Copies)
        /\ ~Has(d, Waiters) /\ ~Has(d, Raisers) /\ ~Has(d, Copies) /\ ~Has(d, Spoilers)
    BY <1>2, SupplyNone
  <1>8. /\ a \o b \in Program /\ Has(a \o b, Suppliers) /\ ~Has(a \o b, Copies)
        /\ Never(a \o b, Waiters, Raisers) /\ Behind(a \o b, Spoilers, Suppliers)
        /\ Has(a \o b, Spoilers) => Has(b, Spoilers)
    BY <1>5, <1>7, NothingToKeep, Concat
  <1>9. /\ t \in Program /\ ~Has(t, Copies)
        /\ Never(t, Waiters, Raisers) /\ Behind(t, Spoilers, Suppliers)
        /\ Has(t, Spoilers) => Has(b, Spoilers)
    BY <1>7, <1>8, NothingToKeep, Concat
  <1> HIDE DEF t
  <1>10. /\ p \o t \in Program /\ ~Has(p \o t, Copies) /\ ~Has(p \o t, DeadRecords)
         /\ Never(p \o t, Waiters, Raisers) /\ Behind(p \o t, Spoilers, Suppliers)
         /\ Has(p \o t, Spoilers) => Has(b, Spoilers)
    BY <1>1, <1>4, <1>9, NothingToKeep, Concat
  <1>11. Has(b, Spoilers) => all /\ new
    BY <1>6, OfNone
  <1>12. Supplying(p \o t, o)
    BY <1>10, <1>11, NothingToKeep DEF Supplying
  <1>13. QED  BY <1>12, <1>3 DEF p

\* reload, which may start servers first
LEMMA SupplyingReload ==
    ASSUME NEW e, NEW o
    PROVE  Supplying(When(e, StartSteps(<<>>)) \o S("reload", "", "dump")
                     \o S("apply", "", "abort"), o)
  <1> DEFINE p == When(e, StartSteps(<<>>))
             a == S("reload", "", "dump")
             b == S("apply", "", "abort")
  <1>1. p \in Program /\ ~Has(p, Spoilers) /\ ~Has(p, Waiters) /\ ~Has(p, Copies)
        /\ ~Has(p, Restarts) /\ ~Has(p, DeadRecords)
    BY StartSupplies
  <1>2. a \in Runs({"reload"}) /\ b \in Runs({"apply"})
    BY KnownSteps
  <1>3. Has(a, Suppliers)
    <2>1. {"reload"} \subseteq Ops
      BY DEF Ops
    <2>2. \E x \in Step : x.op = "reload" /\ x.arg = "" /\ x.orelse = "dump" /\ Single(a, x)
      BY <1>2, <2>1, SingleStep
    <2> HIDE DEF a
    <2>3. PICK x \in Step : x.op = "reload" /\ x.arg = "" /\ x.orelse = "dump" /\ Single(a, x)
      BY <2>2
    <2>4. x \in Suppliers
      BY <2>3, SupplyKinds
    <2>5. QED  BY <2>3, <2>4 DEF Single
  <1> HIDE DEF p, a, b
  <1>4. /\ a \in Program /\ b \in Program
        /\ ~Has(a, Spoilers) /\ ~Has(a, Copies) /\ ~Has(a, Raisers) /\ ~Has(a, DeadRecords)
        /\ ~Has(b, Waiters) /\ ~Has(b, Raisers) /\ ~Has(b, Copies) /\ ~Has(b, DeadRecords)
    BY <1>2, SupplyNone
  <1>5. ~Has(a, Restarts) /\ ~Has(b, Restarts)
    BY <1>2, NoneOf
  <1>6. /\ p \o a \in Program /\ Has(p \o a, Suppliers) /\ ~Has(p \o a, Copies)
        /\ ~Has(p \o a, DeadRecords) /\ ~Has(p \o a, Restarts)
        /\ Never(p \o a, Waiters, Raisers) /\ Behind(p \o a, Spoilers, Suppliers)
    BY <1>1, <1>3, <1>4, <1>5, NothingToKeep, Concat
  <1>7. /\ (p \o a) \o b \in Program /\ ~Has((p \o a) \o b, Copies)
        /\ ~Has((p \o a) \o b, DeadRecords) /\ ~Has((p \o a) \o b, Restarts)
        /\ Never((p \o a) \o b, Waiters, Raisers) /\ Behind((p \o a) \o b, Spoilers, Suppliers)
    BY <1>4, <1>5, <1>6, NothingToKeep, Concat
  <1>8. Supplying((p \o a) \o b, o)
    BY <1>7, NothingToKeep DEF Supplying
  <1>9. QED  BY <1>8 DEF p, a, b

\* _destroy_cluster applies the waiting configuration when the deployment is
\* recorded as destroyed.
LEMMA DestroyThenApply ==
    ASSUME NEW c
    PROVE  Behind(DestroySteps(c), Spoilers, Suppliers)
  <1> DEFINE a == S("check", "", "abort")
             b == S("wipe", "", "ignore")
             r == S("status", "DESTROYED", "abort")
             d == S("info", "", "ignore")
             e == When(c, S("apply", "", "ignore"))
  <1>1. "DESTROYED" \in Status /\ {"check", "wipe", "status", "info", "apply"} \subseteq Ops
    BY DEF Status, Ops
  <1>2. /\ a \in Runs({"check"}) /\ b \in Runs({"wipe"}) /\ r \in Runs({"status"})
        /\ d \in Runs({"info"}) /\ e \in Runs({"apply"})
    BY <1>1, KnownSteps, WhenRuns
  <1>3. Has(r, Suppliers)
    <2>1. \E x \in Step : x.op = "status" /\ x.arg = "DESTROYED" /\ x.orelse = "abort" /\ Single(r, x)
      BY <1>1, <1>2, SingleStep
    <2> HIDE DEF r
    <2>2. PICK x \in Step : x.op = "status" /\ x.arg = "DESTROYED" /\ x.orelse = "abort"
                            /\ Single(r, x)
      BY <2>1
    <2>3. x \in Suppliers
      BY <2>2, KindOf DEF Suppliers
    <2>4. QED  BY <2>2, <2>3 DEF Single
  <1>4. DestroySteps(c) = (((a \o b) \o r) \o d) \o e
    BY DEF DestroySteps
  <1> HIDE DEF a, b, r, d, e
  <1>5. /\ a \in Program /\ b \in Program /\ r \in Program /\ d \in Program /\ e \in Program
        /\ ~Has(a, Spoilers) /\ ~Has(b, Spoilers) /\ ~Has(r, Spoilers) /\ ~Has(d, Spoilers)
    BY <1>2, SupplyNone
  <1>6. /\ a \o b \in Program /\ ~Has(a \o b, Spoilers)
    BY <1>5, Concat
  <1>7. /\ (a \o b) \o r \in Program /\ ~Has((a \o b) \o r, Spoilers)
        /\ Has((a \o b) \o r, Suppliers)
    BY <1>3, <1>5, <1>6, Concat
  <1>8. /\ ((a \o b) \o r) \o d \in Program /\ ~Has(((a \o b) \o r) \o d, Spoilers)
        /\ Has(((a \o b) \o r) \o d, Suppliers)
    BY <1>5, <1>7, Concat
  <1>9. Behind((((a \o b) \o r) \o d) \o e, Spoilers, Suppliers)
    BY <1>5, <1>8, NothingToKeep, Concat
  <1>10. QED  BY <1>4, <1>9

LEMMA ForcedDestroySupplies ==
    ASSUME NEW c
    PROVE  /\ Behind(ForcedStop \o DestroySteps(c), Spoilers, Suppliers)
           /\ ~Has(ForcedStop \o DestroySteps(c), Waiters)
           /\ ~Has(ForcedStop \o DestroySteps(c), Restarts)
           /\ ~Has(ForcedStop \o DestroySteps(c), Copies)
  <1> DEFINE p == ForcedStop
             q == DestroySteps(c)
             ops == {"stop", "status", "check", "wipe", "info", "apply"}
  <1>1. p \in Runs(ops) /\ q \in Runs(ops)
    BY ForcedStopProgram, DestroyProgram, RunsMore
  <1>2. p \in Runs({"stop", "status"})
    BY ForcedStopProgram
  <1>3. ops \cap {"restart", "reload"} = {} /\ "copy" \notin ops
    OBVIOUS
  <1>4. Behind(q, Spoilers, Suppliers)
    BY DestroyThenApply
  <1> HIDE DEF p, q, ops
  <1>5. p \o q \in Runs(ops)
    BY <1>1, RunsConcat
  <1>6. ~Has(p \o q, Waiters) /\ ~Has(p \o q, Restarts) /\ ~Has(p \o q, Copies)
    BY <1>3, <1>5, SupplyNone
  <1>7. p \in Program /\ q \in Program /\ ~Has(p, Spoilers)
    BY <1>1, <1>2, SupplyNone
  <1>8. Behind(p \o q, Spoilers, Suppliers)
    BY <1>4, <1>7, NothingToKeep, Concat
  <1>9. QED  BY <1>6, <1>8 DEF p, q

LEMMA SupplyingDestroy ==
    ASSUME NEW c, NEW o
    PROVE  Supplying(ForcedStop \o DestroySteps(c), o)
  BY ForcedDestroyOnce, ForcedDestroySupplies, NothingToKeep DEF Supplying

\* redeploy
LEMMA SupplyingRedeploy ==
    ASSUME NEW c, NEW o
    PROVE  Supplying(ForcedStop \o DestroySteps(c) \o S("reapply", "", "abort")
                     \o DeploySteps \o StartSteps(<<>>) \o S("dump", "", "abort"), o)
  <1> DEFINE p == ForcedStop \o DestroySteps(c)
             a == S("reapply", "", "abort")
             d == DeploySteps
             b == StartSteps(<<>>)
             e == S("dump", "", "abort")
  <1>1. /\ p \in Program /\ Has(p, DeadRecords) /\ ~Has(p, Raisers)
        /\ Behind(p, Spoilers, Suppliers) /\ ~Has(p, Waiters) /\ ~Has(p, Restarts)
        /\ ~Has(p, Copies)
    BY ForcedDestroyOnce, ForcedDestroySupplies
  <1>2. Has(p, Suppliers)
    BY <1>1 DEF Has, Suppliers
  <1>3. /\ a \in Runs({"reapply"}) /\ d \in Runs({"install", "status", "dump"})
        /\ b \in Runs({"start", "status", "dump"}) /\ e \in Runs({"dump"})
    BY KnownSteps, DeployProgram, StartProgram
  <1> HIDE DEF p, a, d, b, e
  <1>4. /\ a \in Program /\ ~Has(a, Waiters) /\ ~Has(a, Restarts) /\ ~Has(a, Copies)
        /\ ~Has(a, Raisers)
    BY <1>3, SupplyNone
  <1>5. /\ d \in Program /\ ~Has(d, Waiters) /\ ~Has(d, Restarts) /\ ~Has(d, Copies)
        /\ ~Has(d, Raisers) /\ ~Has(d, Spoilers)
    BY <1>3, SupplyNone
  <1>6. /\ b \in Program /\ ~Has(b, Waiters) /\ ~Has(b, Restarts) /\ ~Has(b, Copies)
        /\ ~Has(b, Spoilers)
    BY <1>3, SupplyNone
  <1>7. /\ e \in Program /\ ~Has(e, Waiters) /\ ~Has(e, Restarts) /\ ~Has(e, Copies)
        /\ ~Has(e, Spoilers)
    BY <1>3, SupplyNone
  <1>8. /\ p \o a \in Program /\ Has(p \o a, Suppliers) /\ ~Has(p \o a, Raisers)
        /\ Behind(p \o a, Spoilers, Suppliers) /\ ~Has(p \o a, Waiters)
        /\ ~Has(p \o a, Restarts) /\ ~Has(p \o a, Copies)
    BY <1>1, <1>2, <1>4, Concat
  <1> DEFINE u == (p \o a) \o d
  <1>9. /\ u \in Program /\ ~Has(u, Raisers)
        /\ Behind(u, Spoilers, Suppliers) /\ ~Has(u, Waiters)
        /\ ~Has(u, Restarts) /\ ~Has(u, Copies)
    BY <1>5, <1>8, Concat
  <1> HIDE DEF u
  <1> DEFINE v == b \o e
  <1>10. /\ v \in Program /\ ~Has(v, Waiters) /\ ~Has(v, Restarts) /\ ~Has(v, Copies)
         /\ ~Has(v, Spoilers)
    BY <1>6, <1>7, Concat
  <1>11. (u \o b) \o e = u \o v
    <2>1. u \in Seq(Good) /\ b \in Seq(Good) /\ e \in Seq(Good)
      BY <1>6, <1>7, <1>9, ProgramTyped
    <2>2. QED  BY ONLY <2>1, ConcatAssociative DEF v
  <1> HIDE DEF v
  <1>12. /\ u \o v \in Program /\ Behind(u \o v, Spoilers, Suppliers)
         /\ Never(u \o v, Raisers, Spoilers)
         /\ ~Has(u \o v, Waiters) /\ ~Has(u \o v, Restarts) /\ ~Has(u \o v, Copies)
    BY <1>9, <1>10, NothingToKeep, Concat
  <1>13. Supplying((u \o b) \o e, o)
    BY <1>11, <1>12, NothingToKeep DEF Supplying
  <1>14. QED  BY <1>13 DEF u, p, a, d, b, e

LEMMA CommandsSupplied ==
    ASSUME Promised, Supplied, Command
    PROVE  Supplied'
  <1>1. ASSUME NEW k \in ConfigStatus, NEW o, Begin(NewConfig(k), o)
        PROVE  Supplied'
    <2> DEFINE ops == {"create", "config_status", "dump", "save", "copy"}
    <2>1. NewConfig(k) \in Runs(ops) /\ ops \cap {"apply", "reapply", "restart", "reload"} = {}
      BY NewConfigProgram
    <2> HIDE DEF ops
    <2>2. QED  BY <1>1, <2>1, SupplyingPlain, BeginSupplied
  <1>2. ASSUME NEW k \in ConfigStatus, EditConfig(k)
        PROVE  Supplied'
    BY <1>1, <1>2 DEF EditConfig
  <1>3. CASE RevertConfig
    <2>1. "UNCHNAGE" \in ConfigStatus
      BY DEF ConfigStatus
    <2>2. Begin(NewConfig("UNCHNAGE"), NewVersion(config, FALSE))
      BY <1>3 DEF RevertConfig
    <2>3. QED  BY <2>1, <2>2, <1>1
  <1>4. ASSUME NEW force \in BOOLEAN, DeployCluster(force)
        PROVE  Supplied'
    BY <1>4, SupplyingDeploy, BeginSupplied DEF DeployCluster, Live
  <1>5. ASSUME NEW force \in BOOLEAN, DeployNewConfig(force)
        PROVE  Supplied'
    BY <1>5, SupplyingDeploy, BeginSupplied DEF DeployNewConfig, Live
  <1>6. ASSUME NEW comps, NEW servers, NEW wp, StartCluster(comps, servers, wp)
        PROVE  Supplied'
    <2> DEFINE ops == {"start", "status", "dump"}
    <2>1. StartSteps(comps) \in Runs(ops) /\ ops \cap {"apply", "reapply", "restart", "reload"} = {}
      BY StartProgram
    <2> HIDE DEF ops
    <2>2. QED  BY <1>6, <2>1, SupplyingPlain, BeginSupplied DEF StartCluster
  <1>7. ASSUME NEW comps, NEW servers, StopCluster(comps, servers)
        PROVE  Supplied'
    <2> DEFINE ops == {"stop", "status"}
               s == StopSteps(comps, servers, "abort")
    <2>1. s \in Runs(ops) /\ ops \cap {"apply", "reapply", "restart", "reload"} = {}
      BY StopProgram
    <2>2. Begin(s, With(comps, servers, FALSE, FALSE))
      BY <1>7 DEF StopCluster
    <2> HIDE DEF ops, s
    <2>3. QED  BY <2>1, <2>2, SupplyingPlain, BeginSupplied
  <1>8. ASSUME NEW comps, NEW servers, NEW wp, RestartCluster(comps, servers, wp)
        PROVE  Supplied'
    <2> DEFINE c == StatusCheck \in {Mixed, Stopped}
               o == With(comps, servers, FALSE, wp)
               s == When(c, StartSteps(comps))
                    \o RestartSteps(comps, servers, wp /\ Changed(Loaded))
    <2>1. Begin(s, o)
      BY <1>8 DEF RestartCluster
    <2>2. o.comps = comps /\ o.servers = servers /\ o.wp = wp
      BY DEF With
    <2>3. Supplying(s, o)
      <3> HIDE DEF c, o
      <3>1. QED  BY <2>2, SupplyingRestart
    <2> HIDE DEF s, o
    <2>4. QED  BY <2>1, <2>3, BeginSupplied
  <1>9. CASE ReloadCluster
    <2> DEFINE c == ~AllUp
               s == When(c, StartSteps(<<>>)) \o S("reload", "", "dump") \o S("apply", "", "abort")
               o == With(<<>>, {}, FALSE, FALSE)
    <2>1. Begin(s, o)
      BY <1>9 DEF ReloadCluster
    <2>2. Supplying(s, o)
      <3> HIDE DEF c, o
      <3>1. QED  BY SupplyingReload
    <2> HIDE DEF s, o
    <2>3. QED  BY <2>1, <2>2, BeginSupplied
  <1>10. ASSUME NEW force \in BOOLEAN, DestroyCluster(force)
         PROVE  Supplied'
    BY <1>10, SupplyingDestroy, BeginSupplied DEF DestroyCluster
  <1>11. ASSUME NEW force \in BOOLEAN, RedeployCluster(force)
         PROVE  Supplied'
    BY <1>11, SupplyingRedeploy, BeginSupplied DEF RedeployCluster
  <1>12. CASE PruneConfig
    <2>1. todo' = <<>>
      BY <1>12 DEF PruneConfig
    <2>2. QED  BY <2>1, OfNone DEF Supplied
  <1>13. QED
    BY <1>2, <1>3, <1>4, <1>5, <1>6, <1>7, <1>8, <1>9, <1>10, <1>11, <1>12 DEF Command

AInv == PInv /\ Supplied

LEMMA AInvInit ==
    ASSUME Init
    PROVE  AInv
  <1>1. todo = <<>>
    BY DEF Init
  <1>2. Supplied
    BY <1>1, OfNone DEF Supplied
  <1>3. QED  BY <1>2, PInvInit DEF AInv

LEMMA AInvNext ==
    ASSUME OneServer, Careful, AInv, [Next]_vars
    PROVE  AInv'
  <1>1. PInv'
    BY PInvNext DEF AInv
  <1>2. Supplied'
    <2>1. CASE Command
      BY <2>1, CommandsSupplied DEF AInv, PInv
    <2>2. CASE FileStep \/ ServerStep
      BY <2>2, StepsSupplied DEF AInv, PInv
    <2>3. CASE Finish \/ Crash
      <3>1. todo' = <<>>
        BY <2>3 DEF Finish, Crash, Abort
      <3>2. QED  BY <3>1, OfNone DEF Supplied
    <2>4. ASSUME NEW i \in Instances, Die(i)
          PROVE  Supplied'
      <3>1. /\ todo' = todo /\ opts' = opts /\ mem' = mem /\ tmp' = tmp /\ runs' = runs
            /\ Obeying' \subseteq Obeying
        BY <2>4 DEF Die, disk, Obeying
      <3>2. Given => Given'
        BY <3>1 DEF Given
      <3>3. QED  BY <3>1, <3>2 DEF AInv, Supplied, Changed
    <2>5. CASE UNCHANGED vars
      <3>1. /\ todo' = todo /\ opts' = opts /\ mem' = mem /\ tmp' = tmp /\ runs' = runs
            /\ Obeying' = Obeying
        BY <2>5 DEF vars, Obeying
      <3>2. QED  BY <3>1 DEF AInv, Supplied, Given, Changed
    <2>6. QED  BY <2>1, <2>2, <2>3, <2>4, <2>5 DEF Next
  <1>3. QED  BY <1>1, <1>2 DEF AInv

\* The waiting configuration takes effect only when every server that runs has
\* been given it, but for those that stayed through a stop that reported success
\* and for a restart that names a component twice; whatever fails and wherever
\* obd is killed, for any components, options and number of edits.
THEOREM AppliedIsConfigured ==
    ASSUME OneServer, Careful
    PROVE  Spec => ApplyMeansConfigured
  <1>1. ASSUME AInv, Doing("apply"), tmp # None, NoneTwice(opts.comps)
        PROVE  \A i \in up \ stayed : runs[i] = tmp
    <2>1. todo # <<>> /\ todo \in Program /\ Head(todo).op = "apply"
      BY <1>1 DEF Doing, AInv, PInv, RInv, TInv, Formed
    <2>2. Head(todo) \in Step
      BY <2>1, ProgramTail, ProgramTyped
    <2>3. Head(todo) \in Spoilers
      BY <2>1, <2>2, SupplyKinds
    <2>4. ~Behind(todo, Spoilers, Suppliers)
      BY <2>1, <2>3, FirstNotBehind
    <2>5. QED  BY <1>1, <2>4 DEF AInv, Supplied, Given, Obeying
  <1>2. AInv => [Doing("apply") /\ tmp # None /\ NoneTwice(opts.comps)
                 => \A i \in up \ stayed : runs[i] = tmp]_vars
    BY <1>1
  <1>3. AInv /\ [Next]_vars => AInv'
    BY AInvNext
  <1>4. QED  BY <1>2, <1>3, AInvInit, PTL DEF Spec, ApplyMeansConfigured
=============================================================================
