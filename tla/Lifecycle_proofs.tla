--------------------------- MODULE Lifecycle_proofs ---------------------------
(***************************************************************************)
(* Theorems about the life of a deployment (module Lifecycle), for any     *)
(* components, servers and number of edits and mishaps: the types, and     *)
(* that no edit is lost.                                                   *)
(*                                                                         *)
(* A command is the sequence of its remaining steps.  Three relations      *)
(* between a sequence and kinds of steps (Has, Never, Behind) say what is  *)
(* still to come and in which order, and every step of a command leaves a  *)
(* rest of the sequence (Rest) on which they are kept.  TInv says with     *)
(* them which files the remaining steps can rely on; Remembered, for every *)
(* point of edit-config, deploy and the commands that apply a              *)
(* configuration, where the edit that was saved last is.                   *)
(***************************************************************************)
EXTENDS Lifecycle, FiniteSetTheorems, SequenceTheorems, TLAPS

-----------------------------------------------------------------------------
(* What is still to be done, told by the kinds of the remaining steps and    *)
(* by their order.                                                           *)

Has(s, A)       == \E i \in DOMAIN s : s[i] \in A
Never(s, A, B)  == \A i, j \in DOMAIN s : i < j /\ s[i] \in A => s[j] \notin B
Behind(s, A, B) == \A j \in DOMAIN s : s[j] \in A => \E i \in DOMAIN s : i < j /\ s[i] \in B

\* The empty sequence has nothing.
LEMMA OfNone ==
    ASSUME NEW A, NEW B
    PROVE  ~Has(<<>>, A) /\ Never(<<>>, A, B) /\ Behind(<<>>, A, B)
  BY DEF Has, Never, Behind

\* A single step.
LEMMA OfOne ==
    ASSUME NEW x, NEW A, NEW B
    PROVE  /\ Has(<<x>>, A) <=> x \in A
           /\ Never(<<x>>, A, B)
           /\ Behind(<<x>>, A, B) <=> ~Has(<<x>>, A)
  <1>1. DOMAIN <<x>> = {1} /\ <<x>>[1] = x
    OBVIOUS
  <1>2. QED  BY <1>1 DEF Has, Never, Behind

\* One sequence after another.
LEMMA OfConcat ==
    ASSUME NEW T, NEW s \in Seq(T), NEW t \in Seq(T), NEW A, NEW B
    PROVE  /\ Has(s \o t, A) <=> Has(s, A) \/ Has(t, A)
           /\ Never(s \o t, A, B) <=>
                Never(s, A, B) /\ Never(t, A, B) /\ (Has(s, A) => ~Has(t, B))
           /\ Behind(s, A, B) /\ (Has(s, B) \/ Behind(t, A, B)) => Behind(s \o t, A, B)
  <1> DEFINE m == Len(s)
             n == Len(t)
             u == s \o t
  <1>1. m \in Nat /\ n \in Nat /\ DOMAIN s = 1..m /\ DOMAIN t = 1..n
    BY LenProperties
  <1>2. /\ u \in Seq(T) /\ Len(u) = m + n
        /\ \A i \in 1..(m + n) : u[i] = IF i <= m THEN s[i] ELSE t[i - m]
    BY ConcatProperties
  <1>3. DOMAIN u = 1..(m + n)
    BY <1>2, LenProperties
  <1> HIDE DEF m, n, u
  <1>4. \A i \in DOMAIN s : i \in DOMAIN u /\ u[i] = s[i] /\ i <= m
    BY <1>1, <1>2, <1>3
  <1>5. \A i \in DOMAIN t : m + i \in DOMAIN u /\ u[m + i] = t[i]
    <2> TAKE i \in DOMAIN t
    <2>1. i \in 1..n /\ m + i \in 1..(m + n) /\ ~(m + i <= m) /\ (m + i) - m = i
      BY <1>1
    <2>2. QED  BY <2>1, <1>2, <1>3
  <1>6. \A i \in DOMAIN u :
          (i \in DOMAIN s /\ u[i] = s[i] /\ i <= m)
          \/ (i - m \in DOMAIN t /\ u[i] = t[i - m] /\ i > m /\ i = m + (i - m))
    <2> TAKE i \in DOMAIN u
    <2>1. CASE i <= m  BY <2>1, <1>1, <1>2, <1>3
    <2>2. CASE i > m
      <3>1. i - m \in 1..n /\ i = m + (i - m) /\ ~(i <= m)  BY <2>2, <1>1, <1>3
      <3>2. QED  BY <3>1, <2>2, <1>1, <1>2, <1>3
    <2>3. QED  BY <2>1, <2>2, <1>1, <1>3
  <1>7. Has(u, A) <=> Has(s, A) \/ Has(t, A)
    BY <1>4, <1>5, <1>6 DEF Has
  <1>8. ASSUME Never(u, A, B)
        PROVE  Never(s, A, B) /\ Never(t, A, B) /\ (Has(s, A) => ~Has(t, B))
    <2>1. Never(s, A, B)  BY <1>8, <1>4 DEF Never
    <2>2. Never(t, A, B)
      <3>1. \A i, j \in DOMAIN t : i < j => m + i < m + j  BY <1>1
      <3>2. QED  BY <3>1, <1>8, <1>5 DEF Never
    <2>3. ASSUME NEW i \in DOMAIN s, NEW j \in DOMAIN t, s[i] \in A, t[j] \in B
          PROVE  FALSE
      <3>1. i < m + j  BY <1>1
      <3>2. QED  BY <3>1, <2>3, <1>8, <1>4, <1>5 DEF Never
    <2>4. QED  BY <2>1, <2>2, <2>3 DEF Has
  <1>9. ASSUME Never(s, A, B), Never(t, A, B), Has(s, A) => ~Has(t, B)
        PROVE  Never(u, A, B)
    <2> SUFFICES ASSUME NEW i \in DOMAIN u, NEW j \in DOMAIN u, i < j, u[i] \in A, u[j] \in B
                 PROVE  FALSE
      BY DEF Never
    <2>1. CASE i <= m /\ j <= m
      <3>1. i \in DOMAIN s /\ j \in DOMAIN s /\ s[i] \in A /\ s[j] \in B
        BY <2>1, <1>6, <1>1, <1>3
      <3>2. QED  BY <3>1, <1>9 DEF Never
    <2>2. CASE i <= m /\ j > m
      <3>1. i \in DOMAIN s /\ s[i] \in A /\ j - m \in DOMAIN t /\ t[j - m] \in B
        BY <2>2, <1>6, <1>1, <1>3
      <3>2. QED  BY <3>1, <1>9 DEF Has
    <2>3. CASE i > m
      <3>1. j > m /\ i - m < j - m  BY <2>3, <1>1, <1>3
      <3>2. i - m \in DOMAIN t /\ t[i - m] \in A /\ j - m \in DOMAIN t /\ t[j - m] \in B
        BY <2>3, <3>1, <1>6, <1>1, <1>3
      <3>3. QED  BY <3>1, <3>2, <1>9 DEF Never
    <2>4. QED  BY <2>1, <2>2, <2>3, <1>1, <1>3
  <1>10. ASSUME Behind(s, A, B), Has(s, B) \/ Behind(t, A, B)
         PROVE  Behind(u, A, B)
    <2> SUFFICES ASSUME NEW j \in DOMAIN u, u[j] \in A
                 PROVE  \E i \in DOMAIN u : i < j /\ u[i] \in B
      BY DEF Behind
    <2>1. CASE j <= m
      <3>1. j \in DOMAIN s /\ s[j] \in A  BY <2>1, <1>6, <1>1, <1>3
      <3>2. PICK i \in DOMAIN s : i < j /\ s[i] \in B  BY <3>1, <1>10 DEF Behind
      <3>3. QED  BY <3>2, <1>4
    <2>2. CASE j > m /\ Has(s, B)
      <3>1. PICK i \in DOMAIN s : s[i] \in B  BY <2>2 DEF Has
      <3>2. i < j  BY <2>2, <1>1, <1>3
      <3>3. QED  BY <3>1, <3>2, <1>4
    <2>3. CASE j > m /\ Behind(t, A, B)
      <3>1. j - m \in DOMAIN t /\ t[j - m] \in A  BY <2>3, <1>6, <1>1, <1>3
      <3>2. PICK i \in DOMAIN t : i < j - m /\ t[i] \in B  BY <3>1, <2>3 DEF Behind
      <3>3. m + i < j  BY <3>2, <1>1, <1>3
      <3>4. QED  BY <3>2, <3>3, <1>5
    <2>4. QED  BY <2>1, <2>2, <2>3, <1>10, <1>1, <1>3
  <1>11. QED  BY <1>7, <1>8, <1>9, <1>10 DEF u

\* A sequence is its first step and the others.
LEMMA HeadAndTail ==
    ASSUME NEW T, NEW s \in Seq(T), s # <<>>
    PROVE  /\ Head(s) \in T /\ Tail(s) \in Seq(T)
           /\ s = <<Head(s)>> \o Tail(s)
           /\ <<Head(s)>> \in Seq(T)
  <1>1. Head(s) \in T /\ Tail(s) \in Seq(T)
    BY HeadTailProperties
  <1>2. <<Head(s)>> \in Seq(T)
    BY <1>1
  <1>3. s = <<Head(s)>> \o Tail(s)
    OBVIOUS
  <1>4. QED  BY <1>1, <1>2, <1>3

\* The rest of a sequence.
LEMMA OfTail ==
    ASSUME NEW T, NEW s \in Seq(T), s # <<>>, NEW A, NEW B
    PROVE  /\ Has(s, A) <=> Head(s) \in A \/ Has(Tail(s), A)
           /\ Never(s, A, B) <=>
                Never(Tail(s), A, B) /\ (Head(s) \in A => ~Has(Tail(s), B))
           /\ Behind(s, A, B) => Head(s) \notin A /\ (Head(s) \in B \/ Behind(Tail(s), A, B))
  <1> DEFINE h == <<Head(s)>>
             t == Tail(s)
  <1>1. h \in Seq(T) /\ t \in Seq(T) /\ s = h \o t
    BY HeadAndTail
  <1>2. /\ Has(h, A) <=> Head(s) \in A
        /\ Has(h, B) <=> Head(s) \in B
        /\ Never(h, A, B)
    BY OfOne
  <1> HIDE DEF h, t
  <1>3. /\ Has(s, A) <=> Has(h, A) \/ Has(t, A)
        /\ Never(s, A, B) <=> Never(h, A, B) /\ Never(t, A, B) /\ (Has(h, A) => ~Has(t, B))
    BY <1>1, OfConcat
  <1>4. ASSUME Behind(s, A, B)
        PROVE  Head(s) \notin A /\ (Head(s) \in B \/ Behind(t, A, B))
    <2>1. DOMAIN s = 1..Len(s) /\ Len(s) \in Nat /\ Len(s) # 0 /\ Head(s) = s[1]
      <3>1. DOMAIN s = 1..Len(s) /\ Len(s) \in Nat /\ Len(s) # 0  BY LenProperties, EmptySeq
      <3>2. Head(s) = s[1]  OBVIOUS
      <3>3. QED  BY <3>1, <3>2
    <2>2. Head(s) \notin A
      <3>1. 1 \in DOMAIN s /\ ~(\E i \in DOMAIN s : i < 1)  BY <2>1
      <3>2. QED  BY <3>1, <2>1, <1>4 DEF Behind
    <2>3. /\ DOMAIN t = 1..Len(t) /\ Len(t) = Len(s) - 1
          /\ \A i \in 1..Len(t) : t[i] = s[i + 1]
      BY HeadTailProperties, LenProperties, <1>1 DEF t
    <2>4. ASSUME Head(s) \notin B, NEW j \in DOMAIN t, t[j] \in A
          PROVE  \E i \in DOMAIN t : i < j /\ t[i] \in B
      <3>1. j + 1 \in DOMAIN s /\ s[j + 1] \in A  BY <2>1, <2>3, <2>4
      <3>2. PICK i \in DOMAIN s : i < j + 1 /\ s[i] \in B  BY <3>1, <1>4 DEF Behind
      <3>3. i # 1  BY <3>2, <2>1, <2>4
      <3>4. i - 1 \in DOMAIN t /\ i - 1 < j /\ (i - 1) + 1 = i  BY <3>2, <3>3, <2>1, <2>3
      <3>5. t[i - 1] \in B  BY <3>2, <3>4, <2>3
      <3>6. QED  BY <3>4, <3>5
    <2>5. QED  BY <2>2, <2>4 DEF Behind
  <1>5. QED  BY <1>2, <1>3, <1>4 DEF t

-----------------------------------------------------------------------------
(* Kinds of steps.                                                           *)

Of(ops) == {x \in Step : x.op \in ops}

Users     == Of({"start", "restart", "reload"})       \* work with a configuration
Spoilers  == Of({"apply", "reapply"})                 \* replace config.yaml, maybe by a bad one
Installs  == Of({"install"})                          \* succeed on a readable config.yaml only
Restarts  == Of({"restart"})
Reloads   == Of({"reload"})
Preparers == Of({"apply", "reapply", "copy", "create", "config_status"})
Waiters   == Restarts \cup Reloads                    \* may use tmp_config.yaml
Writers   == {x \in Step : x.op \in {"create", "copy", "save"} \/ x.orelse = "save"}

\* A step that writes a status has one; what a failure of servers ends; the next
\* step is left out only before a rewriting of config.yaml.
Good == {x \in Step : /\ x.op = "status" => x.arg \in Status
                      /\ x.op = "config_status" => x.arg \in ConfigStatus
                      /\ x.op \in {"install", "start", "restart", "check"} => x.orelse = "abort"
                      /\ x.op = "stop" => x.orelse \in {"abort"} \cup Status
                      /\ x.op = "info" => x.orelse = "ignore"
                      /\ x.op = "reload" => x.orelse = "dump"
                      /\ x.orelse = "save" => x.op = "config_status"
                      /\ x.orelse \in Status => x.op \in {"status", "stop"}}

Program ==
    {s \in Seq(Good) :
        \A i \in DOMAIN s : s[i].orelse = "skip" => i + 1 \in DOMAIN s /\ s[i + 1].op = "dump"}

\* The programs of these operations.
Runs(ops) == {s \in Program : \A i \in DOMAIN s : s[i].op \in ops}

LEMMA ProgramTyped == Program \subseteq Seq(Good) /\ Good \subseteq Step
  BY DEF Program, Good

\* A step of a program.
LEMMA OneStep ==
    ASSUME NEW op, NEW arg, NEW orelse, NEW ops,
           [op |-> op, arg |-> arg, orelse |-> orelse] \in Good,
           orelse # "skip", op \in ops
    PROVE  /\ S(op, arg, orelse) \in Runs(ops)
           /\ S(op, arg, orelse) # <<>>
  <1> DEFINE x == [op |-> op, arg |-> arg, orelse |-> orelse]
             s == <<x>>
  <1>1. x.op = op /\ x.orelse = orelse
    OBVIOUS
  <1> HIDE DEF x
  <1>2. s \in Seq(Good) /\ DOMAIN s = {1} /\ s[1] = x /\ s # <<>>
    BY DEF x
  <1> HIDE DEF s
  <1>3. s \in Runs(ops)
    BY <1>1, <1>2 DEF Runs, Program
  <1>4. S(op, arg, orelse) = s
    BY DEF S, s, x
  <1>5. QED  BY <1>2, <1>3, <1>4

LEMMA NoStep ==
    ASSUME NEW ops
    PROVE  <<>> \in Runs(ops)
  <1>1. <<>> \in Seq(Good) /\ DOMAIN <<>> = {}
    OBVIOUS
  <1>2. QED  BY <1>1 DEF Runs, Program

LEMMA RunsConcat ==
    ASSUME NEW ops, NEW s \in Runs(ops), NEW t \in Runs(ops)
    PROVE  s \o t \in Runs(ops)
  <1> DEFINE m == Len(s)
             n == Len(t)
             u == s \o t
  <1>1. s \in Seq(Good) /\ t \in Seq(Good)
    BY DEF Runs, Program
  <1>2. m \in Nat /\ n \in Nat /\ DOMAIN s = 1..m /\ DOMAIN t = 1..n
    BY <1>1, LenProperties
  <1>3. /\ u \in Seq(Good) /\ Len(u) = m + n
        /\ \A i \in 1..(m + n) : u[i] = IF i <= m THEN s[i] ELSE t[i - m]
    BY <1>1, ConcatProperties
  <1>4. DOMAIN u = 1..(m + n)
    BY <1>3, LenProperties
  <1>5. /\ \A i \in DOMAIN s : s[i].op \in ops
        /\ \A i \in DOMAIN t : t[i].op \in ops
        /\ \A i \in DOMAIN s : s[i].orelse = "skip" => i + 1 \in DOMAIN s /\ s[i + 1].op = "dump"
        /\ \A i \in DOMAIN t : t[i].orelse = "skip" => i + 1 \in DOMAIN t /\ t[i + 1].op = "dump"
    BY DEF Runs, Program
  <1> HIDE DEF m, n, u
  <1>6. ASSUME NEW i \in DOMAIN u
        PROVE  /\ u[i].op \in ops
               /\ u[i].orelse = "skip" => i + 1 \in DOMAIN u /\ u[i + 1].op = "dump"
    <2>1. CASE i <= m
      <3>1. i \in DOMAIN s /\ u[i] = s[i]  BY <2>1, <1>2, <1>3, <1>4
      <3>2. ASSUME i + 1 \in DOMAIN s  PROVE i + 1 \in DOMAIN u /\ u[i + 1] = s[i + 1]
        BY <3>2, <1>2, <1>3, <1>4
      <3>3. QED  BY <3>1, <3>2, <1>5
    <2>2. CASE i > m
      <3>1. i - m \in DOMAIN t /\ u[i] = t[i - m]
        <4>1. i - m \in 1..n /\ ~(i <= m)  BY <2>2, <1>2, <1>4
        <4>2. QED  BY <4>1, <1>2, <1>3, <1>4
      <3>2. ASSUME (i - m) + 1 \in DOMAIN t
            PROVE  i + 1 \in DOMAIN u /\ u[i + 1] = t[(i - m) + 1]
        <4>1. i + 1 \in 1..(m + n) /\ ~(i + 1 <= m) /\ (i + 1) - m = (i - m) + 1
          BY <3>2, <2>2, <1>2, <1>4
        <4>2. QED  BY <4>1, <1>3, <1>4
      <3>3. QED  BY <3>1, <3>2, <1>5
    <2>3. QED  BY <2>1, <2>2, <1>2, <1>4
  <1>7. QED  BY <1>3, <1>6 DEF Runs, Program, u

LEMMA RunsMore ==
    ASSUME NEW ops, NEW more, ops \subseteq more
    PROVE  Runs(ops) \subseteq Runs(more) /\ Runs(ops) \subseteq Program
  BY DEF Runs

LEMMA ProgramRuns == Program = Runs(Ops)
  <1>1. ASSUME NEW s \in Program, NEW i \in DOMAIN s
        PROVE  s[i].op \in Ops
    <2>1. s[i] \in Good
      BY <1>1, LenProperties, ElementOfSeq DEF Program
    <2>2. QED  BY <2>1 DEF Good, Step
  <1>2. QED  BY <1>1 DEF Runs

\* What a program of these operations does not have.
LEMMA RunsNone ==
    ASSUME NEW ops, NEW s \in Runs(ops), NEW A, \A x \in A : x.op \notin ops
    PROVE  ~Has(s, A)
  BY DEF Runs, Has

LEMMA NothingToKeep ==
    ASSUME NEW s, NEW A, NEW B, ~Has(s, A)
    PROVE  Never(s, A, B) /\ Never(s, B, A) /\ Behind(s, A, B)
  BY DEF Has, Never, Behind

LEMMA ProgramTail ==
    ASSUME NEW s \in Program, s # <<>>
    PROVE  /\ Head(s) \in Good /\ Tail(s) \in Program
           /\ Head(s).orelse = "skip" => Tail(s) # <<>> /\ Head(Tail(s)).op = "dump"
  <1> DEFINE t == Tail(s)
  <1>1. s \in Seq(Good) /\ Head(s) \in Good /\ t \in Seq(Good)
    BY HeadTailProperties DEF Program
  <1>2. DOMAIN s = 1..Len(s) /\ Len(s) \in Nat /\ Len(s) # 0
    BY <1>1, LenProperties, EmptySeq
  <1>3. /\ DOMAIN t = 1..Len(t) /\ Len(t) = Len(s) - 1
        /\ \A i \in 1..Len(t) : t[i] = s[i + 1]
    BY <1>1, HeadTailProperties, LenProperties
  <1>4. Head(s) = s[1]
    BY <1>1
  <1>5. t # <<>> => Head(t) = t[1]
    BY <1>1
  <1>6. Len(t) # 0 => t # <<>>
    BY <1>1, EmptySeq
  <1> HIDE DEF t
  <1>7. \A i \in DOMAIN s : s[i].orelse = "skip" => i + 1 \in DOMAIN s /\ s[i + 1].op = "dump"
    BY DEF Program
  <1>8. ASSUME NEW i \in DOMAIN t, t[i].orelse = "skip"
        PROVE  i + 1 \in DOMAIN t /\ t[i + 1].op = "dump"
    <2>1. i + 1 \in DOMAIN s /\ s[i + 1].orelse = "skip"
      BY <1>8, <1>2, <1>3
    <2>2. (i + 1) + 1 \in DOMAIN s /\ s[(i + 1) + 1].op = "dump"
      BY <2>1, <1>7
    <2>3. QED  BY <2>2, <1>8, <1>2, <1>3
  <1>9. t \in Program
    BY <1>1, <1>8 DEF Program
  <1>10. ASSUME Head(s).orelse = "skip"
         PROVE  t # <<>> /\ Head(t).op = "dump"
    <2>1. 1 \in DOMAIN s
      BY <1>2
    <2>2. 1 + 1 \in DOMAIN s /\ s[1 + 1].op = "dump"
      BY <2>1, <1>10, <1>4, <1>7
    <2>3. 1 \in 1..Len(t) /\ Len(t) # 0
      BY <2>2, <1>2, <1>3
    <2>4. QED  BY <2>2, <2>3, <1>3, <1>5, <1>6
  <1>11. QED  BY <1>1, <1>9, <1>10 DEF t

-----------------------------------------------------------------------------
(* The programs of the commands.                                             *)

\* The steps that occur in them.
LEMMA KnownSteps ==
    ASSUME NEW ops
    PROVE
       /\ "start" \in ops => S("start", "", "abort") \in Runs(ops)
       /\ "stop" \in ops => S("stop", "", "abort") \in Runs(ops)
       /\ "restart" \in ops => S("restart", "", "abort") \in Runs(ops)
       /\ "reload" \in ops => S("reload", "", "dump") \in Runs(ops)
       /\ "apply" \in ops => S("apply", "", "abort") \in Runs(ops)
       /\ "apply" \in ops => S("apply", "", "ignore") \in Runs(ops)
       /\ "reapply" \in ops => S("reapply", "", "abort") \in Runs(ops)
       /\ "install" \in ops => S("install", "", "abort") \in Runs(ops)
       /\ "check" \in ops => S("check", "", "abort") \in Runs(ops)
       /\ "wipe" \in ops => S("wipe", "", "ignore") \in Runs(ops)
       /\ "info" \in ops => S("info", "", "ignore") \in Runs(ops)
       /\ "dump" \in ops => S("dump", "", "abort") \in Runs(ops)
       /\ "dump" \in ops => S("dump", "", "ignore") \in Runs(ops)
       /\ "save" \in ops => S("save", "", "abort") \in Runs(ops)
       /\ "create" \in ops => S("create", "", "abort") \in Runs(ops)
       /\ "copy" \in ops => S("copy", "", "ignore") \in Runs(ops)
       /\ "config_status" \in ops => S("config_status", "UNCHNAGE", "ignore") \in Runs(ops)
       /\ "config_status" \in ops =>
             \A k \in ConfigStatus : S("config_status", k, "save") \in Runs(ops)
       /\ "status" \in ops =>
             \A v \in Status, e \in {"abort", "ignore"} \cup Status : S("status", v, e) \in Runs(ops)
       /\ "stop" \in ops => \A e \in Status : S("stop", "", e) \in Runs(ops)
       /\ {"status", "dump"} \subseteq ops =>
             S("status", "RUNNING", "skip") \o S("dump", "", "ignore") \in Runs(ops)
  <1> USE DEF Good, Step, Ops, Status, ConfigStatus
  <1>1. "start" \in ops => S("start", "", "abort") \in Runs(ops)
    <2>1. [op |-> "start", arg |-> "", orelse |-> "abort"] \in Good  OBVIOUS
    <2> HIDE DEF Good, Step, Ops, Status, ConfigStatus
    <2>2. QED  BY <2>1, OneStep
  <1>2. "stop" \in ops => S("stop", "", "abort") \in Runs(ops)
    <2>1. [op |-> "stop", arg |-> "", orelse |-> "abort"] \in Good  OBVIOUS
    <2> HIDE DEF Good, Step, Ops, Status, ConfigStatus
    <2>2. QED  BY <2>1, OneStep
  <1>3. "restart" \in ops => S("restart", "", "abort") \in Runs(ops)
    <2>1. [op |-> "restart", arg |-> "", orelse |-> "abort"] \in Good  OBVIOUS
    <2> HIDE DEF Good, Step, Ops, Status, ConfigStatus
    <2>2. QED  BY <2>1, OneStep
  <1>4. "reload" \in ops => S("reload", "", "dump") \in Runs(ops)
    <2>1. [op |-> "reload", arg |-> "", orelse |-> "dump"] \in Good  OBVIOUS
    <2> HIDE DEF Good, Step, Ops, Status, ConfigStatus
    <2>2. QED  BY <2>1, OneStep
  <1>5. "apply" \in ops => S("apply", "", "abort") \in Runs(ops)
    <2>1. [op |-> "apply", arg |-> "", orelse |-> "abort"] \in Good  OBVIOUS
    <2> HIDE DEF Good, Step, Ops, Status, ConfigStatus
    <2>2. QED  BY <2>1, OneStep
  <1>6. "apply" \in ops => S("apply", "", "ignore") \in Runs(ops)
    <2>1. [op |-> "apply", arg |-> "", orelse |-> "ignore"] \in Good  OBVIOUS
    <2> HIDE DEF Good, Step, Ops, Status, ConfigStatus
    <2>2. QED  BY <2>1, OneStep
  <1>7. "reapply" \in ops => S("reapply", "", "abort") \in Runs(ops)
    <2>1. [op |-> "reapply", arg |-> "", orelse |-> "abort"] \in Good  OBVIOUS
    <2> HIDE DEF Good, Step, Ops, Status, ConfigStatus
    <2>2. QED  BY <2>1, OneStep
  <1>8. "install" \in ops => S("install", "", "abort") \in Runs(ops)
    <2>1. [op |-> "install", arg |-> "", orelse |-> "abort"] \in Good  OBVIOUS
    <2> HIDE DEF Good, Step, Ops, Status, ConfigStatus
    <2>2. QED  BY <2>1, OneStep
  <1>9. "check" \in ops => S("check", "", "abort") \in Runs(ops)
    <2>1. [op |-> "check", arg |-> "", orelse |-> "abort"] \in Good  OBVIOUS
    <2> HIDE DEF Good, Step, Ops, Status, ConfigStatus
    <2>2. QED  BY <2>1, OneStep
  <1>10. "wipe" \in ops => S("wipe", "", "ignore") \in Runs(ops)
    <2>1. [op |-> "wipe", arg |-> "", orelse |-> "ignore"] \in Good  OBVIOUS
    <2> HIDE DEF Good, Step, Ops, Status, ConfigStatus
    <2>2. QED  BY <2>1, OneStep
  <1>11. "info" \in ops => S("info", "", "ignore") \in Runs(ops)
    <2>1. [op |-> "info", arg |-> "", orelse |-> "ignore"] \in Good  OBVIOUS
    <2> HIDE DEF Good, Step, Ops, Status, ConfigStatus
    <2>2. QED  BY <2>1, OneStep
  <1>12. "dump" \in ops => S("dump", "", "abort") \in Runs(ops)
    <2>1. [op |-> "dump", arg |-> "", orelse |-> "abort"] \in Good  OBVIOUS
    <2> HIDE DEF Good, Step, Ops, Status, ConfigStatus
    <2>2. QED  BY <2>1, OneStep
  <1>13. "dump" \in ops => S("dump", "", "ignore") \in Runs(ops)
    <2>1. [op |-> "dump", arg |-> "", orelse |-> "ignore"] \in Good  OBVIOUS
    <2> HIDE DEF Good, Step, Ops, Status, ConfigStatus
    <2>2. QED  BY <2>1, OneStep
  <1>14. "save" \in ops => S("save", "", "abort") \in Runs(ops)
    <2>1. [op |-> "save", arg |-> "", orelse |-> "abort"] \in Good  OBVIOUS
    <2> HIDE DEF Good, Step, Ops, Status, ConfigStatus
    <2>2. QED  BY <2>1, OneStep
  <1>15. "create" \in ops => S("create", "", "abort") \in Runs(ops)
    <2>1. [op |-> "create", arg |-> "", orelse |-> "abort"] \in Good  OBVIOUS
    <2> HIDE DEF Good, Step, Ops, Status, ConfigStatus
    <2>2. QED  BY <2>1, OneStep
  <1>16. "copy" \in ops => S("copy", "", "ignore") \in Runs(ops)
    <2>1. [op |-> "copy", arg |-> "", orelse |-> "ignore"] \in Good  OBVIOUS
    <2> HIDE DEF Good, Step, Ops, Status, ConfigStatus
    <2>2. QED  BY <2>1, OneStep
  <1>17. "config_status" \in ops => S("config_status", "UNCHNAGE", "ignore") \in Runs(ops)
    <2>1. [op |-> "config_status", arg |-> "UNCHNAGE", orelse |-> "ignore"] \in Good  OBVIOUS
    <2> HIDE DEF Good, Step, Ops, Status, ConfigStatus
    <2>2. QED  BY <2>1, OneStep
  <1>18. ASSUME "config_status" \in ops, NEW k \in ConfigStatus
        PROVE  S("config_status", k, "save") \in Runs(ops)
    <2>1. [op |-> "config_status", arg |-> k, orelse |-> "save"] \in Good  OBVIOUS
    <2> HIDE DEF Good, Step, Ops, Status, ConfigStatus
    <2>2. QED  BY <1>18, <2>1, OneStep
  <1>19. ASSUME "status" \in ops, NEW v \in Status, NEW e \in {"abort", "ignore"} \cup Status
        PROVE  S("status", v, e) \in Runs(ops)
    <2>1. [op |-> "status", arg |-> v, orelse |-> e] \in Good  OBVIOUS
    <2>2. e # "skip"  OBVIOUS
    <2> HIDE DEF Good, Step, Ops, Status, ConfigStatus
    <2>3. QED  BY <1>19, <2>1, <2>2, OneStep
  <1>20. ASSUME "stop" \in ops, NEW e \in Status
        PROVE  S("stop", "", e) \in Runs(ops)
    <2>1. [op |-> "stop", arg |-> "", orelse |-> e] \in Good  OBVIOUS
    <2>2. e # "skip"  OBVIOUS
    <2> HIDE DEF Good, Step, Ops, Status, ConfigStatus
    <2>3. QED  BY <1>20, <2>1, <2>2, OneStep
  <1>21. ASSUME {"status", "dump"} \subseteq ops
        PROVE  S("status", "RUNNING", "skip") \o S("dump", "", "ignore") \in Runs(ops)
    <2> DEFINE x == [op |-> "status", arg |-> "RUNNING", orelse |-> "skip"]
               y == [op |-> "dump", arg |-> "", orelse |-> "ignore"]
               s == <<x>> \o <<y>>
    <2>1. x \in Good /\ y \in Good  OBVIOUS
    <2>2. x.op = "status" /\ y.op = "dump" /\ y.orelse = "ignore"  OBVIOUS
    <2>3. S("status", "RUNNING", "skip") = <<x>> /\ S("dump", "", "ignore") = <<y>>  BY DEF S
    <2> HIDE DEF Good, Step, Ops, Status, ConfigStatus, x, y
    <2>4. /\ <<x>> \in Seq(Good) /\ <<y>> \in Seq(Good) /\ Len(<<x>>) = 1 /\ Len(<<y>>) = 1
          /\ <<x>>[1] = x /\ <<y>>[1] = y
      BY <2>1
    <2>5. s \in Seq(Good) /\ DOMAIN s = 1..2 /\ s[1] = x /\ s[2] = y
      <3>1. /\ s \in Seq(Good) /\ Len(s) = 1 + 1
            /\ \A i \in 1..(1 + 1) : s[i] = IF i <= 1 THEN <<x>>[i] ELSE <<y>>[i - 1]
        BY <2>4, ConcatProperties
      <3>2. DOMAIN s = 1..2  BY <3>1, LenProperties
      <3>3. QED  BY <3>1, <3>2, <2>4
    <2> HIDE DEF s
    <2>6. s \in Runs(ops)
      <3>1. ASSUME NEW i \in DOMAIN s
            PROVE  /\ s[i].op \in ops
                   /\ s[i].orelse = "skip" => i + 1 \in DOMAIN s /\ s[i + 1].op = "dump"
        <4>1. CASE i = 1
          <5>1. s[i].op = "status" /\ i + 1 = 2  BY <4>1, <2>2, <2>5
          <5>2. QED  BY <5>1, <1>21, <2>2, <2>5
        <4>2. CASE i = 2
          <5>1. s[i].op = "dump" /\ s[i].orelse = "ignore"  BY <4>2, <2>2, <2>5
          <5>2. QED  BY <5>1, <1>21
        <4>3. QED  BY <4>1, <4>2, <2>5
      <3>2. QED  BY <3>1, <2>5 DEF Runs, Program
    <2>7. QED  BY <2>3, <2>6 DEF s
  <1> HIDE DEF Good, Step, Ops, Status, ConfigStatus
  <1>22. QED
    BY <1>1, <1>2, <1>3, <1>4, <1>5, <1>6, <1>7, <1>8, <1>9, <1>10, <1>11, <1>12, <1>13, <1>14, <1>15, <1>16, <1>17, <1>18, <1>19, <1>20, <1>21

LEMMA WhenRuns ==
    ASSUME NEW ops, NEW c, NEW s \in Runs(ops)
    PROVE  When(c, s) \in Runs(ops)
  BY NoStep DEF When

LEMMA StartProgram ==
    ASSUME NEW comps
    PROVE  StartSteps(comps) \in Runs({"start", "status", "dump"})
  BY KnownSteps, WhenRuns, RunsConcat DEF StartSteps

LEMMA StopProgram ==
    ASSUME NEW comps, NEW servers, NEW e \in {"abort"} \cup Status
    PROVE  StopSteps(comps, servers, e) \in Runs({"stop", "status"})
  <1> DEFINE ops == {"stop", "status"}
  <1>1. S("stop", "", e) \in Runs(ops)
    BY KnownSteps
  <1>2. S("status", "STOPPED", e) \in Runs(ops)
    <2>1. "STOPPED" \in Status  BY DEF Status
    <2>2. QED  BY <2>1, KnownSteps
  <1> HIDE DEF ops
  <1>3. StopSteps(comps, servers, e) \in Runs(ops)
    BY <1>1, <1>2, WhenRuns, RunsConcat DEF StopSteps
  <1>4. QED  BY <1>3 DEF ops

LEMMA RestartProgram ==
    ASSUME NEW comps, NEW servers, NEW apply
    PROVE  RestartSteps(comps, servers, apply) \in Runs({"restart", "apply", "status"})
  <1>1. S("status", "RUNNING", "abort") \in Runs({"restart", "apply", "status"})
    <2>1. "RUNNING" \in Status  BY DEF Status
    <2>2. QED  BY <2>1, KnownSteps
  <1>2. QED  BY <1>1, KnownSteps, WhenRuns, RunsConcat DEF RestartSteps

LEMMA DestroyProgram ==
    ASSUME NEW changed
    PROVE  DestroySteps(changed) \in Runs({"check", "wipe", "status", "info", "apply"})
  <1> DEFINE ops == {"check", "wipe", "status", "info", "apply"}
  <1>1. S("status", "DESTROYED", "abort") \in Runs(ops)
    <2>1. "DESTROYED" \in Status  BY DEF Status
    <2>2. QED  BY <2>1, KnownSteps
  <1>2. /\ S("check", "", "abort") \in Runs(ops) /\ S("wipe", "", "ignore") \in Runs(ops)
        /\ S("info", "", "ignore") \in Runs(ops) /\ S("apply", "", "ignore") \in Runs(ops)
    BY KnownSteps
  <1> HIDE DEF ops
  <1>3. DestroySteps(changed) \in Runs(ops)
    BY <1>1, <1>2, WhenRuns, RunsConcat DEF DestroySteps
  <1>4. QED  BY <1>3 DEF ops

LEMMA DeployProgram == DeploySteps \in Runs({"install", "status", "dump"})
  <1>1. S("status", "DEPLOYED", "abort") \in Runs({"install", "status", "dump"})
    <2>1. "DEPLOYED" \in Status  BY DEF Status
    <2>2. QED  BY <2>1, KnownSteps
  <1>2. QED  BY <1>1, KnownSteps, RunsConcat DEF DeploySteps

LEMMA ForcedStopProgram == ForcedStop \in Runs({"stop", "status"})
  BY StopProgram, WhenRuns DEF ForcedStop

LEMMA NewConfigProgram ==
    ASSUME NEW k \in ConfigStatus
    PROVE  NewConfig(k) \in Runs({"create", "config_status", "dump", "save", "copy"})
  <1> DEFINE ops == {"create", "config_status", "dump", "save", "copy"}
  <1>1. /\ S("create", "", "abort") \in Runs(ops) /\ S("dump", "", "ignore") \in Runs(ops)
        /\ S("save", "", "abort") \in Runs(ops) /\ S("copy", "", "ignore") \in Runs(ops)
        /\ S("config_status", k, "save") \in Runs(ops)
        /\ S("config_status", "UNCHNAGE", "ignore") \in Runs(ops)
    BY KnownSteps
  <1> HIDE DEF ops
  <1>2. NewConfig(k) \in Runs(ops)
    BY <1>1, RunsConcat DEF NewConfig
  <1>3. QED  BY <1>2 DEF ops

-----------------------------------------------------------------------------
(* The files a running command relies on.                                    *)

Formed ==
    /\ todo \in Program
    /\ todo # <<>> => opts # Idle
    /\ opts # Idle => opts.version # Garbled
    /\ Has(todo, Writers) => opts.version \in Versions

\* No server is given a configuration that cannot be read.
Configured ==
    /\ Never(todo, Installs, Spoilers)
    /\ \/ Readable /\ Never(todo, Spoilers, Users)
       \/ Behind(todo, Users, Installs)

\* The configuration that waits is there for who wants to give it to servers.
Waiting ==
    /\ Never(todo, Preparers, Waiters)
    /\ Has(todo, Reloads) => tmp \in Versions
    /\ Has(todo, Restarts) /\ opts.wp /\ Changed(mem) => tmp \in Versions

TInv == TypeOK /\ Formed /\ Configured /\ Waiting

-----------------------------------------------------------------------------
(* What a step leaves to be done.                                            *)

\* The steps that a failure may bring in do not matter to A.
Working(A) ==
    \A x \in A : /\ x.op \notin {"dump", "save"}
                 /\ x.op = "status" => x.orelse # "ignore"

Rest(t) ==
    \/ t = <<>>
    \/ t = Tail(todo)
    \/ Head(todo).orelse = "skip" /\ t = Tail(Tail(todo))
    \/ \E x \in Good :
        /\ t = <<x>>
        /\ x.op \in {"dump", "save", "status"} /\ x.orelse \in {"abort", "ignore"}
        /\ x.op = "save" => Head(todo).orelse = "save"
        /\ x.op = "status" => x.orelse = "ignore" /\ x.arg = Head(todo).orelse

LEMMA FailLeavesRest ==
    ASSUME todo \in Program, todo # <<>>, Fail
    PROVE  /\ Rest(todo')
           /\ Head(todo).orelse = "abort" => todo' = <<>>
           /\ Head(todo).orelse = "ignore" => todo' = Tail(todo)
  <1> DEFINE e == Head(todo).orelse
  <1>1. Head(todo) \in Good
    BY ProgramTail
  <1>2. e \in {"abort", "ignore", "skip", "dump", "save"} \cup Status
    BY <1>1 DEF Good, Step
  <1>3. todo' = CASE e = "abort"            -> <<>>
                  [] e = "ignore"           -> Tail(todo)
                  [] e = "skip"             -> Tail(Tail(todo))
                  [] e \in {"dump", "save"} -> S(e, "", "abort")
                  [] e \in Status           -> S("status", e, "ignore")
    BY DEF Fail
  <1> HIDE DEF e
  <1>4. CASE e = "abort"
    <2>1. todo' = <<>>  BY <1>3, <1>4 DEF Status
    <2>2. QED  BY <2>1, <1>4 DEF Rest, e
  <1>5. CASE e = "ignore"
    <2>1. todo' = Tail(todo)  BY <1>3, <1>5 DEF Status
    <2>2. QED  BY <2>1, <1>5 DEF Rest, e
  <1>6. CASE e = "skip"
    <2>1. todo' = Tail(Tail(todo))  BY <1>3, <1>6 DEF Status
    <2>2. QED  BY <2>1, <1>6 DEF Rest, e
  <1>7. CASE e \in {"dump", "save"}
    <2> DEFINE x == [op |-> e, arg |-> "", orelse |-> "abort"]
    <2>1. todo' = S(e, "", "abort")  BY <1>3, <1>7 DEF Status
    <2>2. x \in Good  BY <1>7 DEF Good, Step, Ops, Status
    <2>3. todo' = <<x>>  BY <2>1 DEF S
    <2>4. x.op = e /\ x.orelse = "abort"  OBVIOUS
    <2> HIDE DEF x
    <2>5. /\ x.op \in {"dump", "save", "status"} /\ x.orelse \in {"abort", "ignore"}
          /\ x.op = "save" => e = "save"
          /\ x.op # "status"
      BY <2>4, <1>7
    <2>6. Rest(todo')  BY <2>2, <2>3, <2>5 DEF Rest, e
    <2>7. QED  BY <2>6, <1>7 DEF e
  <1>8. CASE e \in Status
    <2> DEFINE x == [op |-> "status", arg |-> e, orelse |-> "ignore"]
    <2>1. todo' = S("status", e, "ignore")  BY <1>3, <1>8 DEF Status
    <2>2. x \in Good  BY <1>8 DEF Good, Step, Ops
    <2>3. todo' = <<x>>  BY <2>1 DEF S
    <2>4. x.op = "status" /\ x.orelse = "ignore" /\ x.arg = e  OBVIOUS
    <2> HIDE DEF x
    <2>5. Rest(todo')  BY <2>2, <2>3, <2>4 DEF Rest, e
    <2>6. e # "abort" /\ e # "ignore"  BY <1>8 DEF Status
    <2>7. QED  BY <2>5, <2>6 DEF e
  <1>9. QED  BY <1>2, <1>4, <1>5, <1>6, <1>7, <1>8

LEMMA RestKeeps ==
    ASSUME todo \in Program, todo # <<>>, NEW t, Rest(t), NEW A, NEW B
    PROVE  /\ t \in Program
           /\ Never(todo, A, B) => Never(t, A, B)
           /\ Working(A) /\ Has(t, A) => Has(todo, A)
           /\ Has(t, Writers) => Has(todo, Writers)
           /\ (/\ Behind(todo, A, B) /\ Working(A)
               /\ Head(todo) \notin B /\ \A x \in B : x.op # "dump")
              => Behind(t, A, B)
  <1>1. /\ Head(todo) \in Good /\ Tail(todo) \in Program
        /\ Head(todo).orelse = "skip" => Tail(todo) # <<>> /\ Head(Tail(todo)).op = "dump"
    BY ProgramTail
  <1>2. /\ Has(todo, A) <=> Head(todo) \in A \/ Has(Tail(todo), A)
        /\ Has(todo, Writers) <=> Head(todo) \in Writers \/ Has(Tail(todo), Writers)
        /\ Never(todo, A, B) => Never(Tail(todo), A, B)
        /\ Behind(todo, A, B) => Head(todo) \in B \/ Behind(Tail(todo), A, B)
    BY ProgramTyped, OfTail
  <1>3. CASE t = <<>>
    BY <1>3, OfNone, NoStep, ProgramRuns
  <1>4. CASE t = Tail(todo)
    BY <1>4, <1>1, <1>2
  <1>5. CASE Head(todo).orelse = "skip" /\ t = Tail(Tail(todo))
    <2> DEFINE r == Tail(todo)
    <2>1. r \in Program /\ r # <<>> /\ Head(r).op = "dump"  BY <1>5, <1>1
    <2> HIDE DEF r
    <2>2. t = Tail(r)  BY <1>5 DEF r
    <2>3. t \in Program  BY <2>1, <2>2, ProgramTail
    <2>4. /\ Has(r, A) <=> Head(r) \in A \/ Has(t, A)
          /\ Has(r, Writers) <=> Head(r) \in Writers \/ Has(t, Writers)
          /\ Never(r, A, B) => Never(t, A, B)
          /\ Behind(r, A, B) => Head(r) \in B \/ Behind(t, A, B)
      BY <2>1, <2>2, ProgramTyped, OfTail
    <2>5. QED  BY <2>1, <2>3, <2>4, <1>2 DEF r
  <1>6. CASE \E x \in Good :
                /\ t = <<x>>
                /\ x.op \in {"dump", "save", "status"} /\ x.orelse \in {"abort", "ignore"}
                /\ x.op = "save" => Head(todo).orelse = "save"
                /\ x.op = "status" => x.orelse = "ignore"
    <2>1. PICK x \in Good :
                /\ t = <<x>>
                /\ x.op \in {"dump", "save", "status"} /\ x.orelse \in {"abort", "ignore"}
                /\ x.op = "save" => Head(todo).orelse = "save"
                /\ x.op = "status" => x.orelse = "ignore"
      BY <1>6
    <2>2. /\ Has(t, A) <=> x \in A
          /\ Has(t, Writers) <=> x \in Writers
          /\ Never(t, A, B)
          /\ Behind(t, A, B) <=> ~Has(t, A)
      BY <2>1, OfOne
    <2>3. t \in Program
      <3>1. t \in Seq(Good) /\ DOMAIN t = {1} /\ t[1] = x  BY <2>1
      <3>2. QED  BY <3>1, <2>1 DEF Program
    <2>4. Working(A) => x \notin A
      BY <2>1 DEF Working
    <2>5. x \in Writers => Head(todo) \in Writers
      BY <2>1, <1>1 DEF Writers, Good
    <2>6. QED  BY <2>2, <2>3, <2>4, <2>5, <1>2
  <1>7. QED  BY <1>3, <1>4, <1>5, <1>6 DEF Rest

\* The kinds that the invariant names.
LEMMA KindsWork ==
    /\ Working(Users) /\ Working(Spoilers) /\ Working(Installs)
    /\ Working(Restarts) /\ Working(Reloads) /\ Working(Preparers) /\ Working(Waiters)
    /\ \A x \in Installs : x.op # "dump"
  BY DEF Working, Users, Spoilers, Installs, Restarts, Reloads, Preparers, Waiters, Of

\* A step that leaves a rest of the program.
LEMMA StepKeeps ==
    ASSUME Formed, Configured, Waiting, todo # <<>>, Rest(todo'), opts' = opts,
           \/ todo' = <<>>
           \/ Readable => Readable',
           Head(todo) \in Installs => todo' = <<>> \/ (todo' = Tail(todo) /\ Readable'),
           \/ tmp' = tmp /\ (Changed(mem') => Changed(mem))
           \/ Head(todo) \in Preparers /\ todo' \in {<<>>, Tail(todo)}
    PROVE  (Formed /\ Configured /\ Waiting)'
  <1>1. todo \in Program
    BY DEF Formed
  <1>2. Formed'
    <2>1. todo' \in Program /\ (Has(todo', Writers) => Has(todo, Writers))
      BY <1>1, RestKeeps
    <2>2. QED  BY <2>1 DEF Formed
  <1>3. Configured'
    <2>1. CASE todo' = <<>>
      BY <2>1, OfNone DEF Configured
    <2>2. CASE todo' # <<>>
      <3>1. Never(todo', Installs, Spoilers)
        BY <1>1, RestKeeps DEF Configured
      <3>2. CASE Readable /\ Never(todo, Spoilers, Users)
        BY <3>1, <3>2, <2>2, <1>1, RestKeeps DEF Configured
      <3>3. CASE Behind(todo, Users, Installs) /\ Head(todo) \notin Installs
        <4>1. Behind(todo', Users, Installs)
          BY <3>3, <1>1, RestKeeps, KindsWork
        <4>2. QED  BY <3>1, <4>1 DEF Configured
      <3>4. CASE Head(todo) \in Installs
        <4>1. Readable'  BY <3>4, <2>2
        <4>2. ~Has(Tail(todo), Spoilers)
          BY <3>4, <1>1, ProgramTyped, OfTail DEF Configured
        <4>3. todo' = Tail(todo)  BY <3>4, <2>2
        <4>4. QED  BY <3>1, <4>1, <4>2, <4>3, NothingToKeep DEF Configured
      <3>5. QED  BY <3>2, <3>3, <3>4 DEF Configured
    <2>3. QED  BY <2>1, <2>2
  <1>4. Waiting'
    <2>1. Never(todo', Preparers, Waiters)
      BY <1>1, RestKeeps DEF Waiting
    <2>2. /\ Has(todo', Reloads) => Has(todo, Reloads)
          /\ Has(todo', Restarts) => Has(todo, Restarts)
      BY <1>1, RestKeeps, KindsWork
    <2>3. CASE tmp' = tmp /\ (Changed(mem') => Changed(mem))
      BY <2>1, <2>2, <2>3 DEF Waiting
    <2>4. CASE Head(todo) \in Preparers /\ todo' \in {<<>>, Tail(todo)}
      <3>1. ~Has(Tail(todo), Waiters)
        BY <2>4, <1>1, ProgramTyped, OfTail DEF Waiting
      <3>2. ~Has(<<>>, Waiters)
        BY OfNone
      <3>3. ~Has(todo', Waiters)
        BY <3>1, <3>2, <2>4
      <3>4. ~Has(todo', Restarts) /\ ~Has(todo', Reloads)
        BY <3>3 DEF Has, Waiters
      <3>5. QED  BY <2>1, <3>4 DEF Waiting
    <2>5. QED  BY <2>3, <2>4
  <1>5. QED  BY <1>2, <1>3, <1>4

LEMMA EitherWaiter ==
    ASSUME NEW s
    PROVE  Has(s, Waiters) <=> Has(s, Restarts) \/ Has(s, Reloads)
  BY DEF Has, Waiters

\* A step that puts others before the rest of the program.
LEMMA InsertKeeps ==
    ASSUME Formed, Configured, Waiting, todo # <<>>, opts' = opts,
           NEW p \in Program, todo' = p \o Tail(todo),
           ~Has(p, Writers), ~Has(p, Users), ~Has(p, Installs),
           Has(p, Spoilers) => Head(todo) \in Spoilers,
           Has(p, Preparers) => Head(todo) \in Preparers,
           Head(todo) \notin Installs,
           (Readable => Readable') \/ Head(todo) \in Spoilers,
           (tmp' = tmp /\ mem' = mem) \/ Head(todo) \in Preparers
    PROVE  (Formed /\ Configured /\ Waiting)'
  <1> DEFINE r == Tail(todo)
  <1>1. todo \in Program /\ r \in Program
    BY ProgramTail DEF Formed
  <1>2. todo \in Seq(Good) /\ p \in Seq(Good) /\ r \in Seq(Good)
    BY <1>1, ProgramTyped
  <1>3. todo' \in Program
    BY <1>1, RunsConcat, ProgramRuns
  <1>4. \A A, B : /\ Has(todo', A) <=> Has(p, A) \/ Has(r, A)
                  /\ Never(todo', A, B) <=>
                        Never(p, A, B) /\ Never(r, A, B) /\ (Has(p, A) => ~Has(r, B))
                  /\ Behind(p, A, B) /\ (Has(p, B) \/ Behind(r, A, B)) => Behind(todo', A, B)
    BY <1>2, OfConcat
  <1>5. \A A, B : /\ Has(todo, A) <=> Head(todo) \in A \/ Has(r, A)
                  /\ Never(todo, A, B) <=>
                       Never(r, A, B) /\ (Head(todo) \in A => ~Has(r, B))
                  /\ Behind(todo, A, B) => Head(todo) \in B \/ Behind(r, A, B)
    BY <1>2, OfTail
  <1>6. /\ \A A : Never(p, Installs, A) /\ Never(p, A, Users) /\ Behind(p, Users, A)
        /\ Never(p, Preparers, Waiters)
    <2>1. ~Has(p, Waiters)
      BY EitherWaiter, <1>1 DEF Has, Users, Restarts, Reloads, Of
    <2>2. QED  BY <2>1, NothingToKeep
  <1> HIDE DEF r
  <1>7. Formed'
    BY <1>3, <1>4, <1>5 DEF Formed
  <1>8. Configured'
    <2>1. Never(todo', Installs, Spoilers)
      BY <1>4, <1>5, <1>6 DEF Configured
    <2>2. CASE Behind(todo, Users, Installs)
      <3>1. Behind(todo', Users, Installs)
        BY <2>2, <1>4, <1>5, <1>6
      <3>2. QED  BY <2>1, <3>1 DEF Configured
    <2>3. CASE Readable /\ Never(todo, Spoilers, Users) /\ Head(todo) \in Spoilers
      <3>1. ~Has(r, Users)
        BY <2>3, <1>5
      <3>2. ~Has(todo', Users)
        BY <3>1, <1>4
      <3>3. Behind(todo', Users, Installs)
        BY <3>2, NothingToKeep
      <3>4. QED  BY <2>1, <3>3 DEF Configured
    <2>4. CASE Readable /\ Never(todo, Spoilers, Users) /\ Head(todo) \notin Spoilers
      <3>1. Never(todo', Spoilers, Users)
        BY <2>4, <1>4, <1>5, <1>6
      <3>2. QED  BY <2>1, <2>4, <3>1 DEF Configured
    <2>5. QED  BY <2>2, <2>3, <2>4 DEF Configured
  <1>9. Waiting'
    <2>1. ~Has(p, Waiters) /\ ~Has(p, Restarts) /\ ~Has(p, Reloads)
      BY EitherWaiter, <1>1 DEF Has, Users, Restarts, Reloads, Of
    <2>2. Never(todo', Preparers, Waiters)
      BY <1>4, <1>5, <1>6 DEF Waiting
    <2>3. CASE tmp' = tmp /\ mem' = mem
      BY <2>1, <2>2, <2>3, <1>4, <1>5 DEF Waiting
    <2>4. CASE Head(todo) \in Preparers
      <3>1. ~Has(r, Waiters)
        BY <2>4, <1>5 DEF Waiting
      <3>2. ~Has(todo', Restarts) /\ ~Has(todo', Reloads)
        BY <3>1, <2>1, <1>4, EitherWaiter
      <3>3. QED  BY <2>2, <3>2 DEF Waiting
    <2>5. QED  BY <2>3, <2>4
  <1>10. QED  BY <1>7, <1>8, <1>9

\* What a command needs when it begins.
Ready(steps, o) ==
    /\ steps \in Program
    /\ o.version # Garbled
    /\ Has(steps, Writers) => o.version \in Versions
    /\ Never(steps, Installs, Spoilers)
    /\ \/ Readable /\ Never(steps, Spoilers, Users)
       \/ Behind(steps, Users, Installs)
    /\ Never(steps, Preparers, Waiters)
    /\ Has(steps, Reloads) => tmp \in Versions
    /\ Has(steps, Restarts) /\ o.wp /\ Changed(Loaded) => tmp \in Versions

LEMMA BeginKeeps ==
    ASSUME NEW steps, NEW o, Ready(steps, o), Begin(steps, o)
    PROVE  (Formed /\ Configured /\ Waiting)'
  <1>1. /\ todo' = steps /\ opts' = o /\ mem' = Loaded
        /\ config' = config /\ tmp' = tmp
    BY DEF Begin, disk
  <1>2. o # Idle
    BY DEF Ready, Idle, Garbled
  <1>3. Formed'
    BY <1>1, <1>2 DEF Ready, Formed, Versions
  <1>4. Configured'
    BY <1>1 DEF Ready, Configured, Readable
  <1>5. Waiting'
    BY <1>1 DEF Ready, Waiting, Versions
  <1>6. QED  BY <1>3, <1>4, <1>5

-----------------------------------------------------------------------------
(* Every command begins with what it needs.                                  *)

\* A program without the steps that the invariant names.
LEMMA ReadyPlain ==
    ASSUME NEW ops, NEW steps \in Runs(ops), NEW o, o.version # Garbled,
           ops \cap {"install", "start", "restart", "reload"} = {},
           Has(steps, Writers) => o.version \in Versions
    PROVE  Ready(steps, o)
  <1>1. steps \in Program
    BY RunsMore
  <1>2. /\ \A x \in Users : x.op \notin ops
        /\ \A x \in Installs : x.op \notin ops
        /\ \A x \in Restarts : x.op \notin ops
        /\ \A x \in Reloads : x.op \notin ops
    BY DEF Users, Installs, Restarts, Reloads, Of
  <1>3. ~Has(steps, Users) /\ ~Has(steps, Installs) /\ ~Has(steps, Restarts) /\ ~Has(steps, Reloads)
    BY <1>2, RunsNone
  <1>4. ~Has(steps, Waiters)
    BY <1>3, EitherWaiter
  <1>5. QED  BY <1>1, <1>3, <1>4, NothingToKeep DEF Ready

\* Programs that write no new configuration, and give servers none.
LEMMA NoneOf ==
    ASSUME NEW ops, NEW s \in Runs(ops)
    PROVE  /\ s \in Program
           /\ ops \cap {"create", "copy", "save", "config_status"} = {} => ~Has(s, Writers)
           /\ ops \cap {"start", "restart", "reload"} = {} => ~Has(s, Users)
           /\ ops \cap {"apply", "reapply"} = {} => ~Has(s, Spoilers)
           /\ "install" \notin ops => ~Has(s, Installs)
           /\ "restart" \notin ops => ~Has(s, Restarts)
           /\ "reload" \notin ops => ~Has(s, Reloads)
           /\ ops \cap {"apply", "reapply", "copy", "create", "config_status"} = {}
                => ~Has(s, Preparers)
           /\ ops \cap {"restart", "reload"} = {} => ~Has(s, Waiters)
  <1>1. s \in Program
    BY RunsMore
  <1>2. \A i \in DOMAIN s : s[i] \in Good /\ s[i].op \in ops
    BY <1>1, LenProperties, ElementOfSeq DEF Runs, Program
  <1>3. ops \cap {"create", "copy", "save", "config_status"} = {} => ~Has(s, Writers)
    BY <1>2 DEF Has, Writers, Good
  <1>4. /\ ops \cap {"start", "restart", "reload"} = {} => ~Has(s, Users)
        /\ ops \cap {"apply", "reapply"} = {} => ~Has(s, Spoilers)
    BY <1>2 DEF Has, Users, Spoilers, Of
  <1>5. /\ "install" \notin ops => ~Has(s, Installs)
        /\ "restart" \notin ops => ~Has(s, Restarts)
        /\ "reload" \notin ops => ~Has(s, Reloads)
    BY <1>2 DEF Has, Installs, Restarts, Reloads, Of
  <1>6. ops \cap {"apply", "reapply", "copy", "create", "config_status"} = {}
            => ~Has(s, Preparers)
    BY <1>2 DEF Has, Preparers, Of
  <1>7. ops \cap {"restart", "reload"} = {} => ~Has(s, Waiters)
    BY <1>5, EitherWaiter
  <1>8. QED  BY <1>1, <1>3, <1>4, <1>5, <1>6, <1>7

LEMMA StepWriter ==
    ASSUME NEW op, NEW arg, NEW orelse, op \notin {"create", "copy", "save"}, orelse # "save"
    PROVE  ~Has(S(op, arg, orelse), Writers)
  <1> DEFINE x == [op |-> op, arg |-> arg, orelse |-> orelse]
  <1>1. x.op = op /\ x.orelse = orelse
    OBVIOUS
  <1> HIDE DEF x
  <1>2. x \notin Writers
    BY <1>1 DEF Writers
  <1>3. S(op, arg, orelse) = <<x>>
    BY DEF S, x
  <1>4. QED  BY <1>2, <1>3, OfOne

LEMMA Concat ==
    ASSUME NEW s \in Program, NEW t \in Program
    PROVE  /\ s \o t \in Program
           /\ \A A : Has(s \o t, A) <=> Has(s, A) \/ Has(t, A)
           /\ \A A, B :
                /\ Never(s \o t, A, B) <=>
                     Never(s, A, B) /\ Never(t, A, B) /\ (Has(s, A) => ~Has(t, B))
                /\ Behind(s, A, B) /\ (Has(s, B) \/ Behind(t, A, B)) => Behind(s \o t, A, B)
  <1>1. s \o t \in Program
    BY RunsConcat, ProgramRuns
  <1>2. s \in Seq(Good) /\ t \in Seq(Good)
    BY ProgramTyped
  <1>3. QED  BY <1>1, <1>2, OfConcat

\* edit-config, and its return to the configuration in force
LEMMA EditReady ==
    ASSUME NEW k \in ConfigStatus, NEW o, o.version \in Versions
    PROVE  Ready(NewConfig(k), o)
  <1>1. o.version # Garbled
    BY DEF Versions, Garbled
  <1>2. QED  BY <1>1, NewConfigProgram, ReadyPlain

\* deploy, of the configuration in force or of a new one
LEMMA DeployReady ==
    ASSUME NEW p \in Runs({"apply", "create", "save"}), NEW o, o.version # Garbled,
           Has(p, Writers) => o.version \in Versions
    PROVE  Ready(p \o DeploySteps, o)
  <1>1. /\ p \in Program /\ ~Has(p, Installs) /\ ~Has(p, Users)
        /\ ~Has(p, Waiters) /\ ~Has(p, Restarts) /\ ~Has(p, Reloads)
    BY NoneOf
  <1>2. /\ DeploySteps \in Program /\ ~Has(DeploySteps, Writers) /\ ~Has(DeploySteps, Spoilers)
        /\ ~Has(DeploySteps, Users) /\ ~Has(DeploySteps, Preparers)
        /\ ~Has(DeploySteps, Waiters)
        /\ ~Has(DeploySteps, Restarts) /\ ~Has(DeploySteps, Reloads)
    BY DeployProgram, NoneOf
  <1> DEFINE s == p \o DeploySteps
  <1>3. /\ s \in Program
        /\ \A A : Has(s, A) <=> Has(p, A) \/ Has(DeploySteps, A)
        /\ \A A, B : Never(s, A, B) <=>
              Never(p, A, B) /\ Never(DeploySteps, A, B) /\ (Has(p, A) => ~Has(DeploySteps, B))
    BY <1>1, <1>2, Concat
  <1> HIDE DEF s
  <1>4. Never(s, Installs, Spoilers)
    BY <1>1, <1>2, <1>3, NothingToKeep
  <1>5. Behind(s, Users, Installs)
    BY <1>1, <1>2, <1>3, NothingToKeep
  <1>6. Never(s, Preparers, Waiters)
    BY <1>1, <1>2, <1>3, NothingToKeep
  <1>7. Ready(s, o)
    BY <1>1, <1>2, <1>3, <1>4, <1>5, <1>6 DEF Ready
  <1>8. QED  BY <1>7 DEF s

\* start
LEMMA StartReady ==
    ASSUME NEW comps, NEW o, o.version = None, Readable
    PROVE  Ready(StartSteps(comps), o)
  <1> DEFINE s == StartSteps(comps)
  <1>1. /\ s \in Program /\ ~Has(s, Writers) /\ ~Has(s, Installs) /\ ~Has(s, Spoilers)
        /\ ~Has(s, Preparers) /\ ~Has(s, Restarts) /\ ~Has(s, Reloads)
    BY StartProgram, NoneOf
  <1> HIDE DEF s
  <1>2. Ready(s, o)
    BY <1>1, NothingToKeep DEF Ready, None, Garbled
  <1>3. QED  BY <1>2 DEF s

\* restart, which may start servers first
LEMMA RestartReady ==
    ASSUME NEW c, NEW comps, NEW servers, NEW apply, NEW o, o.version = None, Readable,
           apply <=> o.wp /\ Changed(Loaded), apply => tmp \in Versions
    PROVE  Ready(When(c, StartSteps(comps)) \o RestartSteps(comps, servers, apply), o)
  <1> DEFINE p == When(c, StartSteps(comps))
             all == NamesAll(comps) /\ servers = {}
             a == S("restart", "", "abort")
             b == When(all /\ apply, S("apply", "", "abort"))
             d == When(all, S("status", "RUNNING", "abort"))
             s == p \o ((a \o b) \o d)
  <1>1. p \in Runs({"start", "status", "dump"})
    BY StartProgram, WhenRuns
  <1>2. a \in Runs({"restart"}) /\ b \in Runs({"apply"}) /\ d \in Runs({"status"})
    <2>1. "RUNNING" \in Status  BY DEF Status
    <2>2. QED  BY <2>1, KnownSteps, WhenRuns
  <1>3. RestartSteps(comps, servers, apply) = (a \o b) \o d
    BY DEF RestartSteps
  <1> HIDE DEF p, a, b, d
  <1>4. /\ p \in Program /\ ~Has(p, Writers) /\ ~Has(p, Installs) /\ ~Has(p, Spoilers)
        /\ ~Has(p, Preparers) /\ ~Has(p, Reloads)
    BY <1>1, NoneOf
  <1>5. /\ a \in Program /\ ~Has(a, Writers) /\ ~Has(a, Installs) /\ ~Has(a, Spoilers)
        /\ ~Has(a, Preparers) /\ ~Has(a, Reloads)
    BY <1>2, NoneOf
  <1>6. /\ b \in Program /\ ~Has(b, Writers) /\ ~Has(b, Installs) /\ ~Has(b, Users)
        /\ ~Has(b, Waiters) /\ ~Has(b, Reloads) /\ ~Has(b, Restarts)
    BY <1>2, NoneOf
  <1>7. /\ d \in Program /\ ~Has(d, Writers) /\ ~Has(d, Installs) /\ ~Has(d, Spoilers)
        /\ ~Has(d, Users) /\ ~Has(d, Preparers) /\ ~Has(d, Waiters) /\ ~Has(d, Reloads)
    BY <1>2, NoneOf
  <1>8. /\ (a \o b) \in Program
        /\ \A A : Has(a \o b, A) <=> Has(a, A) \/ Has(b, A)
        /\ \A A, B : Never(a \o b, A, B) <=>
                       Never(a, A, B) /\ Never(b, A, B) /\ (Has(a, A) => ~Has(b, B))
    BY <1>5, <1>6, Concat
  <1>9. /\ (a \o b) \o d \in Program
        /\ \A A : Has((a \o b) \o d, A) <=> Has(a \o b, A) \/ Has(d, A)
        /\ \A A, B : Never((a \o b) \o d, A, B) <=>
                       Never(a \o b, A, B) /\ Never(d, A, B) /\ (Has(a \o b, A) => ~Has(d, B))
    BY <1>7, <1>8, Concat
  <1>10. /\ s \in Program
         /\ \A A : Has(s, A) <=> Has(p, A) \/ Has((a \o b) \o d, A)
         /\ \A A, B : Never(s, A, B) <=>
               Never(p, A, B) /\ Never((a \o b) \o d, A, B)
               /\ (Has(p, A) => ~Has((a \o b) \o d, B))
    BY <1>4, <1>9, Concat
  <1> HIDE DEF s
  <1>11. ~Has(s, Writers) /\ ~Has(s, Installs) /\ ~Has(s, Reloads)
    BY <1>4, <1>5, <1>6, <1>7, <1>8, <1>9, <1>10
  <1>12. Never(s, Installs, Spoilers)
    BY <1>11, NothingToKeep
  <1>13. Never(s, Spoilers, Users)
    <2>1. Never(a \o b, Spoilers, Users)
      BY <1>5, <1>6, <1>8, NothingToKeep
    <2>2. Never((a \o b) \o d, Spoilers, Users)
      BY <2>1, <1>7, <1>9, NothingToKeep
    <2>3. QED  BY <2>2, <1>4, <1>10, NothingToKeep
  <1>14. Never(s, Preparers, Waiters)
    <2>1. Never(a \o b, Preparers, Waiters)
      BY <1>5, <1>6, <1>8, NothingToKeep
    <2>2. Never((a \o b) \o d, Preparers, Waiters)
      BY <2>1, <1>7, <1>9, NothingToKeep
    <2>3. QED  BY <2>2, <1>4, <1>10, NothingToKeep
  <1>15. Ready(s, o)
    BY <1>10, <1>11, <1>12, <1>13, <1>14 DEF Ready, None, Garbled
  <1>16. QED  BY <1>3, <1>15 DEF s, p

\* reload, which may start servers first
LEMMA ReloadReady ==
    ASSUME NEW c, NEW o, o.version = None, Readable, tmp \in Versions, o.wp = FALSE
    PROVE  Ready(When(c, StartSteps(<<>>)) \o S("reload", "", "dump") \o S("apply", "", "abort"), o)
  <1> DEFINE p == When(c, StartSteps(<<>>))
             a == S("reload", "", "dump")
             b == S("apply", "", "abort")
             s == (p \o a) \o b
  <1>1. p \in Runs({"start", "status", "dump"})
    BY StartProgram, WhenRuns
  <1>2. a \in Runs({"reload"}) /\ b \in Runs({"apply"})
    BY KnownSteps
  <1> HIDE DEF p, a, b
  <1>3. /\ p \in Program /\ ~Has(p, Writers) /\ ~Has(p, Installs) /\ ~Has(p, Spoilers)
        /\ ~Has(p, Preparers)
    BY <1>1, NoneOf
  <1>4. /\ a \in Program /\ ~Has(a, Writers) /\ ~Has(a, Installs) /\ ~Has(a, Spoilers)
        /\ ~Has(a, Preparers)
    BY <1>2, NoneOf
  <1>5. /\ b \in Program /\ ~Has(b, Writers) /\ ~Has(b, Installs) /\ ~Has(b, Users)
        /\ ~Has(b, Waiters)
    BY <1>2, NoneOf
  <1>6. /\ p \o a \in Program
        /\ \A A : Has(p \o a, A) <=> Has(p, A) \/ Has(a, A)
    BY <1>3, <1>4, Concat
  <1>7. /\ s \in Program
        /\ \A A : Has(s, A) <=> Has(p \o a, A) \/ Has(b, A)
        /\ \A A, B : Never(s, A, B) <=>
               Never(p \o a, A, B) /\ Never(b, A, B) /\ (Has(p \o a, A) => ~Has(b, B))
    BY <1>5, <1>6, Concat
  <1> HIDE DEF s
  <1>8. ~Has(s, Writers) /\ ~Has(s, Installs)
    BY <1>3, <1>4, <1>5, <1>6, <1>7
  <1>9. Never(s, Installs, Spoilers)
    BY <1>8, NothingToKeep
  <1>10. Never(s, Spoilers, Users)
    BY <1>3, <1>4, <1>5, <1>6, <1>7, NothingToKeep
  <1>11. Never(s, Preparers, Waiters)
    BY <1>3, <1>4, <1>5, <1>6, <1>7, NothingToKeep
  <1>12. Ready(s, o)
    BY <1>7, <1>8, <1>9, <1>10, <1>11 DEF Ready, None, Garbled
  <1>13. QED  BY <1>12 DEF s, p, a, b

\* destroy
LEMMA DestroyReady ==
    ASSUME NEW changed, NEW o, o.version = None
    PROVE  Ready(ForcedStop \o DestroySteps(changed), o)
  <1> DEFINE ops == {"stop", "check", "wipe", "status", "info", "apply"}
  <1>1. ForcedStop \in Runs(ops) /\ DestroySteps(changed) \in Runs(ops)
    BY ForcedStopProgram, DestroyProgram, RunsMore
  <1>2. /\ ops \cap {"install", "start", "restart", "reload"} = {}
        /\ ops \cap {"create", "copy", "save", "config_status"} = {}
    OBVIOUS
  <1> HIDE DEF ops
  <1>3. ForcedStop \o DestroySteps(changed) \in Runs(ops)
    BY <1>1, RunsConcat
  <1>4. QED  BY <1>2, <1>3, NoneOf, ReadyPlain DEF None, Garbled

LEMMA DeployInstalls == Has(DeploySteps, Installs)
  <1> DEFINE x == [op |-> "install", arg |-> "", orelse |-> "abort"]
             i == S("install", "", "abort")
             e == S("status", "DEPLOYED", "abort")
             f == S("dump", "", "abort")
             ops == {"install", "status", "dump"}
  <1>1. x \in Installs  BY DEF Installs, Of, Step, Ops
  <1>2. i = <<x>>  BY DEF S
  <1>3. i \in Runs(ops) /\ e \in Runs(ops) /\ f \in Runs(ops)
    <2>1. "DEPLOYED" \in Status  BY DEF Status
    <2>2. QED  BY <2>1, KnownSteps
  <1>4. DeploySteps = (i \o e) \o f
    BY DEF DeploySteps
  <1> HIDE DEF x, i, e, f, ops
  <1>5. i \in Program /\ e \in Program /\ f \in Program
    BY <1>3, NoneOf
  <1>6. Has(i, Installs)
    BY <1>1, <1>2, OfOne
  <1>7. i \o e \in Program /\ Has(i \o e, Installs)
    BY <1>5, <1>6, Concat
  <1>8. QED  BY <1>4, <1>5, <1>7, Concat

\* redeploy
LEMMA RedeployReady ==
    ASSUME NEW changed, NEW o, o.version = None
    PROVE  Ready(ForcedStop \o DestroySteps(changed) \o S("reapply", "", "abort")
                 \o DeploySteps \o StartSteps(<<>>) \o S("dump", "", "abort"), o)
  <1> DEFINE ops == {"stop", "check", "wipe", "status", "info", "apply", "reapply"}
             p == (ForcedStop \o DestroySteps(changed)) \o S("reapply", "", "abort")
             d == DeploySteps
             a == StartSteps(<<>>)
             b == S("dump", "", "abort")
             s == ((p \o d) \o a) \o b
  <1>1. p \in Runs(ops)
    <2>1. /\ ForcedStop \in Runs(ops) /\ DestroySteps(changed) \in Runs(ops)
          /\ S("reapply", "", "abort") \in Runs(ops)
      BY ForcedStopProgram, DestroyProgram, KnownSteps, RunsMore
    <2> HIDE DEF ops
    <2>2. QED  BY <2>1, RunsConcat
  <1>2. /\ d \in Runs({"install", "status", "dump"})
        /\ a \in Runs({"start", "status", "dump"})
        /\ b \in Runs({"dump"})
    BY DeployProgram, StartProgram, KnownSteps
  <1>3. Has(d, Installs)
    BY DeployInstalls
  <1> HIDE DEF p, d, a, b
  <1>4. /\ p \in Program /\ ~Has(p, Writers) /\ ~Has(p, Installs) /\ ~Has(p, Users)
        /\ ~Has(p, Waiters) /\ ~Has(p, Reloads) /\ ~Has(p, Restarts)
    BY <1>1, NoneOf
  <1>5. /\ d \in Program /\ ~Has(d, Writers) /\ ~Has(d, Spoilers) /\ ~Has(d, Users)
        /\ ~Has(d, Waiters) /\ ~Has(d, Reloads) /\ ~Has(d, Restarts)
    BY <1>2, NoneOf
  <1>6. /\ a \in Program /\ ~Has(a, Writers) /\ ~Has(a, Installs) /\ ~Has(a, Spoilers)
        /\ ~Has(a, Waiters) /\ ~Has(a, Reloads) /\ ~Has(a, Restarts)
    BY <1>2, NoneOf
  <1>7. /\ b \in Program /\ ~Has(b, Writers) /\ ~Has(b, Installs) /\ ~Has(b, Spoilers)
        /\ ~Has(b, Users) /\ ~Has(b, Waiters) /\ ~Has(b, Reloads) /\ ~Has(b, Restarts)
    BY <1>2, NoneOf
  <1>8. /\ p \o d \in Program
        /\ \A A : Has(p \o d, A) <=> Has(p, A) \/ Has(d, A)
        /\ \A A, B : Never(p \o d, A, B) <=>
               Never(p, A, B) /\ Never(d, A, B) /\ (Has(p, A) => ~Has(d, B))
    BY <1>4, <1>5, Concat
  <1>9. /\ (p \o d) \o a \in Program
        /\ \A A : Has((p \o d) \o a, A) <=> Has(p \o d, A) \/ Has(a, A)
        /\ \A A, B :
             /\ Never((p \o d) \o a, A, B) <=>
                  Never(p \o d, A, B) /\ Never(a, A, B) /\ (Has(p \o d, A) => ~Has(a, B))
             /\ Behind(p \o d, A, B) /\ (Has(p \o d, B) \/ Behind(a, A, B))
                  => Behind((p \o d) \o a, A, B)
    BY <1>6, <1>8, Concat
  <1>10. /\ s \in Program
         /\ \A A : Has(s, A) <=> Has((p \o d) \o a, A) \/ Has(b, A)
         /\ \A A, B :
              /\ Never(s, A, B) <=>
                   Never((p \o d) \o a, A, B) /\ Never(b, A, B)
                   /\ (Has((p \o d) \o a, A) => ~Has(b, B))
              /\ Behind((p \o d) \o a, A, B) /\ (Has((p \o d) \o a, B) \/ Behind(b, A, B))
                   => Behind(s, A, B)
    BY <1>7, <1>9, Concat
  <1> HIDE DEF s
  <1>11. ~Has(s, Writers) /\ ~Has(s, Waiters) /\ ~Has(s, Reloads) /\ ~Has(s, Restarts)
    BY <1>4, <1>5, <1>6, <1>7, <1>8, <1>9, <1>10
  <1>12. Never(s, Installs, Spoilers)
    <2>1. Never(p \o d, Installs, Spoilers)  BY <1>4, <1>5, <1>8, NothingToKeep
    <2>2. Never((p \o d) \o a, Installs, Spoilers)  BY <2>1, <1>6, <1>9, NothingToKeep
    <2>3. QED  BY <2>2, <1>7, <1>10, NothingToKeep
  <1>13. Behind(s, Users, Installs)
    <2>1. Behind(p \o d, Users, Installs)  BY <1>4, <1>5, <1>8, NothingToKeep
    <2>2. Behind((p \o d) \o a, Users, Installs)  BY <2>1, <1>3, <1>8, <1>9
    <2>3. QED  BY <2>2, <1>3, <1>8, <1>9, <1>10
  <1>14. Never(s, Preparers, Waiters)
    BY <1>11, NothingToKeep
  <1>15. Ready(s, o)
    BY <1>10, <1>11, <1>12, <1>13, <1>14 DEF Ready, None, Garbled
  <1>16. QED  BY <1>15 DEF s, p, d, a, b

-----------------------------------------------------------------------------
(* Types.                                                                    *)

LEMMA ProgramSeq == Program \subseteq Seq(Step)
  <1>1. ASSUME NEW s \in Program
        PROVE  s \in Seq(Step)
    <2>1. s \in Seq(Good) /\ Good \subseteq Step
      BY DEF Program, Good
    <2>2. QED  BY <2>1, SeqMonotonic
  <1>2. QED  BY <1>1

LEMMA Constants ==
    /\ MaxEdits \in Nat /\ MaxMishaps \in Nat
    /\ <<>> \in ComponentLists /\ {} \in ServerLists
    /\ \A c \in ComponentLists : ToSet(c) \subseteq Components
    /\ Idle \in Options
    /\ Fresh \in DeployInfo
    /\ Versions \subseteq Int /\ \A v \in Versions : v # None /\ v # Garbled
    /\ None # Garbled
  <1>1. /\ MaxEdits \in Nat /\ MaxMishaps \in Nat
        /\ <<>> \in ComponentLists /\ {} \in ServerLists
    BY LifecycleAssumption
  <1>2. Idle \in Options
    BY <1>1 DEF Idle, Options
  <1>3. Fresh \in DeployInfo
    BY DEF Fresh, DeployInfo, Status, ConfigStatus
  <1>4. \A c \in ComponentLists : ToSet(c) \subseteq Components
    <2>1. ASSUME NEW c \in ComponentLists, NEW i \in DOMAIN c
          PROVE  c[i] \in Components
      <3>1. c \in Seq(Components)
        BY LifecycleAssumption
      <3>2. QED  BY <2>1, <3>1, LenProperties, ElementOfSeq
    <2>2. QED  BY <2>1 DEF ToSet
  <1>5. QED  BY <1>1, <1>2, <1>3, <1>4 DEF Versions, None, Garbled

LEMMA LoadedTyped ==
    ASSUME TypeOK
    PROVE  Loaded \in DeployInfo /\ Loaded.status \in Status /\ Loaded.config_status \in ConfigStatus
  <1>1. Loaded \in DeployInfo
    BY Constants DEF TypeOK, Loaded
  <1>2. QED  BY <1>1 DEF DeployInfo

LEMMA BeginTyped ==
    ASSUME TypeOK, NEW steps \in Program, NEW o \in Options, Begin(steps, o),
           edits' \in 0..MaxEdits, saved' \subseteq {None} \cup Versions
    PROVE  TypeOK'
  <1>1. /\ todo' = steps /\ opts' = o /\ mem' = Loaded
        /\ info' = info /\ config' = config /\ tmp' = tmp
        /\ up' = up /\ lost' = lost /\ files' = files /\ runs' = runs
        /\ stayed' = stayed /\ done' = done /\ mishaps' = mishaps
    BY DEF Begin, disk, cluster
  <1>2. todo' \in Seq(Step)
    BY <1>1, ProgramSeq
  <1>3. mem' \in DeployInfo
    BY <1>1, LoadedTyped
  <1>4. QED  BY <1>1, <1>2, <1>3 DEF TypeOK, Versions

\* A command that has what it needs keeps the invariant.
LEMMA CommandKeeps ==
    ASSUME TInv, NEW steps, NEW o \in Options, Ready(steps, o), Begin(steps, o),
           edits' \in 0..MaxEdits, saved' \subseteq {None} \cup Versions
    PROVE  TInv'
  BY BeginKeeps, BeginTyped DEF TInv, Ready

LEMMA NewVersionTyped ==
    ASSUME NEW v \in Versions, NEW force \in BOOLEAN
    PROVE  NewVersion(v, force) \in Options /\ NewVersion(v, force).version = v
  BY Constants DEF NewVersion, Idle, Options

LEMMA CommandStep ==
    ASSUME TInv, Command
    PROVE  TInv'
  <1>1. /\ edits \in 0..MaxEdits /\ saved \subseteq {None} \cup Versions
        /\ Loaded.config_status \in ConfigStatus
        /\ config \in {None, Garbled} \cup Versions /\ tmp \in {None, Garbled} \cup Versions
    BY LoadedTyped DEF TInv, TypeOK
  <1>2. ASSUME NEW k \in ConfigStatus, EditConfig(k)
        PROVE  TInv'
    <2> DEFINE o == NewVersion(edits', FALSE)
    <2>1. edits' \in Versions /\ edits' \in 0..MaxEdits
      BY <1>1, <1>2, Constants DEF EditConfig, Versions
    <2>2. saved' \subseteq {None} \cup Versions
      BY <1>1, <1>2, <2>1 DEF EditConfig
    <2>3. o \in Options /\ o.version \in Versions
      BY <2>1, NewVersionTyped
    <2>4. Begin(NewConfig(k), o)
      BY <1>2 DEF EditConfig
    <2> HIDE DEF o
    <2>5. Ready(NewConfig(k), o)
      BY <2>3, EditReady
    <2>6. QED  BY <2>1, <2>2, <2>3, <2>4, <2>5, CommandKeeps
  <1>3. ASSUME RevertConfig
        PROVE  TInv'
    <2> DEFINE o == NewVersion(config, FALSE)
    <2>1. config \in Versions /\ edits' = edits
      BY <1>1, <1>3 DEF RevertConfig, Readable
    <2>2. saved' \subseteq {None} \cup Versions
      BY <1>1, <1>3, <2>1 DEF RevertConfig
    <2>3. o \in Options /\ o.version \in Versions
      BY <2>1, NewVersionTyped
    <2>4. Begin(NewConfig("UNCHNAGE"), o)
      BY <1>3 DEF RevertConfig
    <2> HIDE DEF o
    <2>5. Ready(NewConfig("UNCHNAGE"), o)
      <3>1. "UNCHNAGE" \in ConfigStatus  BY DEF ConfigStatus
      <3>2. QED  BY <3>1, <2>3, EditReady
    <2>6. QED  BY <1>1, <2>1, <2>2, <2>3, <2>4, <2>5, CommandKeeps
  <1>4. ASSUME NEW force \in BOOLEAN, DeployCluster(force)
        PROVE  TInv'
    <2> DEFINE o == With(<<>>, {}, force, FALSE)
               p == When(Changed(Loaded), S("apply", "", "abort"))
    <2>1. o \in Options /\ o.version = None
      BY Constants DEF With, Options
    <2>2. Begin(p \o DeploySteps, o) /\ edits' = edits /\ saved' = saved
      BY <1>4 DEF DeployCluster
    <2>3. p \in Runs({"apply", "create", "save"}) /\ p \in Runs({"apply"})
      BY KnownSteps, WhenRuns
    <2> HIDE DEF o, p
    <2>4. ~Has(p, Writers)
      BY <2>3, NoneOf
    <2>5. Ready(p \o DeploySteps, o)
      BY <2>1, <2>3, <2>4, DeployReady, Constants
    <2>6. QED  BY <1>1, <2>1, <2>2, <2>5, CommandKeeps
  <1>5. ASSUME NEW force \in BOOLEAN, DeployNewConfig(force)
        PROVE  TInv'
    <2> DEFINE o == NewVersion(edits', force)
               w == When(Changed(Loaded), S("apply", "", "abort"))
               p == (w \o S("create", "", "abort")) \o S("save", "", "abort")
    <2>1. edits' \in Versions /\ edits' \in 0..MaxEdits
      <3>1. edits < MaxEdits /\ edits' = edits + 1
        BY <1>5 DEF DeployNewConfig
      <3>2. QED  BY <3>1, <1>1, Constants DEF Versions
    <2>2. saved' \subseteq {None} \cup Versions
      BY <1>1, <1>5, <2>1 DEF DeployNewConfig
    <2>3. o \in Options /\ o.version \in Versions
      BY <2>1, NewVersionTyped
    <2>4. Begin(p \o DeploySteps, o)
      BY <1>5 DEF DeployNewConfig
    <2>5. p \in Runs({"apply", "create", "save"})
      BY KnownSteps, WhenRuns, RunsConcat
    <2> HIDE DEF o, p, w
    <2>6. Ready(p \o DeploySteps, o)
      BY <2>3, <2>5, DeployReady, Constants
    <2>7. QED  BY <2>1, <2>2, <2>3, <2>4, <2>6, CommandKeeps
  <1>6. ASSUME NEW comps \in ComponentLists, NEW servers \in ServerLists, NEW wp \in BOOLEAN,
               StartCluster(comps, servers, wp)
        PROVE  TInv'
    <2> DEFINE o == With(comps, servers, FALSE, wp)
    <2>1. o \in Options /\ o.version = None
      BY DEF With, Options
    <2>2. Begin(StartSteps(comps), o) /\ edits' = edits /\ saved' = saved /\ Readable
      BY <1>6 DEF StartCluster
    <2> HIDE DEF o
    <2>3. QED  BY <1>1, <2>1, <2>2, StartReady, CommandKeeps
  <1>7. ASSUME NEW comps \in ComponentLists, NEW servers \in ServerLists,
               StopCluster(comps, servers)
        PROVE  TInv'
    <2> DEFINE o == With(comps, servers, FALSE, FALSE)
               s == StopSteps(comps, servers, "abort")
    <2>1. o \in Options /\ o.version = None
      BY DEF With, Options
    <2>2. Begin(s, o) /\ edits' = edits /\ saved' = saved
      BY <1>7 DEF StopCluster
    <2>3. s \in Runs({"stop", "status"})
      BY StopProgram
    <2> HIDE DEF o, s
    <2>4. ~Has(s, Writers)
      BY <2>3, NoneOf
    <2>5. Ready(s, o)
      BY <2>1, <2>3, <2>4, ReadyPlain, Constants
    <2>6. QED  BY <1>1, <2>1, <2>2, <2>5, CommandKeeps
  <1>8. ASSUME NEW comps \in ComponentLists, NEW servers \in ServerLists, NEW wp \in BOOLEAN,
               RestartCluster(comps, servers, wp)
        PROVE  TInv'
    <2> DEFINE o == With(comps, servers, FALSE, wp)
               a == wp /\ Changed(Loaded)
               c == StatusCheck \in {Mixed, Stopped}
               s == When(c, StartSteps(comps)) \o RestartSteps(comps, servers, a)
    <2>1. o \in Options /\ o.version = None /\ o.wp = wp
      BY DEF With, Options
    <2>2. Begin(s, o) /\ edits' = edits /\ saved' = saved /\ Readable
      BY <1>8 DEF RestartCluster
    <2>3. (a => tmp \in Versions) /\ (a <=> o.wp /\ Changed(Loaded))
      BY <1>1, <1>8, <2>1 DEF RestartCluster
    <2> HIDE DEF o, a, c
    <2>4. Ready(s, o)
      BY <2>1, <2>2, <2>3, RestartReady
    <2> HIDE DEF s
    <2>5. QED  BY <1>1, <2>1, <2>2, <2>4, CommandKeeps
  <1>9. ASSUME ReloadCluster
        PROVE  TInv'
    <2> DEFINE o == With(<<>>, {}, FALSE, FALSE)
               c == ~AllUp
               s == When(c, StartSteps(<<>>)) \o S("reload", "", "dump") \o S("apply", "", "abort")
    <2>1. o \in Options /\ o.version = None /\ o.wp = FALSE
      BY Constants DEF With, Options
    <2>2. Begin(s, o) /\ edits' = edits /\ saved' = saved /\ Readable
      BY <1>9 DEF ReloadCluster
    <2>3. tmp \in Versions
      BY <1>1, <1>9 DEF ReloadCluster
    <2> HIDE DEF o, c
    <2>4. Ready(s, o)
      BY <2>1, <2>2, <2>3, ReloadReady
    <2> HIDE DEF s
    <2>5. QED  BY <1>1, <2>1, <2>2, <2>4, CommandKeeps
  <1>10. ASSUME NEW force \in BOOLEAN, DestroyCluster(force)
         PROVE  TInv'
    <2> DEFINE o == With(<<>>, {}, force, FALSE)
               s == ForcedStop \o DestroySteps(Changed(Loaded))
    <2>1. o \in Options /\ o.version = None
      BY Constants DEF With, Options
    <2>2. Begin(s, o) /\ edits' = edits /\ saved' = saved
      BY <1>10 DEF DestroyCluster
    <2> HIDE DEF o
    <2>3. Ready(s, o)
      BY <2>1, DestroyReady
    <2> HIDE DEF s
    <2>4. QED  BY <1>1, <2>1, <2>2, <2>3, CommandKeeps
  <1>11. ASSUME NEW force \in BOOLEAN, RedeployCluster(force)
         PROVE  TInv'
    <2> DEFINE o == With(<<>>, {}, force, FALSE)
               s == ForcedStop \o DestroySteps(Changed(Loaded)) \o S("reapply", "", "abort")
                    \o DeploySteps \o StartSteps(<<>>) \o S("dump", "", "abort")
    <2>1. o \in Options /\ o.version = None
      BY Constants DEF With, Options
    <2>2. Begin(s, o) /\ edits' = edits /\ saved' = saved
      BY <1>11 DEF RedeployCluster
    <2> HIDE DEF o
    <2>3. Ready(s, o)
      BY <2>1, RedeployReady
    <2> HIDE DEF s
    <2>4. QED  BY <1>1, <2>1, <2>2, <2>3, CommandKeeps
  <1>12. ASSUME PruneConfig
         PROVE  TInv'
    <2>1. /\ info' = Absent /\ config' = None /\ tmp' = None /\ saved' = {None}
          /\ todo = <<>> /\ opts = Idle /\ todo' = todo /\ opts' = opts /\ mem' = mem
          /\ up' = up /\ lost' = lost /\ files' = files /\ runs' = runs
          /\ stayed' = stayed /\ done' = done /\ edits' = edits /\ mishaps' = mishaps
      BY <1>12 DEF PruneConfig, cluster
    <2>2. TypeOK'
      BY <2>1 DEF TInv, TypeOK, Versions
    <2>3. Formed'
      BY <2>1 DEF TInv, Formed, Versions
    <2>4. Configured' /\ Waiting'
      BY <2>1, OfNone DEF Configured, Waiting
    <2>5. QED  BY <2>2, <2>3, <2>4 DEF TInv
  <1>13. QED
    BY <1>2, <1>3, <1>4, <1>5, <1>6, <1>7, <1>8, <1>9, <1>10, <1>11, <1>12 DEF Command

-----------------------------------------------------------------------------
(* The steps that write files.                                               *)

LEMMA HeadKind ==
    ASSUME TInv, todo # <<>>
    PROVE  /\ todo \in Program /\ Head(todo) \in Good /\ Tail(todo) \in Program
           /\ Rest(<<>>) /\ Rest(Tail(todo))
           /\ Head(todo) \in Installs <=> Head(todo).op = "install"
           /\ Head(todo) \in Spoilers <=> Head(todo).op \in {"apply", "reapply"}
           /\ Head(todo) \in Preparers <=>
                Head(todo).op \in {"apply", "reapply", "copy", "create", "config_status"}
           /\ Head(todo).op \in {"create", "copy", "save"} => opts.version \in Versions
           /\ Head(todo).op \in {"start", "restart", "reload"} => config \in Versions
           /\ Head(todo).op = "reload" => tmp \in Versions
           /\ Head(todo).op = "restart" /\ opts.wp /\ Changed(mem) => tmp \in Versions
  <1>1. todo \in Program /\ Head(todo) \in Good /\ Tail(todo) \in Program
    BY ProgramTail DEF TInv, Formed
  <1>2. Head(todo) \in Step
    BY <1>1 DEF Good
  <1>3. \A A : Head(todo) \in A => Has(todo, A)
    BY <1>1, ProgramTyped, OfTail
  <1>4. Head(todo).op \in {"create", "copy", "save"} => opts.version \in Versions
    BY <1>2, <1>3 DEF TInv, Formed, Writers
  <1>5. Head(todo).op \in {"start", "restart", "reload"} => config \in Versions
    <2>1. Head(todo).op \in {"start", "restart", "reload"} => Head(todo) \in Users
      BY <1>2 DEF Users, Of
    <2>2. Behind(todo, Users, Installs) => Head(todo) \notin Users
      BY <1>1, ProgramTyped, OfTail
    <2>3. Readable => config \in Versions
      BY DEF Readable, TInv, TypeOK
    <2>4. QED  BY <2>1, <2>2, <2>3 DEF TInv, Configured
  <1>6. Head(todo).op = "reload" => tmp \in Versions
    BY <1>2, <1>3 DEF TInv, Waiting, Reloads, Of
  <1>7. Head(todo).op = "restart" /\ opts.wp /\ Changed(mem) => tmp \in Versions
    BY <1>2, <1>3 DEF TInv, Waiting, Restarts, Of
  <1>8. Rest(<<>>) /\ Rest(Tail(todo))
    BY DEF Rest
  <1>9. QED  BY <1>1, <1>2, <1>4, <1>5, <1>6, <1>7, <1>8 DEF Installs, Spoilers, Preparers, Of

LEMMA FilesTyped ==
    ASSUME TInv, Formed', opts' = opts, UNCHANGED <<cluster, done, edits>>,
           info' \in DeployInfo \cup {Absent, Unreadable},
           config' \in {None, Garbled} \cup Versions, tmp' \in {None, Garbled} \cup Versions,
           mem' \in DeployInfo, saved' \subseteq {None} \cup Versions,
           mishaps' \in 0..MaxMishaps
    PROVE  TypeOK'
  <1>1. todo' \in Seq(Step)
    BY ProgramSeq DEF Formed
  <1>2. QED  BY <1>1 DEF TInv, TypeOK, cluster, Versions

LEMMA MishapTyped ==
    ASSUME TypeOK, NEW k, Mishap(k)
    PROVE  mishaps' \in 0..MaxMishaps
  BY Constants DEF TypeOK, Mishap

LEMMA DumpDeployInfoStep ==
    ASSUME TInv, DumpDeployInfo
    PROVE  TInv'
  <1> DEFINE h == Head(todo)
  <1>1. /\ todo # <<>> /\ h.op \in {"status", "config_status", "info"}
        /\ config' = config /\ tmp' = tmp /\ opts' = opts
        /\ UNCHANGED <<cluster, done, saved, edits>>
    BY DEF DumpDeployInfo, Doing
  <1>2. /\ todo \in Program /\ h \in Good /\ Rest(<<>>) /\ Rest(Tail(todo))
        /\ h \notin Installs
        /\ h \in Preparers <=> h.op = "config_status"
    BY <1>1, HeadKind
  <1>3. Fail => Rest(todo')
    BY <1>1, <1>2, FailLeavesRest
  <1>4. mem \in DeployInfo
    BY DEF TInv, TypeOK
  <1>5. /\ Rest(todo')
        /\ mem' \in DeployInfo /\ info' \in DeployInfo \cup {Absent, Unreadable}
        /\ mishaps' \in 0..MaxMishaps
        /\ (Changed(mem') => Changed(mem)) \/ (h \in Preparers /\ todo' = Tail(todo))
    <2>1. CASE mem' = Updated(h) /\ info' = mem' /\ Proceed /\ UNCHANGED mishaps
      <3>1. h.op = "status" =>
              /\ Updated(h) \in DeployInfo
              /\ Updated(h).config_status = mem.config_status
        BY <1>2, <1>4 DEF Updated, DeployInfo, Good
      <3>2. h.op = "config_status" => Updated(h) \in DeployInfo
        BY <1>2, <1>4 DEF Updated, DeployInfo, Good
      <3>3. h.op = "info" => Updated(h) = mem
        BY DEF Updated
      <3>4. QED  BY <3>1, <3>2, <3>3, <2>1, <1>1, <1>2, <1>4 DEF Proceed, Changed, TInv, TypeOK
    <2>2. CASE Mishap("write") /\ Fail /\ UNCHANGED <<mem, info>>
      BY <2>2, <1>3, <1>4, MishapTyped DEF TInv, TypeOK
    <2>3. CASE Mishap("torn") /\ info' = Unreadable /\ (Fail \/ Abort) /\ UNCHANGED mem
      BY <2>3, <1>2, <1>3, <1>4, MishapTyped DEF TInv, Abort
    <2>4. QED  BY <2>1, <2>2, <2>3 DEF DumpDeployInfo
  <1>6. Readable => Readable'
    BY <1>1 DEF Readable, None, Garbled
  <1>7. (Formed /\ Configured /\ Waiting)'
    <2>1. \/ tmp' = tmp /\ (Changed(mem') => Changed(mem))
          \/ h \in Preparers /\ todo' \in {<<>>, Tail(todo)}
      BY <1>1, <1>5
    <2> HIDE DEF h
    <2>2. QED  BY <2>1, <1>1, <1>2, <1>5, <1>6, StepKeeps DEF TInv, h
  <1>8. TypeOK'
    BY <1>1, <1>5, <1>7, FilesTyped DEF TInv, TypeOK
  <1>9. QED  BY <1>7, <1>8 DEF TInv

LEMMA CreateDeployConfigStep ==
    ASSUME TInv, CreateDeployConfig
    PROVE  TInv'
  <1>1. /\ todo # <<>> /\ Head(todo).op = "create" /\ opts' = opts /\ mem' = Loaded
        /\ UNCHANGED <<cluster, done, saved, edits>>
    BY DEF CreateDeployConfig, Doing
  <1>2. /\ todo \in Program /\ Rest(<<>>) /\ Rest(Tail(todo))
        /\ Head(todo) \notin Installs /\ Head(todo) \in Preparers
        /\ opts.version \in Versions
    BY <1>1, HeadKind
  <1>3. mem' \in DeployInfo /\ mem'.config_status \in ConfigStatus
    BY <1>1, LoadedTyped DEF TInv
  <1>4. /\ todo' = <<>> \/ (todo' = Tail(todo) /\ config' = opts.version)
        /\ info' \in DeployInfo \cup {Absent, Unreadable}
        /\ config' \in {None, Garbled} \cup Versions /\ tmp' \in {None, Garbled} \cup Versions
        /\ mishaps' \in 0..MaxMishaps
    BY <1>1, <1>2, MishapTyped DEF CreateDeployConfig, Proceed, Abort, TInv, TypeOK
  <1>5. todo' = <<>> \/ Readable'
    BY <1>2, <1>4 DEF Readable, Versions, None, Garbled
  <1>6. (Formed /\ Configured /\ Waiting)'
    BY <1>1, <1>2, <1>4, <1>5, StepKeeps DEF TInv
  <1>7. TypeOK'
    BY <1>1, <1>3, <1>4, <1>6, FilesTyped DEF TInv, TypeOK
  <1>8. QED  BY <1>6, <1>7 DEF TInv

LEMMA CopyTempConfigStep ==
    ASSUME TInv, CopyTempConfig
    PROVE  TInv'
  <1>1. /\ todo # <<>> /\ Head(todo).op = "copy" /\ opts' = opts
        /\ UNCHANGED <<info, config, mem, cluster, done, saved, edits>>
    BY DEF CopyTempConfig, Doing
  <1>2. /\ todo \in Program /\ Rest(<<>>) /\ Rest(Tail(todo))
        /\ Head(todo) \notin Installs /\ Head(todo) \in Preparers
        /\ opts.version \in Versions
    BY <1>1, HeadKind
  <1>3. /\ todo' \in {<<>>, Tail(todo)}
        /\ tmp' \in {None, Garbled} \cup Versions
        /\ mishaps' \in 0..MaxMishaps
    BY <1>2, MishapTyped DEF CopyTempConfig, Proceed, Abort, TInv, TypeOK
  <1>4. Readable => Readable'
    BY <1>1 DEF Readable, None, Garbled
  <1>5. (Formed /\ Configured /\ Waiting)'
    BY <1>1, <1>2, <1>3, <1>4, StepKeeps DEF TInv
  <1>6. TypeOK'
    BY <1>1, <1>3, <1>5, FilesTyped DEF TInv, TypeOK
  <1>7. QED  BY <1>5, <1>6 DEF TInv

LEMMA ApplyTempConfigStep ==
    ASSUME TInv, ApplyTempConfig
    PROVE  TInv'
  <1> DEFINE p == S("config_status", "UNCHNAGE", "ignore")
  <1>1. /\ todo # <<>> /\ Head(todo).op = "apply" /\ opts' = opts
        /\ UNCHANGED <<info, mem, cluster, done, saved, edits, mishaps>>
    BY DEF ApplyTempConfig, Doing
  <1>2. /\ todo \in Program /\ Rest(<<>>) /\ Rest(Tail(todo))
        /\ Head(todo) \notin Installs /\ Head(todo) \in Preparers /\ Head(todo) \in Spoilers
    BY <1>1, HeadKind
  <1>3. (Formed /\ Configured /\ Waiting)'
    <2>1. CASE todo' = p \o Tail(todo)
      <3>1. p \in Runs({"config_status"})
        BY KnownSteps
      <3>2. ~Has(p, Writers)
        BY StepWriter
      <3> HIDE DEF p
      <3>3. p \in Program /\ ~Has(p, Users) /\ ~Has(p, Installs) /\ ~Has(p, Spoilers)
        BY <3>1, NoneOf
      <3>4. QED  BY <2>1, <1>1, <1>2, <3>2, <3>3, InsertKeeps DEF TInv
    <2>2. CASE tmp = None /\ Fail /\ UNCHANGED <<config, tmp>>
      <3>1. Rest(todo')
        BY <1>1, <1>2, <2>2, FailLeavesRest
      <3>2. Readable => Readable'
        BY <2>2 DEF Readable, None, Garbled
      <3>3. QED  BY <2>2, <1>1, <1>2, <3>1, <3>2, StepKeeps DEF TInv
    <2>3. QED  BY <2>1, <2>2 DEF ApplyTempConfig
  <1>4. config' \in {None, Garbled} \cup Versions /\ tmp' \in {None, Garbled} \cup Versions
    BY DEF ApplyTempConfig, TInv, TypeOK
  <1>5. TypeOK'
    BY <1>1, <1>3, <1>4, FilesTyped DEF TInv, TypeOK
  <1>6. QED  BY <1>3, <1>5 DEF TInv

LEMMA ReapplyTempConfigStep ==
    ASSUME TInv, ReapplyTempConfig
    PROVE  TInv'
  <1> DEFINE p == When(Changed(mem), S("apply", "", "abort"))
  <1>1. /\ todo # <<>> /\ Head(todo).op = "reapply" /\ opts' = opts
        /\ todo' = p \o Tail(todo)
        /\ UNCHANGED <<info, config, tmp, mem, cluster, done, saved, edits, mishaps>>
    BY DEF ReapplyTempConfig, Doing, disk
  <1>2. Head(todo) \notin Installs /\ Head(todo) \in Preparers /\ Head(todo) \in Spoilers
    BY <1>1, HeadKind
  <1>3. p \in Runs({"apply"})
    BY KnownSteps, WhenRuns
  <1> HIDE DEF p
  <1>4. p \in Program /\ ~Has(p, Users) /\ ~Has(p, Installs) /\ ~Has(p, Writers)
    BY <1>3, NoneOf
  <1>5. (Formed /\ Configured /\ Waiting)'
    BY <1>1, <1>2, <1>4, InsertKeeps DEF TInv
  <1>6. TypeOK'
    BY <1>1, <1>5, FilesTyped DEF TInv, TypeOK
  <1>7. QED  BY <1>5, <1>6 DEF TInv

LEMMA DumpDeployConfigStep ==
    ASSUME TInv, DumpDeployConfig
    PROVE  TInv'
  <1>1. /\ todo # <<>> /\ Head(todo).op = "dump" /\ opts' = opts
        /\ UNCHANGED <<info, tmp, mem, cluster, done, saved, edits>>
    BY DEF DumpDeployConfig, Doing
  <1>2. /\ todo \in Program /\ Rest(<<>>) /\ Rest(Tail(todo)) /\ Head(todo) \notin Installs
    BY <1>1, HeadKind
  <1>3. Fail => Rest(todo')
    BY <1>1, <1>2, FailLeavesRest
  <1>4. /\ Rest(todo') /\ mishaps' \in 0..MaxMishaps
        /\ config' \in {None, Garbled} \cup Versions
        /\ todo' = <<>> \/ config' = config
    BY <1>2, <1>3, MishapTyped DEF DumpDeployConfig, Proceed, Abort, TInv, TypeOK
  <1>5. todo' = <<>> \/ (Readable => Readable')
    BY <1>4 DEF Readable, None, Garbled
  <1>6. (Formed /\ Configured /\ Waiting)'
    BY <1>1, <1>2, <1>4, <1>5, StepKeeps DEF TInv
  <1>7. TypeOK'
    BY <1>1, <1>4, <1>6, FilesTyped DEF TInv, TypeOK
  <1>8. QED  BY <1>6, <1>7 DEF TInv

LEMMA SaveStep ==
    ASSUME TInv, Save
    PROVE  TInv'
  <1>1. /\ todo # <<>> /\ Head(todo).op = "save" /\ opts' = opts /\ todo' = Tail(todo)
        /\ saved' = {opts.version}
        /\ UNCHANGED <<info, config, tmp, mem, cluster, done, edits, mishaps>>
    BY DEF Save, Doing, Proceed, disk
  <1>2. /\ todo \in Program /\ Rest(Tail(todo)) /\ Head(todo) \notin Installs
        /\ opts.version \in Versions
    BY <1>1, HeadKind
  <1>3. Readable => Readable'
    BY <1>1 DEF Readable, None, Garbled
  <1>4. (Formed /\ Configured /\ Waiting)'
    BY <1>1, <1>2, <1>3, StepKeeps DEF TInv
  <1>5. TypeOK'
    BY <1>1, <1>2, <1>4, FilesTyped DEF TInv, TypeOK
  <1>6. QED  BY <1>4, <1>5 DEF TInv

LEMMA FileSteps ==
    ASSUME TInv, FileStep
    PROVE  TInv'
  BY DumpDeployInfoStep, CreateDeployConfigStep, CopyTempConfigStep, ApplyTempConfigStep,
     ReapplyTempConfigStep, DumpDeployConfigStep, SaveStep
     DEF FileStep

-----------------------------------------------------------------------------
(* The steps on servers.                                                     *)

LEMMA TargetsTyped ==
    ASSUME TypeOK
    PROVE  Targets \subseteq Instances /\ Chosen \subseteq Targets
  <1>1. opts.comps \in ComponentLists
    BY DEF TypeOK, Options
  <1>2. Targets \subseteq Instances
    BY <1>1, Constants DEF Targets, Instances
  <1>3. QED  BY <1>2 DEF Chosen

LEMMA GivenTyped ==
    ASSUME TypeOK, NEW started, NEW c \in Versions
    PROVE  GivenTo(started, c) \in [Instances -> {None} \cup Versions]
  <1>1. \A i \in Instances : runs[i] \in {None} \cup Versions
    BY DEF TypeOK
  <1>2. QED  BY <1>1 DEF GivenTo

LEMMA RemoveTyped ==
    ASSUME TypeOK, NEW removed, RemoveFiles(removed)
    PROVE  up' = up \ removed /\ lost' \subseteq Instances
  BY DEF TypeOK, RemoveFiles

\* A step on servers leaves the files of the deployment alone.
LEMMA ServersTyped ==
    ASSUME TInv, Formed', UNCHANGED <<disk, mem, opts, saved, edits>>,
           mishaps' \in 0..MaxMishaps,
           files' \subseteq Instances, up' \subseteq files', lost' \subseteq Instances,
           stayed' \subseteq Instances,
           runs' \in [Instances -> {None} \cup Versions], done' \subseteq Instances
    PROVE  TypeOK'
  <1>1. todo' \in Seq(Step)
    BY ProgramSeq DEF Formed
  <1>2. QED  BY <1>1 DEF TInv, TypeOK, disk, Versions

LEMMA StayTyped ==
    ASSUME TypeOK
    PROVE  /\ mishaps \in 0..MaxMishaps
           /\ \A kept : Stay(kept) =>
                /\ mishaps' \in 0..MaxMishaps
                /\ mishaps' = mishaps \/ mishaps' = mishaps + 1
                /\ kept # {} => Mishap("stay")
  <1>1. mishaps \in 0..MaxMishaps
    BY DEF TypeOK
  <1>2. Mishap("stay") => mishaps' \in 0..MaxMishaps /\ mishaps' = mishaps + 1
    BY MishapTyped DEF Mishap
  <1>3. QED  BY <1>1, <1>2 DEF Stay

LEMMA ServersKeep ==
    ASSUME TInv, todo # <<>>, Rest(todo'), UNCHANGED <<disk, mem, opts>>,
           Head(todo).op # "install"
    PROVE  (Formed /\ Configured /\ Waiting)'
  <1>1. Head(todo) \notin Installs
    BY HeadKind
  <1>2. /\ config' = config /\ tmp' = tmp /\ mem' = mem /\ opts' = opts
        /\ Readable => Readable'
    BY DEF disk, Readable, None, Garbled
  <1>3. QED  BY <1>1, <1>2, StepKeeps DEF TInv

LEMMA InstallStep ==
    ASSUME TInv, InstallRepositories
    PROVE  TInv'
  <1>1. /\ todo # <<>> /\ Head(todo).op = "install"
        /\ UNCHANGED <<disk, mem, opts, stayed, done, saved, edits, mishaps>>
    BY DEF InstallRepositories, Doing
  <1>2. /\ todo \in Program /\ Head(todo) \in Good /\ Rest(<<>>) /\ Rest(Tail(todo))
    BY <1>1, HeadKind
  <1>3. Fail => todo' = <<>>
    <2>1. Head(todo).orelse = "abort"
      BY <1>1, <1>2 DEF Good
    <2>2. QED  BY <2>1, <1>1, <1>2, FailLeavesRest
  <1>4. todo' = <<>> \/ (todo' = Tail(todo) /\ Readable)
    BY <1>3 DEF InstallRepositories, Proceed
  <1>5. /\ config' = config /\ tmp' = tmp /\ mem' = mem /\ opts' = opts
        /\ Readable => Readable'
    BY <1>1 DEF disk, Readable, None, Garbled
  <1>6. (Formed /\ Configured /\ Waiting)'
    BY <1>1, <1>2, <1>4, <1>5, StepKeeps DEF TInv
  <1>7. /\ files \subseteq Instances /\ up \subseteq files /\ lost \subseteq Instances
        /\ runs \in [Instances -> {None} \cup Versions] /\ done \subseteq Instances
        /\ stayed \subseteq Instances /\ mishaps \in 0..MaxMishaps
    BY DEF TInv, TypeOK
  <1>8. /\ files' \subseteq Instances /\ up' \subseteq files' /\ lost' \subseteq Instances
        /\ runs' \in [Instances -> {None} \cup Versions] /\ done' \subseteq Instances
    <2>1. CASE /\ Readable /\ (files = {} \/ opts.force)
               /\ files' = Instances /\ runs' = [i \in Instances |-> None]
               /\ RemoveFiles(Instances) /\ Proceed
      BY <2>1, <1>1, <1>7, RemoveTyped DEF TInv
    <2>2. CASE \E some \in SUBSET Instances :
                  LET cleaned == IF opts.force THEN some ELSE some \ files IN
                  /\ Readable
                  /\ files' = files \cup some
                  /\ runs' = [i \in Instances |-> IF i \in cleaned THEN None ELSE runs[i]]
                  /\ RemoveFiles(cleaned)
                  /\ Fail
      <3>1. PICK some \in SUBSET Instances :
                  /\ files' = files \cup some
                  /\ runs' = [i \in Instances |->
                                IF i \in (IF opts.force THEN some ELSE some \ files)
                                THEN None ELSE runs[i]]
                  /\ RemoveFiles(IF opts.force THEN some ELSE some \ files)
        BY <2>2
      <3>2. \A i \in Instances : runs[i] \in {None} \cup Versions
        BY <1>7
      <3>3. runs' \in [Instances -> {None} \cup Versions]
        BY <3>1, <3>2
      <3>4. up' \subseteq up /\ lost' \subseteq Instances
        BY <3>1, RemoveTyped DEF TInv
      <3>5. QED  BY <3>1, <3>3, <3>4, <1>1, <1>7
    <2>3. CASE ~Readable /\ Fail /\ UNCHANGED <<up, lost, files, runs>>
      BY <2>3, <1>1, <1>7
    <2>4. QED  BY <2>1, <2>2, <2>3 DEF InstallRepositories
  <1>9. TypeOK'
    BY <1>1, <1>6, <1>7, <1>8, ServersTyped
  <1>10. QED  BY <1>6, <1>9 DEF TInv

LEMMA StartStep ==
    ASSUME TInv, StartServers
    PROVE  TInv'
  <1>1. /\ todo # <<>> /\ Head(todo).op = "start"
        /\ UNCHANGED <<disk, mem, opts, lost, files, saved, edits, mishaps>>
    BY DEF StartServers, Doing
  <1>2. todo \in Program /\ Rest(Tail(todo)) /\ config \in Versions
    BY <1>1, HeadKind
  <1>3. Rest(todo')
    BY <1>1, <1>2, FailLeavesRest DEF StartServers, Proceed
  <1>4. (Formed /\ Configured /\ Waiting)'
    BY <1>1, <1>3, ServersKeep
  <1>5. /\ files \subseteq Instances /\ up \subseteq files /\ lost \subseteq Instances
        /\ done \subseteq Instances /\ stayed \subseteq Instances /\ mishaps \in 0..MaxMishaps
        /\ Targets \subseteq Instances /\ Startable \subseteq files
    BY TargetsTyped DEF TInv, TypeOK, Startable
  <1>6. /\ up' \subseteq files /\ done' \subseteq Instances /\ stayed' \subseteq Instances
        /\ runs' \in [Instances -> {None} \cup Versions]
    <2>1. CASE /\ Targets \subseteq Startable
               /\ up' = up \cup Targets
               /\ runs' = GivenTo(Targets \ up, config)
               /\ stayed' = stayed \ (Targets \ up)
               /\ done' = done \cup Targets
               /\ Proceed
      BY <2>1, <1>2, <1>5, GivenTyped DEF TInv
    <2>2. CASE \E some \in SUBSET (Targets \cap Startable) :
                  /\ up' = up \cup some
                  /\ runs' = GivenTo(some \ up, config)
                  /\ stayed' = stayed \ (some \ up)
                  /\ Fail /\ UNCHANGED done
      BY <2>2, <1>2, <1>5, GivenTyped DEF TInv
    <2>3. QED  BY <2>1, <2>2 DEF StartServers
  <1>7. TypeOK'
    BY <1>1, <1>4, <1>5, <1>6, ServersTyped
  <1>8. QED  BY <1>4, <1>7 DEF TInv

LEMMA StopStep ==
    ASSUME TInv, StopServers
    PROVE  TInv'
  <1>1. /\ todo # <<>> /\ Head(todo).op = "stop"
        /\ UNCHANGED <<disk, mem, opts, lost, files, runs, done, saved, edits>>
    BY DEF StopServers, Doing
  <1>2. todo \in Program /\ Rest(Tail(todo))
    BY <1>1, HeadKind
  <1>3. Rest(todo')
    BY <1>1, <1>2, FailLeavesRest DEF StopServers, Proceed
  <1>4. (Formed /\ Configured /\ Waiting)'
    BY <1>1, <1>3, ServersKeep
  <1>5. /\ files \subseteq Instances /\ up \subseteq files /\ lost \subseteq Instances
        /\ runs \in [Instances -> {None} \cup Versions] /\ done \subseteq Instances
        /\ stayed \subseteq Instances /\ mishaps \in 0..MaxMishaps
    BY DEF TInv, TypeOK
  <1>6. up' \subseteq up /\ stayed' \subseteq Instances /\ mishaps' \in 0..MaxMishaps
    <2>1. ASSUME NEW kept \in SUBSET (Chosen \cap up), up' = (up \ Chosen) \cup kept,
                 stayed' = stayed \cup kept, Stay(kept)
          PROVE  up' \subseteq up /\ stayed' \subseteq Instances /\ mishaps' \in 0..MaxMishaps
      BY <2>1, <1>5, StayTyped DEF TInv
    <2>2. ASSUME NEW some \in SUBSET Chosen, up' = up \ some, UNCHANGED <<stayed, mishaps>>
          PROVE  up' \subseteq up /\ stayed' \subseteq Instances /\ mishaps' \in 0..MaxMishaps
      BY <2>2, <1>5
    <2>3. QED  BY <2>1, <2>2 DEF StopServers
  <1>7. TypeOK'
    BY <1>1, <1>4, <1>5, <1>6, ServersTyped
  <1>8. QED  BY <1>4, <1>7 DEF TInv

LEMMA RestartStep ==
    ASSUME TInv, RestartServers
    PROVE  TInv'
  <1> DEFINE new == IF opts.wp /\ Changed(mem) THEN tmp ELSE config
  <1>1. /\ todo # <<>> /\ Head(todo).op = "restart"
        /\ UNCHANGED <<disk, mem, opts, lost, files, saved, edits>>
    BY DEF RestartServers, Doing
  <1>2. todo \in Program /\ Rest(Tail(todo)) /\ new \in Versions
    BY <1>1, HeadKind
  <1>3. Rest(todo')
    BY <1>1, <1>2, FailLeavesRest DEF RestartServers, Proceed
  <1>4. (Formed /\ Configured /\ Waiting)'
    BY <1>1, <1>3, ServersKeep
  <1>5. /\ files \subseteq Instances /\ up \subseteq files /\ lost \subseteq Instances
        /\ done \subseteq Instances /\ stayed \subseteq Instances /\ mishaps \in 0..MaxMishaps
        /\ Chosen \subseteq Instances /\ Startable \subseteq files
    BY TargetsTyped DEF TInv, TypeOK, Startable
  <1>6. /\ up' \subseteq files /\ done' \subseteq Instances /\ stayed' \subseteq Instances
        /\ runs' \in [Instances -> {None} \cup Versions] /\ mishaps' \in 0..MaxMishaps
    <2>1. CASE /\ Chosen \subseteq Startable
               /\ \E kept \in SUBSET (Chosen \cap up) :
                    /\ runs' = GivenTo(Chosen \ kept, new)
                    /\ stayed' = (stayed \ Chosen) \cup kept
                    /\ Stay(kept)
               /\ up' = up \cup Chosen
               /\ done' = done \cup Chosen
               /\ Proceed
      <3>1. PICK kept \in SUBSET (Chosen \cap up) :
                    /\ runs' = GivenTo(Chosen \ kept, new)
                    /\ stayed' = (stayed \ Chosen) \cup kept
                    /\ Stay(kept)
        BY <2>1
      <3>2. runs' \in [Instances -> {None} \cup Versions] /\ mishaps' \in 0..MaxMishaps
        BY <3>1, <1>2, GivenTyped, StayTyped DEF TInv
      <3>3. QED  BY <2>1, <3>1, <3>2, <1>5
    <2>2. CASE \E stopped \in SUBSET Chosen : \E some \in SUBSET (stopped \cap Startable) :
                  /\ up' = (up \ stopped) \cup some
                  /\ runs' = GivenTo(some, new)
                  /\ stayed' = stayed \ some
                  /\ Fail /\ UNCHANGED <<done, mishaps>>
      BY <2>2, <1>2, <1>5, GivenTyped DEF TInv
    <2>3. QED  BY <2>1, <2>2 DEF RestartServers
  <1>7. TypeOK'
    BY <1>1, <1>4, <1>5, <1>6, ServersTyped
  <1>8. QED  BY <1>4, <1>7 DEF TInv

LEMMA ReloadStep ==
    ASSUME TInv, ReloadServers
    PROVE  TInv'
  <1>1. /\ todo # <<>> /\ Head(todo).op = "reload"
        /\ UNCHANGED <<disk, mem, opts, up, lost, files, stayed, done, saved, edits, mishaps>>
    BY DEF ReloadServers, Doing
  <1>2. todo \in Program /\ Rest(Tail(todo)) /\ tmp \in Versions
    BY <1>1, HeadKind
  <1>3. Rest(todo')
    BY <1>1, <1>2, FailLeavesRest DEF ReloadServers, Proceed
  <1>4. (Formed /\ Configured /\ Waiting)'
    BY <1>1, <1>3, ServersKeep
  <1>5. \E some : runs' = [i \in Instances |-> IF i \in some THEN tmp ELSE runs[i]]
    BY DEF ReloadServers
  <1>6. \A i \in Instances : runs[i] \in {None} \cup Versions
    BY DEF TInv, TypeOK
  <1>7. runs' \in [Instances -> {None} \cup Versions]
    BY <1>2, <1>5, <1>6
  <1>8. TypeOK'
    <2>1. /\ files \subseteq Instances /\ up \subseteq files /\ lost \subseteq Instances
          /\ done \subseteq Instances /\ stayed \subseteq Instances /\ mishaps \in 0..MaxMishaps
      BY DEF TInv, TypeOK
    <2>2. QED  BY <2>1, <1>1, <1>4, <1>7, ServersTyped
  <1>9. QED  BY <1>4, <1>8 DEF TInv

LEMMA CheckStep ==
    ASSUME TInv, CheckServers
    PROVE  TInv'
  <1> DEFINE a == S("status", "RUNNING", "ignore")
             b == StopSteps(<<>>, {}, mem.status)
  <1>1. /\ todo # <<>> /\ Head(todo).op = "check"
        /\ UNCHANGED <<disk, mem, opts, cluster, done, saved, edits, mishaps>>
    BY DEF CheckServers, Doing
  <1>2. /\ todo \in Program /\ Rest(Tail(todo))
        /\ Head(todo) \notin Installs
    BY <1>1, HeadKind
  <1>3. (Formed /\ Configured /\ Waiting)'
    <2>1. CASE Proceed \/ Fail
      <3>1. Rest(todo')
        BY <1>1, <1>2, <2>1, FailLeavesRest DEF Proceed
      <3>2. QED  BY <1>1, <3>1, ServersKeep
    <2>2. CASE todo' = (a \o b) \o Tail(todo)
      <3>1. mem.status \in Status /\ "RUNNING" \in Status
        BY DEF TInv, TypeOK, DeployInfo, Status
      <3>2. a \in Runs({"stop", "status"}) /\ b \in Runs({"stop", "status"})
        BY <3>1, KnownSteps, StopProgram
      <3> DEFINE p == a \o b
      <3> HIDE DEF a, b
      <3>3. p \in Runs({"stop", "status"})
        BY <3>2, RunsConcat
      <3> HIDE DEF p
      <3>4. /\ p \in Program /\ ~Has(p, Writers) /\ ~Has(p, Users) /\ ~Has(p, Installs)
            /\ ~Has(p, Spoilers) /\ ~Has(p, Preparers)
        BY <3>3, NoneOf
      <3>5. /\ config' = config /\ tmp' = tmp /\ mem' = mem /\ opts' = opts
            /\ Readable => Readable'
        BY <1>1 DEF disk, Readable, None, Garbled
      <3>6. todo' = p \o Tail(todo)
        BY <2>2 DEF p
      <3>7. QED  BY <1>1, <1>2, <3>4, <3>5, <3>6, InsertKeeps DEF TInv
    <2>3. QED  BY <2>1, <2>2 DEF CheckServers
  <1>4. TypeOK'
    <2>1. UNCHANGED <<up, lost, files, runs, stayed, done>>
      BY <1>1 DEF cluster
    <2>2. QED  BY <2>1, <1>1, <1>3, ServersTyped DEF TInv, TypeOK
  <1>5. QED  BY <1>3, <1>4 DEF TInv

LEMMA WipeStep ==
    ASSUME TInv, WipeServers
    PROVE  TInv'
  <1>1. /\ todo # <<>> /\ Head(todo).op = "wipe" /\ todo' = Tail(todo)
        /\ UNCHANGED <<disk, mem, opts, runs, stayed, done, saved, edits, mishaps>>
    BY DEF WipeServers, Doing, Proceed
  <1>2. Rest(todo')
    BY <1>1, HeadKind
  <1>3. (Formed /\ Configured /\ Waiting)'
    BY <1>1, <1>2, ServersKeep
  <1>4. PICK some \in SUBSET Instances : files' = files \ some /\ RemoveFiles(some)
    BY DEF WipeServers
  <1>5. up' = up \ some /\ lost' \subseteq Instances
    BY <1>4, RemoveTyped DEF TInv
  <1>6. TypeOK'
    <2>1. /\ files \subseteq Instances /\ up \subseteq files
          /\ runs \in [Instances -> {None} \cup Versions] /\ done \subseteq Instances
          /\ stayed \subseteq Instances /\ mishaps \in 0..MaxMishaps
      BY DEF TInv, TypeOK
    <2>2. QED  BY <2>1, <1>1, <1>3, <1>4, <1>5, ServersTyped
  <1>7. QED  BY <1>3, <1>6 DEF TInv

LEMMA ServerSteps ==
    ASSUME TInv, ServerStep
    PROVE  TInv'
  BY InstallStep, StartStep, StopStep, RestartStep, ReloadStep, CheckStep, WipeStep
     DEF ServerStep

-----------------------------------------------------------------------------
LEMMA FinishStep ==
    ASSUME TInv, Finish
    PROVE  TInv'
  <1>1. /\ todo = <<>> /\ todo' = <<>> /\ opts' = Idle /\ mem' = Fresh /\ done' = {}
        /\ UNCHANGED <<info, config, tmp, up, lost, files, runs, stayed, saved, edits, mishaps>>
    BY DEF Finish, disk, cluster
  <1>2. TypeOK'
    BY <1>1, Constants DEF TInv, TypeOK, Versions
  <1>3. Formed' /\ Configured' /\ Waiting'
    BY <1>1, OfNone, NoStep, ProgramRuns DEF Formed, Configured, Waiting
  <1>4. QED  BY <1>2, <1>3 DEF TInv

LEMMA CrashStep ==
    ASSUME TInv, Crash
    PROVE  TInv'
  <1>1. /\ todo # <<>> /\ todo' = <<>>
        /\ UNCHANGED <<disk, mem, opts, cluster, done, saved, edits>>
        /\ mishaps' \in 0..MaxMishaps
    BY MishapTyped DEF Crash, Abort, TInv
  <1>2. TypeOK'
    BY <1>1, NoStep DEF TInv, TypeOK, disk, cluster, Versions
  <1>3. Formed' /\ Configured' /\ Waiting'
    BY <1>1, OfNone, NoStep, ProgramRuns DEF Formed, Configured, Waiting, TInv, Idle, Versions
  <1>4. QED  BY <1>2, <1>3 DEF TInv

LEMMA DieStep ==
    ASSUME TInv, NEW i \in Instances, Die(i)
    PROVE  TInv'
  <1>1. /\ up' = up \ {i} /\ lost' = lost \ {i} /\ mishaps' \in 0..MaxMishaps
        /\ UNCHANGED <<info, config, tmp, mem, todo, opts, files, runs, stayed, done, saved, edits>>
    BY MishapTyped DEF Die, disk, TInv
  <1>2. TypeOK'
    BY <1>1 DEF TInv, TypeOK, Versions
  <1>3. Formed' /\ Configured' /\ Waiting'
    BY <1>1 DEF TInv, Formed, Configured, Waiting, Readable, Versions
  <1>4. QED  BY <1>2, <1>3 DEF TInv

LEMMA TInvInit ==
    ASSUME Init
    PROVE  TInv
  <1>1. TypeOK
    BY Constants DEF Init, TypeOK, Versions
  <1>2. Formed /\ Configured /\ Waiting
    BY OfNone, NoStep, ProgramRuns DEF Init, Formed, Configured, Waiting
  <1>3. QED  BY <1>1, <1>2 DEF TInv

LEMMA TInvNext ==
    ASSUME TInv, [Next]_vars
    PROVE  TInv'
  <1>1. CASE UNCHANGED vars
    BY <1>1 DEF vars, TInv, TypeOK, Formed, Configured, Waiting, Readable, Versions
  <1>2. CASE Next
    BY <1>2, CommandStep, FileSteps, ServerSteps, FinishStep, CrashStep, DieStep DEF Next
  <1>3. QED  BY <1>1, <1>2

LEMMA TInvAlways == Spec => []TInv
  BY TInvInit, TInvNext, PTL DEF Spec

\* The state of a deployment has its types; above all, no server is ever
\* started, restarted or reloaded with a configuration that is missing or
\* cannot be read, whatever fails and wherever obd is killed (core.py, the
\* checks before the commands and the order of their steps).
THEOREM LifecycleTypeCorrect == Spec => []TypeOK
  <1>1. TInv => TypeOK
    BY DEF TInv
  <1>2. QED  BY <1>1, TInvAlways, PTL

-----------------------------------------------------------------------------
(* Where an edit is, as long as nothing but a workflow has failed.           *)

Applies == Of({"apply"})
Marks   == Of({"config_status"})
Creates == Of({"create"})
Copies  == Of({"copy"})
Saves   == Of({"save"})

Unmark == S("config_status", "UNCHNAGE", "ignore")
Edited == S("create", "", "abort") \o S("save", "", "abort") \o DeploySteps
ToTemp == S("copy", "", "ignore") \o S("save", "", "abort")
ToLive == Unmark \o S("dump", "", "ignore") \o S("save", "", "abort")

\* No step that changes the configurations is still to be done.
Settled == ~Has(todo, Creates) /\ ~Has(todo, Copies) /\ ~Has(todo, Marks)

\* A new configuration that is to replace the one in force.
Replacing ==
    Has(todo, Creates) =>
        \/ todo = NewConfig("UNCHNAGE")
        \/ todo = Edited /\ ~Changed(mem)
        \/ todo = S("apply", "", "abort") \o Edited /\ Effective \in saved
        \/ todo = Unmark \o Edited

\* A new configuration that is to wait.
Postponing ==
    Has(todo, Copies) =>
        \/ \E k \in ConfigStatus \ {"UNCHNAGE"} : todo = NewConfig(k)
        \/ todo = ToTemp /\ Changed(mem)

\* The configuration in force is the one the user wants, but still marked as
\* changed.
Unmarking ==
    Has(todo, Marks) /\ ~Has(todo, Creates) /\ ~Has(todo, Copies) =>
        /\ Head(todo).op = "config_status" /\ Head(todo).arg = "UNCHNAGE"
        /\ ~Has(Tail(todo), Marks)
        /\ config \in saved
        /\ Has(todo, Saves) => config = opts.version

Remembered ==
    mishaps = 0 =>
        /\ opts # Idle => mem = Loaded
        /\ Never(todo, Spoilers, Applies)
        /\ Has(todo, Applies) => Changed(mem) /\ ~Has(todo, Marks)
        /\ Has(todo, Creates) \/ Has(todo, Copies) \/ Has(todo, Saves) => opts.version \in saved
        /\ Settled => Effective \in saved /\ (Has(todo, Saves) => Effective = opts.version)
        /\ Replacing /\ Postponing /\ Unmarking

EInv == TInv /\ Remembered

-----------------------------------------------------------------------------
(* The programs that write a configuration, step by step.                    *)

LEMMA OneThen ==
    ASSUME NEW T, NEW x \in T, NEW s \in Seq(T)
    PROVE  /\ <<x>> \o s \in Seq(T) /\ <<x>> \o s # <<>>
           /\ Head(<<x>> \o s) = x /\ Tail(<<x>> \o s) = s
  <1> DEFINE u == <<x>> \o s
  <1>1. <<x>> \in Seq(T) /\ Len(<<x>>) = 1 /\ <<x>>[1] = x
    OBVIOUS
  <1>2. /\ u \in Seq(T) /\ Len(u) = 1 + Len(s)
        /\ \A i \in 1..(1 + Len(s)) : u[i] = IF i <= 1 THEN <<x>>[i] ELSE s[i - 1]
    BY <1>1, ConcatProperties
  <1>3. Len(s) \in Nat
    BY LenProperties
  <1> HIDE DEF u
  <1>4. u # <<>>
    BY <1>2, <1>3, EmptySeq
  <1>5. Head(u) = x
    <2>1. Head(u) = u[1]  BY <1>2
    <2>2. u[1] = <<x>>[1]  BY <1>2, <1>3
    <2>3. QED  BY <2>1, <2>2, <1>1
  <1>6. Tail(u) = s
    <2>1. /\ Tail(u) \in Seq(T) /\ Len(Tail(u)) = Len(u) - 1
          /\ \A i \in 1..Len(Tail(u)) : Tail(u)[i] = u[i + 1]
      BY <1>2, <1>4, HeadTailProperties
    <2>2. Len(Tail(u)) = Len(s)
      BY <2>1, <1>2, <1>3
    <2>3. ASSUME NEW i \in 1..Len(s)
          PROVE  Tail(u)[i] = s[i]
      <3>1. i + 1 \in 1..(1 + Len(s)) /\ ~(i + 1 <= 1) /\ (i + 1) - 1 = i
        BY <1>3
      <3>2. QED  BY <3>1, <2>1, <2>2, <1>2
    <2>4. QED  BY <2>1, <2>2, <2>3, SeqEqual
  <1>7. QED  BY <1>2, <1>4, <1>5, <1>6 DEF u

HeadIs(s, op, arg, orelse) ==
    Head(s).op = op /\ Head(s).arg = arg /\ Head(s).orelse = orelse

\* A step before the steps s.
Before(op, arg, orelse, s) ==
    LET u == S(op, arg, orelse) \o s IN
    /\ S(op, arg, orelse) \in Seq(Good) /\ u \in Seq(Good) /\ u # <<>>
    /\ HeadIs(u, op, arg, orelse) /\ Tail(u) = s

LEMMA StepThen ==
    ASSUME NEW op, NEW arg, NEW orelse,
           [op |-> op, arg |-> arg, orelse |-> orelse] \in Good, NEW s \in Seq(Good)
    PROVE  Before(op, arg, orelse, s)
  <1> DEFINE x == [op |-> op, arg |-> arg, orelse |-> orelse]
  <1>1. x.op = op /\ x.arg = arg /\ x.orelse = orelse
    OBVIOUS
  <1>2. S(op, arg, orelse) = <<x>> /\ <<x>> \in Seq(Good) /\ x \in Good
    BY DEF S
  <1> HIDE DEF x
  <1>3. QED  BY <1>1, <1>2, OneThen DEF Before, HeadIs

LEMMA GoodSteps ==
    /\ [op |-> "create", arg |-> "", orelse |-> "abort"] \in Good
    /\ [op |-> "config_status", arg |-> "UNCHNAGE", orelse |-> "ignore"] \in Good
    /\ \A k \in ConfigStatus : [op |-> "config_status", arg |-> k, orelse |-> "save"] \in Good
    /\ [op |-> "dump", arg |-> "", orelse |-> "ignore"] \in Good
    /\ [op |-> "save", arg |-> "", orelse |-> "abort"] \in Good
    /\ [op |-> "copy", arg |-> "", orelse |-> "ignore"] \in Good
    /\ [op |-> "apply", arg |-> "", orelse |-> "abort"] \in Good
  BY DEF Good, Step, Ops, Status, ConfigStatus

LEMMA PieceThen ==
    ASSUME NEW s \in Seq(Good)
    PROVE
       /\ Before("create", "", "abort", s)
       /\ Before("save", "", "abort", s)
       /\ Before("dump", "", "ignore", s)
       /\ Before("copy", "", "ignore", s)
       /\ Before("apply", "", "abort", s)
       /\ Before("config_status", "UNCHNAGE", "ignore", s)
       /\ \A k \in ConfigStatus : Before("config_status", k, "save", s)
  BY GoodSteps, StepThen

LEMMA PiecesTyped ==
    /\ S("create", "", "abort") \in Seq(Good) /\ S("save", "", "abort") \in Seq(Good)
    /\ S("dump", "", "ignore") \in Seq(Good) /\ S("copy", "", "ignore") \in Seq(Good)
    /\ S("apply", "", "abort") \in Seq(Good) /\ Unmark \in Seq(Good)
    /\ \A k \in ConfigStatus : S("config_status", k, "save") \in Seq(Good)
    /\ DeploySteps \in Seq(Good)
  <1>1. <<>> \in Seq(Good)
    OBVIOUS
  <1>2. DeploySteps \in Seq(Good)
    BY DeployProgram, NoneOf, ProgramTyped
  <1>3. QED  BY <1>1, <1>2, PieceThen DEF Before, Unmark

LEMMA LiveForm ==
    /\ NewConfig("UNCHNAGE") # <<>> /\ ToLive \in Seq(Good)
    /\ HeadIs(NewConfig("UNCHNAGE"), "create", "", "abort")
    /\ Tail(NewConfig("UNCHNAGE")) = ToLive
  <1> DEFINE c == S("create", "", "abort")
             m == Unmark
             d == S("dump", "", "ignore")
             s == S("save", "", "abort")
  <1>1. NewConfig("UNCHNAGE") = ((c \o m) \o d) \o s
    BY DEF NewConfig, Unmark
  <1>2. ToLive = (m \o d) \o s
    BY DEF ToLive
  <1>3. c \in Seq(Good) /\ m \in Seq(Good) /\ d \in Seq(Good) /\ s \in Seq(Good)
    BY PiecesTyped
  <1> HIDE DEF m, d, s
  <1>4. /\ m \o d \in Seq(Good) /\ (m \o d) \o s \in Seq(Good)
    BY <1>3, ConcatProperties
  <1>5. /\ HeadIs(c \o ((m \o d) \o s), "create", "", "abort")
        /\ Tail(c \o ((m \o d) \o s)) = (m \o d) \o s
        /\ c \o ((m \o d) \o s) # <<>>
    BY <1>4, PieceThen DEF Before, Unmark
  <1> HIDE DEF c
  <1>6. (c \o m) \o d = c \o (m \o d)
    BY ONLY <1>3, ConcatAssociative
  <1>7. (c \o (m \o d)) \o s = c \o ((m \o d) \o s)
    <2> DEFINE e == m \o d
    <2>1. e \in Seq(Good) /\ c \in Seq(Good) /\ s \in Seq(Good)
      BY <1>3, <1>4
    <2> HIDE DEF e
    <2>2. (c \o e) \o s = c \o (e \o s)
      BY ONLY <2>1, ConcatAssociative
    <2>3. QED  BY <2>2 DEF e
  <1>8. QED  BY <1>1, <1>2, <1>4, <1>5, <1>6, <1>7

LEMMA TempForm ==
    ASSUME NEW k \in ConfigStatus, k # "UNCHNAGE"
    PROVE  /\ NewConfig(k) # <<>>
           /\ HeadIs(NewConfig(k), "config_status", k, "save")
           /\ Tail(NewConfig(k)) = ToTemp
           /\ ToTemp \in Seq(Good) /\ ToTemp # <<>>
           /\ HeadIs(ToTemp, "copy", "", "ignore")
           /\ Tail(ToTemp) = S("save", "", "abort")
  <1> DEFINE m == S("config_status", k, "save")
             c == S("copy", "", "ignore")
             s == S("save", "", "abort")
  <1>1. NewConfig(k) = (m \o c) \o s
    BY DEF NewConfig
  <1>2. ToTemp = c \o s
    BY DEF ToTemp
  <1>3. m \in Seq(Good) /\ c \in Seq(Good) /\ s \in Seq(Good)
    BY PiecesTyped
  <1>4. /\ ToTemp \in Seq(Good) /\ ToTemp # <<>>
        /\ HeadIs(ToTemp, "copy", "", "ignore")
        /\ Tail(ToTemp) = S("save", "", "abort")
    BY <1>2, <1>3, PieceThen DEF Before, Unmark
  <1>5. /\ m \o ToTemp # <<>>
        /\ HeadIs(m \o ToTemp, "config_status", k, "save")
        /\ Tail(m \o ToTemp) = ToTemp
    <2>1. Before("config_status", k, "save", ToTemp)
      BY <1>4, PieceThen
    <2>2. QED  BY <2>1 DEF Before
  <1> HIDE DEF m, c, s
  <1>6. (m \o c) \o s = m \o (c \o s)
    BY ONLY <1>3, ConcatAssociative
  <1>7. QED  BY <1>1, <1>2, <1>4, <1>5, <1>6

LEMMA EditedForm ==
    /\ Edited \in Seq(Good) /\ Edited # <<>>
    /\ HeadIs(Edited, "create", "", "abort")
    /\ Tail(Edited) = S("save", "", "abort") \o DeploySteps
    /\ S("apply", "", "abort") \o Edited # <<>>
    /\ HeadIs(S("apply", "", "abort") \o Edited, "apply", "", "abort")
    /\ Tail(S("apply", "", "abort") \o Edited) = Edited
    /\ Unmark \o Edited # <<>>
    /\ HeadIs(Unmark \o Edited, "config_status", "UNCHNAGE", "ignore")
    /\ Tail(Unmark \o Edited) = Edited
  <1> DEFINE c == S("create", "", "abort")
             s == S("save", "", "abort")
             d == DeploySteps
  <1>1. Edited = (c \o s) \o d
    BY DEF Edited
  <1>2. c \in Seq(Good) /\ s \in Seq(Good) /\ d \in Seq(Good)
    BY PiecesTyped
  <1>3. s \o d \in Seq(Good)
    BY <1>2, ConcatProperties
  <1>4. /\ c \o (s \o d) \in Seq(Good) /\ c \o (s \o d) # <<>>
        /\ HeadIs(c \o (s \o d), "create", "", "abort")
        /\ Tail(c \o (s \o d)) = s \o d
    BY <1>3, PieceThen DEF Before, Unmark
  <1> HIDE DEF c, s, d
  <1>5. (c \o s) \o d = c \o (s \o d)
    BY ONLY <1>2, ConcatAssociative
  <1>6. /\ Edited \in Seq(Good) /\ Edited # <<>>
        /\ HeadIs(Edited, "create", "", "abort")
        /\ Tail(Edited) = s \o d
    BY <1>1, <1>4, <1>5
  <1>7. /\ S("apply", "", "abort") \o Edited # <<>>
        /\ HeadIs(S("apply", "", "abort") \o Edited, "apply", "", "abort")
        /\ Tail(S("apply", "", "abort") \o Edited) = Edited
    BY <1>6, PieceThen DEF Before, Unmark
  <1>8. /\ Unmark \o Edited # <<>>
        /\ HeadIs(Unmark \o Edited, "config_status", "UNCHNAGE", "ignore")
        /\ Tail(Unmark \o Edited) = Edited
    BY <1>6, PieceThen DEF Before, Unmark
  <1>9. QED  BY <1>6, <1>7, <1>8 DEF s, d

-----------------------------------------------------------------------------
(* Steps that change no configuration.                                       *)

LEMMA MoreNone ==
    ASSUME NEW ops, NEW s \in Runs(ops)
    PROVE  /\ "apply" \notin ops => ~Has(s, Applies)
           /\ "config_status" \notin ops => ~Has(s, Marks)
           /\ "create" \notin ops => ~Has(s, Creates)
           /\ "copy" \notin ops => ~Has(s, Copies)
           /\ "save" \notin ops => ~Has(s, Saves)
  BY DEF Runs, Has, Applies, Marks, Creates, Copies, Saves, Of

LEMMA HeadMore ==
    ASSUME TInv, todo # <<>>
    PROVE  /\ \A A : Has(todo, A) <=> Head(todo) \in A \/ Has(Tail(todo), A)
           /\ \A A, B : Never(todo, A, B) <=>
                Never(Tail(todo), A, B) /\ (Head(todo) \in A => ~Has(Tail(todo), B))
           /\ Head(todo) \in Applies <=> Head(todo).op = "apply"
           /\ Head(todo) \in Marks <=> Head(todo).op = "config_status"
           /\ Head(todo) \in Creates <=> Head(todo).op = "create"
           /\ Head(todo) \in Copies <=> Head(todo).op = "copy"
           /\ Head(todo) \in Saves <=> Head(todo).op = "save"
           /\ Head(todo) \in Spoilers <=> Head(todo).op \in {"apply", "reapply"}
           /\ opts # Idle
  <1>1. todo \in Program /\ Head(todo) \in Good
    BY HeadKind
  <1>2. /\ \A A : Has(todo, A) <=> Head(todo) \in A \/ Has(Tail(todo), A)
        /\ \A A, B : Never(todo, A, B) <=>
              Never(Tail(todo), A, B) /\ (Head(todo) \in A => ~Has(Tail(todo), B))
    BY <1>1, ProgramTyped, OfTail
  <1>3. Head(todo) \in Step
    BY <1>1 DEF Good
  <1>4. opts # Idle
    BY DEF TInv, Formed
  <1>5. QED  BY <1>2, <1>3, <1>4 DEF Applies, Marks, Creates, Copies, Saves, Spoilers, Of

\* Where a program that writes a configuration is told by its first step.
LEMMA FirstStep ==
    ASSUME Replacing, Postponing, Unmarking
    PROVE  /\ Has(todo, Creates) => Head(todo).op \in {"create", "apply", "config_status"}
           /\ Has(todo, Copies) => Head(todo).op \in {"config_status", "copy"}
           /\ Has(todo, Marks) => Head(todo).op \in {"create", "apply", "config_status", "copy"}
  <1>1. ASSUME Has(todo, Creates)
        PROVE  Head(todo).op \in {"create", "apply", "config_status"}
    <2>1. CASE todo = NewConfig("UNCHNAGE")
      BY <2>1, LiveForm DEF HeadIs
    <2>2. CASE todo = Edited
      BY <2>2, EditedForm DEF HeadIs
    <2>3. CASE todo = S("apply", "", "abort") \o Edited
      BY <2>3, EditedForm DEF HeadIs
    <2>4. CASE todo = Unmark \o Edited
      BY <2>4, EditedForm DEF HeadIs
    <2>5. QED  BY <1>1, <2>1, <2>2, <2>3, <2>4 DEF Replacing
  <1>2. ASSUME Has(todo, Copies)
        PROVE  Head(todo).op \in {"config_status", "copy"}
    <2>1. CASE \E k \in ConfigStatus \ {"UNCHNAGE"} : todo = NewConfig(k)
      <3>1. PICK k \in ConfigStatus : k # "UNCHNAGE" /\ todo = NewConfig(k)
        BY <2>1
      <3>2. Head(todo).op = "config_status"
        BY <3>1, TempForm DEF HeadIs
      <3>3. QED  BY <3>2
    <2>2. CASE todo = ToTemp
      <3>1. PICK k \in ConfigStatus : k # "UNCHNAGE"
        BY DEF ConfigStatus
      <3>2. Head(todo).op = "copy"
        <4>1. Head(ToTemp).op = "copy"
          BY <3>1, TempForm DEF HeadIs
        <4>2. QED  BY <4>1, <2>2
      <3>3. QED  BY <3>2
    <2>3. QED  BY <2>1, <2>2, <1>2 DEF Postponing
  <1>3. QED  BY <1>1, <1>2 DEF Unmarking

LEMMA Quiet ==
    ASSUME EInv, mishaps = 0, todo # <<>>,
           Head(todo).op \notin {"create", "copy", "config_status", "apply"}
    PROVE  Settled
  BY FirstStep DEF EInv, Remembered, Settled

LEMMA MoreWork ==
    /\ Working(Applies) /\ Working(Marks) /\ Working(Creates) /\ Working(Copies)
  BY DEF Working, Applies, Marks, Creates, Copies, Of

LEMMA RestSaves ==
    ASSUME TInv, todo # <<>>, Rest(todo'), Has(todo', Saves), Head(todo).op # "config_status"
    PROVE  Has(todo, Saves)
  <1>1. /\ todo \in Program /\ Head(todo) \in Good /\ Tail(todo) \in Program
        /\ Head(todo).orelse # "save"
    <2>1. todo \in Program /\ Head(todo) \in Good /\ Tail(todo) \in Program
      BY HeadKind
    <2>2. QED  BY <2>1 DEF Good
  <1>2. Has(todo, Saves) <=> Head(todo) \in Saves \/ Has(Tail(todo), Saves)
    BY HeadMore
  <1>3. CASE todo' = <<>>
    BY <1>3, OfNone
  <1>4. CASE todo' = Tail(todo)
    BY <1>4, <1>2
  <1>5. CASE Head(todo).orelse = "skip" /\ todo' = Tail(Tail(todo))
    <2> DEFINE r == Tail(todo)
    <2>1. r \in Program /\ r # <<>>
      BY <1>1, <1>5, ProgramTail
    <2>2. Has(Tail(r), Saves) => Has(r, Saves)
      BY <2>1, ProgramTyped, OfTail
    <2>3. QED  BY <2>2, <1>2, <1>5
  <1>6. CASE \E x \in Good :
                /\ todo' = <<x>>
                /\ x.op \in {"dump", "save", "status"} /\ x.orelse \in {"abort", "ignore"}
                /\ x.op = "save" => Head(todo).orelse = "save"
                /\ x.op = "status" => x.orelse = "ignore"
    <2>1. PICK x \in Good : todo' = <<x>> /\ x.op # "save"
      BY <1>1, <1>6
    <2>2. x \in Saves
      BY <2>1, OfOne
    <2>3. QED  BY <2>1, <2>2 DEF Saves, Of
  <1>7. QED  BY <1>3, <1>4, <1>5, <1>6 DEF Rest

\* A step that leaves the configurations alone, and a rest of the program.
LEMMA RestRemembers ==
    ASSUME EInv, mishaps = 0, todo # <<>>, Settled, Rest(todo'),
           Head(todo).op # "config_status",
           opts' = opts, Effective' = Effective, mem' = Loaded', Changed(mem') <=> Changed(mem),
           Effective \in saved', Has(todo, Saves) => opts.version \in saved'
    PROVE  Remembered'
  <1>1. /\ todo \in Program
        /\ ~Has(todo, Creates) /\ ~Has(todo, Copies) /\ ~Has(todo, Marks)
        /\ Never(todo, Spoilers, Applies)
        /\ Has(todo, Applies) => Changed(mem)
        /\ Has(todo, Saves) => Effective = opts.version
    BY HeadKind DEF EInv, Remembered, Settled
  <1>2. /\ ~Has(todo', Creates) /\ ~Has(todo', Copies) /\ ~Has(todo', Marks)
        /\ Never(todo', Spoilers, Applies)
        /\ Has(todo', Applies) => Has(todo, Applies)
    BY <1>1, RestKeeps, MoreWork
  <1>3. Has(todo', Saves) => Has(todo, Saves)
    BY RestSaves DEF EInv
  <1>4. (Replacing /\ Postponing /\ Unmarking)'
    BY <1>2 DEF Replacing, Postponing, Unmarking
  <1>5. QED  BY <1>1, <1>2, <1>3, <1>4 DEF Remembered

\* A step that leaves the configurations alone and puts others before the rest.
LEMMA InsertRemembers ==
    ASSUME EInv, mishaps = 0, todo # <<>>, Settled,
           NEW p \in Runs({"status", "stop", "apply"}), todo' = p \o Tail(todo),
           Has(p, Applies) => Changed(mem) /\ Head(todo) \in Spoilers,
           Never(p, Spoilers, Applies),
           opts' = opts, mem' = mem, saved' = saved, Effective' = Effective, Loaded' = Loaded
    PROVE  Remembered'
  <1>1. /\ p \in Program /\ ~Has(p, Creates) /\ ~Has(p, Copies) /\ ~Has(p, Marks)
        /\ ~Has(p, Saves)
    BY NoneOf, MoreNone
  <1>2. Has(p, Spoilers) => Has(p, Applies)
    <2>1. ASSUME NEW i \in DOMAIN p, p[i] \in Spoilers
          PROVE  p[i] \in Applies
      BY <2>1 DEF Runs, Spoilers, Applies, Of
    <2>2. QED  BY <2>1 DEF Has
  <1>3. Tail(todo) \in Program
    BY HeadKind DEF EInv
  <1>4. /\ \A A : Has(todo', A) <=> Has(p, A) \/ Has(Tail(todo), A)
        /\ \A A, B : Never(todo', A, B) <=>
              Never(p, A, B) /\ Never(Tail(todo), A, B) /\ (Has(p, A) => ~Has(Tail(todo), B))
    BY <1>1, <1>3, Concat
  <1>5. /\ \A A : Has(Tail(todo), A) => Has(todo, A)
        /\ \A A, B : Never(todo, A, B) =>
              Never(Tail(todo), A, B) /\ (Head(todo) \in A => ~Has(Tail(todo), B))
        /\ opts # Idle
    BY HeadMore DEF EInv
  <1>6. ~Has(todo', Creates) /\ ~Has(todo', Copies) /\ ~Has(todo', Marks)
    BY <1>1, <1>4, <1>5 DEF Settled
  <1>7. Never(todo', Spoilers, Applies)
    BY <1>2, <1>4, <1>5 DEF EInv, Remembered
  <1>8. Has(todo', Applies) => Changed(mem)
    BY <1>4, <1>5 DEF EInv, Remembered
  <1>9. Has(todo', Saves) => Has(todo, Saves)
    BY <1>1, <1>4, <1>5
  <1>10. (Replacing /\ Postponing /\ Unmarking)'
    BY <1>6 DEF Replacing, Postponing, Unmarking
  <1>11. QED  BY <1>5, <1>6, <1>7, <1>8, <1>9, <1>10 DEF EInv, Remembered

-----------------------------------------------------------------------------
(* The steps that change the configurations, one by one.                     *)

\* A state in which no configuration is still to be written.
LEMMA SettledRemembers ==
    ASSUME Settled', opts # Idle => (mem = Loaded)', Never(todo, Spoilers, Applies)',
           opts' = opts,
           Has(todo', Applies) => Changed(mem'), Has(todo', Saves) => opts.version \in saved',
           Effective' \in saved', Has(todo', Saves) => Effective' = opts.version
    PROVE  Remembered'
  <1>1. ~Has(todo', Creates) /\ ~Has(todo', Copies) /\ ~Has(todo', Marks)
    BY DEF Settled
  <1>2. (Replacing /\ Postponing /\ Unmarking)'
    BY <1>1 DEF Replacing, Postponing, Unmarking
  <1>3. QED  BY <1>1, <1>2 DEF Remembered

LEMMA SpoilersApply ==
    ASSUME NEW s \in Program, ~Has(s, Spoilers)
    PROVE  ~Has(s, Applies) /\ Never(s, Spoilers, Applies)
  <1>1. ~Has(s, Applies)
    BY DEF Has, Applies, Spoilers, Of
  <1>2. QED  BY <1>1, NothingToKeep

LEMMA Parts ==
    /\ ToLive \in Program /\ ~Has(ToLive, Creates) /\ ~Has(ToLive, Copies)
    /\ Has(ToLive, Marks) /\ ~Has(ToLive, Spoilers)
    /\ HeadIs(ToLive, "config_status", "UNCHNAGE", "ignore") /\ ~Has(Tail(ToLive), Marks)
    /\ ToTemp \in Program /\ ~Has(ToTemp, Creates) /\ Has(ToTemp, Copies)
    /\ ~Has(ToTemp, Marks) /\ ~Has(ToTemp, Spoilers)
    /\ Edited \in Program /\ Has(Edited, Creates) /\ ~Has(Edited, Copies)
    /\ ~Has(Edited, Marks) /\ ~Has(Edited, Spoilers)
  <1> DEFINE c == S("create", "", "abort")
             m == Unmark
             d == S("dump", "", "ignore")
             s == S("save", "", "abort")
             t == S("copy", "", "ignore")
  <1>1. /\ m \in Runs({"config_status"}) /\ d \in Runs({"dump"}) /\ d \in Runs({"dump", "save"})
        /\ s \in Runs({"save"}) /\ s \in Runs({"dump", "save"})
        /\ t \in Runs({"copy"}) /\ c \in Runs({"create"})
    BY KnownSteps DEF Unmark
  <1>2. /\ m \in Seq(Good) /\ d \in Seq(Good) /\ s \in Seq(Good) /\ d \o s \in Seq(Good)
        /\ c \in Seq(Good) /\ t \in Seq(Good)
    BY PiecesTyped, ConcatProperties
  <1>3. /\ HeadIs(m \o (d \o s), "config_status", "UNCHNAGE", "ignore")
        /\ Tail(m \o (d \o s)) = d \o s
    <2>1. Before("config_status", "UNCHNAGE", "ignore", d \o s)
      BY <1>2, PieceThen
    <2>2. QED  BY <2>1 DEF Before, Unmark
  <1>4. /\ Has(m, Marks) /\ Has(c, Creates) /\ Has(t, Copies)
    <2> DEFINE x == [op |-> "config_status", arg |-> "UNCHNAGE", orelse |-> "ignore"]
               y == [op |-> "create", arg |-> "", orelse |-> "abort"]
               z == [op |-> "copy", arg |-> "", orelse |-> "ignore"]
    <2>1. x \in Marks /\ y \in Creates /\ z \in Copies
      BY DEF Marks, Creates, Copies, Of, Step, Ops, ConfigStatus
    <2>2. m = <<x>> /\ c = <<y>> /\ t = <<z>>
      BY DEF S, Unmark
    <2> HIDE DEF x, y, z, m, c, t
    <2>3. QED  BY <2>1, <2>2, OfOne
  <1>5. /\ ToLive = (m \o d) \o s /\ ToTemp = t \o s /\ Edited = (c \o s) \o DeploySteps
    BY DEF ToLive, ToTemp, Edited
  <1> HIDE DEF c, m, d, s, t
  <1>6. /\ m \in Program /\ ~Has(m, Spoilers) /\ ~Has(m, Creates) /\ ~Has(m, Copies)
        /\ c \in Program /\ ~Has(c, Spoilers) /\ ~Has(c, Marks) /\ ~Has(c, Copies)
        /\ t \in Program /\ ~Has(t, Spoilers) /\ ~Has(t, Marks) /\ ~Has(t, Creates)
    BY <1>1, NoneOf, MoreNone
  <1>7. /\ s \in Program /\ ~Has(s, Spoilers) /\ ~Has(s, Marks) /\ ~Has(s, Creates)
        /\ ~Has(s, Copies)
        /\ DeploySteps \in Program /\ ~Has(DeploySteps, Spoilers) /\ ~Has(DeploySteps, Marks)
        /\ ~Has(DeploySteps, Creates) /\ ~Has(DeploySteps, Copies)
    BY <1>1, DeployProgram, NoneOf, MoreNone
  <1>8. /\ d \o s \in Program /\ ~Has(d \o s, Spoilers) /\ ~Has(d \o s, Marks)
        /\ ~Has(d \o s, Creates) /\ ~Has(d \o s, Copies)
    <2>1. d \o s \in Runs({"dump", "save"})
      BY <1>1, RunsConcat
    <2>2. QED  BY <2>1, NoneOf, MoreNone
  <1>9. (m \o d) \o s = m \o (d \o s)
    BY ONLY <1>2, ConcatAssociative
  <1>10. /\ m \o (d \o s) \in Program
         /\ \A A : Has(m \o (d \o s), A) <=> Has(m, A) \/ Has(d \o s, A)
         /\ t \o s \in Program
         /\ \A A : Has(t \o s, A) <=> Has(t, A) \/ Has(s, A)
         /\ c \o s \in Program
         /\ \A A : Has(c \o s, A) <=> Has(c, A) \/ Has(s, A)
    BY <1>6, <1>7, <1>8, Concat
  <1>11. /\ (c \o s) \o DeploySteps \in Program
         /\ \A A : Has((c \o s) \o DeploySteps, A) <=> Has(c \o s, A) \/ Has(DeploySteps, A)
    BY <1>7, <1>10, Concat
  <1>12. /\ ToLive \in Program /\ ~Has(ToLive, Creates) /\ ~Has(ToLive, Copies)
         /\ Has(ToLive, Marks) /\ ~Has(ToLive, Spoilers)
    BY <1>4, <1>5, <1>6, <1>8, <1>9, <1>10
  <1>13. HeadIs(ToLive, "config_status", "UNCHNAGE", "ignore") /\ ~Has(Tail(ToLive), Marks)
    BY <1>3, <1>5, <1>8, <1>9
  <1>14. /\ ToTemp \in Program /\ ~Has(ToTemp, Creates) /\ Has(ToTemp, Copies)
         /\ ~Has(ToTemp, Marks) /\ ~Has(ToTemp, Spoilers)
    BY <1>4, <1>5, <1>6, <1>7, <1>10
  <1>15. /\ Edited \in Program /\ Has(Edited, Creates) /\ ~Has(Edited, Copies)
         /\ ~Has(Edited, Marks) /\ ~Has(Edited, Spoilers)
    BY <1>4, <1>5, <1>6, <1>7, <1>10, <1>11
  <1>16. QED  BY <1>12, <1>13, <1>14, <1>15

\* create_deploy_config
LEMMA CreateRemembers ==
    ASSUME EInv, CreateDeployConfig, mishaps' = 0
    PROVE  Remembered'
  <1>1. mishaps \in Nat /\ MaxMishaps \in Nat
    BY Constants DEF EInv, TInv, TypeOK
  <1>2. /\ todo # <<>> /\ Head(todo).op = "create" /\ opts' = opts /\ mem' = Loaded
        /\ saved' = saved /\ config' = opts.version
        /\ info' = (IF info = Absent THEN Unreadable ELSE info) /\ todo' = Tail(todo)
        /\ mishaps = 0 /\ tmp' = tmp
    BY <1>1 DEF CreateDeployConfig, Doing, Mishap, Proceed
  <1>3. /\ Has(todo, Creates) /\ opts # Idle
    BY <1>2, HeadMore DEF EInv
  <1>4. Loaded' = Loaded /\ mem = Loaded /\ opts.version \in saved
    <2>1. Loaded' = Loaded  BY <1>2 DEF Loaded
    <2>2. QED  BY <2>1, <1>2, <1>3 DEF EInv, Remembered
  <1>5. CASE todo = NewConfig("UNCHNAGE")
    <2>1. todo' = ToLive
      BY <1>2, <1>5, LiveForm
    <2>2. /\ ~Has(todo', Creates) /\ ~Has(todo', Copies) /\ Has(todo', Marks)
          /\ ~Has(todo', Applies) /\ Never(todo', Spoilers, Applies)
          /\ Head(todo').op = "config_status" /\ Head(todo').arg = "UNCHNAGE"
          /\ ~Has(Tail(todo'), Marks)
      BY <2>1, Parts, SpoilersApply DEF HeadIs
    <2>3. (Replacing /\ Postponing /\ Unmarking)'
      BY <2>2, <1>2, <1>4 DEF Replacing, Postponing, Unmarking
    <2>4. ~Settled'
      BY <2>2 DEF Settled
    <2>5. QED  BY <2>2, <2>3, <2>4, <1>2, <1>4 DEF Remembered
  <1>6. CASE todo = Edited /\ ~Changed(mem)
    <2>1. todo' = S("save", "", "abort") \o DeploySteps
      BY <1>2, <1>6, EditedForm
    <2>2. todo' \in Runs({"save", "install", "status", "dump"})
      <3>1. S("save", "", "abort") \in Runs({"save", "install", "status", "dump"})
        BY KnownSteps
      <3>2. DeploySteps \in Runs({"save", "install", "status", "dump"})
        BY DeployProgram, RunsMore
      <3>3. QED  BY <3>1, <3>2, <2>1, RunsConcat
    <2>3. /\ ~Has(todo', Creates) /\ ~Has(todo', Copies) /\ ~Has(todo', Marks)
          /\ ~Has(todo', Applies) /\ Never(todo', Spoilers, Applies)
      BY <2>2, NoneOf, MoreNone, SpoilersApply
    <2>4. Effective' = opts.version
      BY <1>2, <1>4, <1>6 DEF Effective
    <2>5. Settled'
      BY <2>3 DEF Settled
    <2>6. QED  BY <2>3, <2>4, <2>5, <1>2, <1>4, SettledRemembers
  <1>7. CASE todo = S("apply", "", "abort") \o Edited
    BY <1>2, <1>7, EditedForm DEF HeadIs
  <1>8. CASE todo = Unmark \o Edited
    BY <1>2, <1>8, EditedForm DEF HeadIs
  <1>9. QED  BY <1>2, <1>3, <1>5, <1>6, <1>7, <1>8 DEF EInv, Remembered, Replacing

\* The copy to tmp_config.yaml
LEMMA CopyRemembers ==
    ASSUME EInv, CopyTempConfig, mishaps' = 0
    PROVE  Remembered'
  <1>1. mishaps \in Nat /\ MaxMishaps \in Nat
    BY Constants DEF EInv, TInv, TypeOK
  <1>2. /\ todo # <<>> /\ Head(todo).op = "copy" /\ opts' = opts /\ mem' = mem
        /\ saved' = saved /\ config' = config /\ info' = info
        /\ tmp' = opts.version /\ todo' = Tail(todo) /\ mishaps = 0
    BY <1>1 DEF CopyTempConfig, Doing, Mishap, Proceed
  <1>3. Has(todo, Copies) /\ opts # Idle
    BY <1>2, HeadMore DEF EInv
  <1>4. /\ Loaded' = Loaded /\ mem = Loaded /\ opts.version \in saved
        /\ opts.version \in Versions
    <2>1. Loaded' = Loaded  BY <1>2 DEF Loaded
    <2>2. opts.version \in Versions  BY <1>2, HeadKind DEF EInv
    <2>3. QED  BY <2>1, <2>2, <1>2, <1>3 DEF EInv, Remembered
  <1>5. CASE todo = ToTemp /\ Changed(mem)
    <2>1. PICK k \in ConfigStatus : k # "UNCHNAGE"
      BY DEF ConfigStatus
    <2>2. todo' = S("save", "", "abort")
      BY <1>2, <1>5, <2>1, TempForm
    <2>3. todo' \in Runs({"save"})
      BY <2>2, KnownSteps
    <2>4. /\ ~Has(todo', Creates) /\ ~Has(todo', Copies) /\ ~Has(todo', Marks)
          /\ ~Has(todo', Applies) /\ Never(todo', Spoilers, Applies)
      BY <2>3, NoneOf, MoreNone, SpoilersApply
    <2>5. Effective' = opts.version
      BY <1>2, <1>4, <1>5, Constants DEF Effective, None
    <2>6. Settled'
      BY <2>4 DEF Settled
    <2>7. QED  BY <2>4, <2>5, <2>6, <1>2, <1>4, SettledRemembers
  <1>6. CASE \E k \in ConfigStatus \ {"UNCHNAGE"} : todo = NewConfig(k)
    <2>1. PICK k \in ConfigStatus : k # "UNCHNAGE" /\ todo = NewConfig(k)
      BY <1>6
    <2>2. QED  BY <1>2, <2>1, TempForm DEF HeadIs
  <1>7. QED  BY <1>2, <1>3, <1>5, <1>6 DEF EInv, Remembered, Postponing

\* apply_temp_deploy_config
LEMMA ApplyRemembers ==
    ASSUME EInv, ApplyTempConfig, mishaps' = 0
    PROVE  Remembered'
  <1>1. /\ todo # <<>> /\ Head(todo).op = "apply" /\ opts' = opts /\ mem' = mem
        /\ saved' = saved /\ info' = info /\ mishaps = 0 /\ Loaded' = Loaded
    BY DEF ApplyTempConfig, Doing, Loaded
  <1>2. /\ Has(todo, Applies) /\ ~Has(Tail(todo), Applies) /\ opts # Idle
        /\ Never(Tail(todo), Spoilers, Applies)
        /\ \A A : Has(Tail(todo), A) => Has(todo, A)
    <2>1. Head(todo) \in Applies /\ Head(todo) \in Spoilers
      BY <1>1, HeadMore DEF EInv
    <2>2. QED  BY <2>1, <1>1, HeadMore DEF EInv, Remembered
  <1>3. Changed(mem) /\ mem = Loaded /\ ~Has(todo, Marks) /\ ~Has(todo, Copies)
    <2>1. Has(todo, Copies) => Head(todo).op \in {"config_status", "copy"}
      BY <1>1, FirstStep DEF EInv, Remembered
    <2>2. QED  BY <2>1, <1>1, <1>2 DEF EInv, Remembered
  <1>4. Effective \in saved /\ (~Has(todo, Creates) /\ Has(todo, Saves) => Effective = opts.version)
    <2>1. CASE ~Has(todo, Creates)
      BY <2>1, <1>1, <1>3 DEF EInv, Remembered, Settled
    <2>2. CASE Has(todo, Creates)
      <3>1. todo # NewConfig("UNCHNAGE")
        BY <1>1, LiveForm DEF HeadIs
      <3>2. todo # Edited
        BY <1>1, EditedForm DEF HeadIs
      <3>3. todo # Unmark \o Edited
        BY <1>1, EditedForm DEF HeadIs
      <3>4. QED  BY <2>2, <3>1, <3>2, <3>3, <1>1 DEF EInv, Remembered, Replacing
    <2>3. QED  BY <2>1, <2>2
  <1>5. CASE tmp # None /\ config' = tmp /\ tmp' = None /\ todo' = Unmark \o Tail(todo)
    <2>1. Effective = tmp /\ config' \in saved
      BY <1>3, <1>4, <1>5 DEF Effective
    <2>2. /\ Head(todo').op = "config_status" /\ Head(todo').arg = "UNCHNAGE"
          /\ Tail(todo') = Tail(todo)
      <3>1. Tail(todo) \in Seq(Good)
        BY <1>1, HeadKind, ProgramTyped DEF EInv
      <3>2. Before("config_status", "UNCHNAGE", "ignore", Tail(todo))
        BY <3>1, PieceThen
      <3>3. QED  BY <3>2, <1>5 DEF Before, HeadIs, Unmark
    <2>3. /\ \A A : Has(todo', A) <=> Has(Unmark, A) \/ Has(Tail(todo), A)
          /\ \A A, B : Never(todo', A, B) <=>
                Never(Unmark, A, B) /\ Never(Tail(todo), A, B)
                /\ (Has(Unmark, A) => ~Has(Tail(todo), B))
          /\ ~Has(Unmark, Creates) /\ ~Has(Unmark, Copies) /\ ~Has(Unmark, Saves)
          /\ ~Has(Unmark, Spoilers) /\ ~Has(Unmark, Applies)
          /\ Unmark \in Program
      <3>1. Unmark \in Runs({"config_status"})
        BY KnownSteps DEF Unmark
      <3>2. /\ Unmark \in Program
            /\ ~Has(Unmark, Creates) /\ ~Has(Unmark, Copies) /\ ~Has(Unmark, Saves)
            /\ ~Has(Unmark, Spoilers) /\ ~Has(Unmark, Applies)
        BY <3>1, NoneOf, MoreNone
      <3>3. Tail(todo) \in Program
        BY <1>1, HeadKind DEF EInv
      <3>4. QED  BY <1>5, <3>2, <3>3, Concat
    <2>4. Has(Unmark, Marks)
      <3> DEFINE x == [op |-> "config_status", arg |-> "UNCHNAGE", orelse |-> "ignore"]
      <3>1. x \in Marks  BY DEF Marks, Of, Step, Ops, ConfigStatus
      <3>2. Unmark = <<x>>  BY DEF Unmark, S
      <3> HIDE DEF x
      <3>3. QED  BY <3>1, <3>2, OfOne
    <2>5. /\ ~Has(todo', Copies) /\ ~Has(Tail(todo'), Marks) /\ Has(todo', Marks)
          /\ ~Has(todo', Applies) /\ Never(todo', Spoilers, Applies)
          /\ Has(todo', Creates) => Has(todo, Creates)
          /\ Has(todo', Saves) => Has(todo, Saves)
      <3>1. Never(Unmark, Spoilers, Applies)
        BY <2>3, NothingToKeep
      <3>2. QED  BY <3>1, <2>2, <2>3, <2>4, <1>2, <1>3
    <2>6. Replacing'
      <3>1. ASSUME Has(todo, Creates)
            PROVE  todo' = Unmark \o Edited
        <4>1. todo # NewConfig("UNCHNAGE")
          BY <1>1, LiveForm DEF HeadIs
        <4>2. todo # Edited
          BY <1>1, EditedForm DEF HeadIs
        <4>3. todo # Unmark \o Edited
          BY <1>1, EditedForm DEF HeadIs
        <4>4. todo = S("apply", "", "abort") \o Edited
          BY <3>1, <4>1, <4>2, <4>3, <1>1 DEF EInv, Remembered, Replacing
        <4>5. QED  BY <4>4, <1>5, EditedForm
      <3>2. QED  BY <3>1, <2>5 DEF Replacing
    <2>7. Postponing'
      BY <2>5 DEF Postponing
    <2>8. Has(todo, Creates) => Has(todo', Creates)
      <3>1. Head(todo) \notin Creates
        BY <1>1, HeadMore DEF EInv
      <3>2. QED  BY <3>1, <1>1, <2>3, HeadMore DEF EInv
    <2>9. Unmarking'
      BY <2>1, <2>2, <2>5, <2>8, <1>1, <1>4, <1>5 DEF Unmarking
    <2>10. ~Settled'
      BY <2>5 DEF Settled
    <2>11. Has(todo', Creates) \/ Has(todo', Copies) \/ Has(todo', Saves) => opts.version \in saved'
      BY <2>5, <1>1 DEF EInv, Remembered
    <2>12. QED  BY <2>5, <2>6, <2>7, <2>9, <2>10, <2>11, <1>1, <1>3 DEF Remembered
  <1>6. CASE tmp = None /\ Fail /\ UNCHANGED <<config, tmp>>
    <2>1. /\ todo \in Program /\ Rest(todo')
          /\ Head(todo).orelse = "abort" => todo' = <<>>
      BY <1>1, <1>6, HeadKind, FailLeavesRest DEF EInv
    <2>2. Effective' = Effective
      BY <1>1, <1>6 DEF Effective
    <2>3. CASE Has(todo, Creates)
      <3>1. todo = S("apply", "", "abort") \o Edited
        <4>1. todo # NewConfig("UNCHNAGE")
          BY <1>1, LiveForm DEF HeadIs
        <4>2. todo # Edited
          BY <1>1, EditedForm DEF HeadIs
        <4>3. todo # Unmark \o Edited
          BY <1>1, EditedForm DEF HeadIs
        <4>4. QED  BY <2>3, <4>1, <4>2, <4>3, <1>1 DEF EInv, Remembered, Replacing
      <3>2. todo' = <<>>
        BY <2>1, <3>1, EditedForm DEF HeadIs
      <3>3. QED  BY <3>2, <2>2, <1>1, <1>3, <1>4, OfNone, SettledRemembers DEF Settled
    <2>4. CASE ~Has(todo, Creates)
      <3>1. Settled
        BY <2>4, <1>3 DEF Settled
      <3>2. Has(todo, Saves) => opts.version \in saved
        BY <1>1 DEF EInv, Remembered
      <3>3. QED  BY <2>1, <2>2, <3>1, <3>2, <1>1, <1>3, <1>4, RestRemembers
    <2>5. QED  BY <2>3, <2>4
  <1>7. QED  BY <1>5, <1>6 DEF ApplyTempConfig, Unmark

\* redeploy, when destroy has not applied the waiting configuration
LEMMA ReapplyRemembers ==
    ASSUME EInv, ReapplyTempConfig, mishaps' = 0
    PROVE  Remembered'
  <1> DEFINE p == When(Changed(mem), S("apply", "", "abort"))
  <1>1. /\ todo # <<>> /\ Head(todo).op = "reapply" /\ opts' = opts /\ mem' = mem
        /\ todo' = p \o Tail(todo) /\ mishaps = 0 /\ saved' = saved
        /\ Effective' = Effective /\ Loaded' = Loaded
    BY DEF ReapplyTempConfig, Doing, disk, Effective, Loaded
  <1>2. Settled /\ Head(todo) \in Spoilers
    <2>1. Settled  BY <1>1, Quiet
    <2>2. QED  BY <2>1, <1>1, HeadMore DEF EInv
  <1>3. p \in Runs({"status", "stop", "apply"})
    BY KnownSteps, WhenRuns
  <1>4. Has(p, Applies) => Changed(mem)
    BY OfNone DEF When
  <1>5. Never(p, Spoilers, Applies)
    BY OfNone, OfOne DEF When, S
  <1> HIDE DEF p
  <1>6. QED  BY <1>1, <1>2, <1>3, <1>4, <1>5, InsertRemembers

\* dump_deploy_info
LEMMA InfoRemembers ==
    ASSUME EInv, DumpDeployInfo, mishaps' = 0
    PROVE  Remembered'
  <1> DEFINE h == Head(todo)
  <1>1. mishaps \in Nat /\ MaxMishaps \in Nat
    BY Constants DEF EInv, TInv, TypeOK
  <1>2. /\ todo # <<>> /\ h.op \in {"status", "config_status", "info"} /\ opts' = opts
        /\ mem' = Updated(h) /\ info' = mem' /\ todo' = Tail(todo)
        /\ saved' = saved /\ config' = config /\ tmp' = tmp /\ mishaps = 0
    BY <1>1 DEF DumpDeployInfo, Doing, Mishap, Proceed
  <1>3. mem \in DeployInfo /\ h \in Good /\ opts # Idle /\ mem = Loaded
    <2>1. opts # Idle /\ h \in Good
      BY <1>2, HeadMore, HeadKind DEF EInv
    <2>2. QED  BY <2>1, <1>2 DEF EInv, Remembered, TInv, TypeOK
  <1>4. mem' \in DeployInfo /\ Loaded' = mem'
    <2>1. mem' \in DeployInfo
      BY <1>2, <1>3 DEF Updated, DeployInfo, Good
    <2>2. info' \notin {Absent, Unreadable}
      BY <2>1, <1>2 DEF DeployInfo, Status, Absent, Unreadable
    <2>3. QED  BY <2>1, <2>2, <1>2 DEF Loaded
  <1>5. CASE h.op \in {"status", "info"}
    <2>1. mem'.config_status = mem.config_status
      BY <1>2, <1>3, <1>5 DEF Updated, DeployInfo
    <2>2. (Changed(mem') <=> Changed(mem)) /\ Effective' = Effective
      BY <2>1, <1>2, <1>3, <1>4 DEF Changed, Effective
    <2>3. Settled
      BY <1>2, <1>5, Quiet
    <2>4. Rest(todo')
      BY <1>2 DEF Rest
    <2>5. Effective \in saved /\ (Has(todo, Saves) => opts.version \in saved)
      BY <2>3, <1>2 DEF EInv, Remembered
    <2>6. QED  BY <1>2, <1>4, <1>5, <2>2, <2>3, <2>4, <2>5, RestRemembers
  <1>6. CASE h.op = "config_status"
    <2>1. mem'.config_status = h.arg
      BY <1>2, <1>3, <1>6 DEF Updated, DeployInfo
    <2>2. Has(todo, Marks)
      BY <1>2, <1>6, HeadMore DEF EInv
    <2>3. CASE ~Has(todo, Creates) /\ ~Has(todo, Copies)
      <3>1. /\ h.arg = "UNCHNAGE" /\ ~Has(Tail(todo), Marks) /\ config \in saved
            /\ Has(todo, Saves) => config = opts.version
            /\ ~Has(todo, Applies) /\ Never(todo, Spoilers, Applies)
            /\ Has(todo, Saves) => opts.version \in saved
        BY <1>2, <2>2, <2>3 DEF EInv, Remembered, Unmarking
      <3>2. /\ \A A : Has(Tail(todo), A) => Has(todo, A)
            /\ Never(Tail(todo), Spoilers, Applies)
        BY <1>2, <3>1, HeadMore DEF EInv
      <3>3. ~Changed(mem') /\ Effective' = config
        BY <2>1, <3>1, <1>2, <1>4 DEF Changed, Effective
      <3>4. Settled'
        BY <2>3, <3>1, <3>2, <1>2 DEF Settled
      <3>5. QED  BY <3>1, <3>2, <3>3, <3>4, <1>2, <1>4, SettledRemembers
    <2>4. CASE Has(todo, Creates)
      <3>1. todo # NewConfig("UNCHNAGE")
        BY <1>2, <1>6, LiveForm DEF HeadIs
      <3>2. todo # Edited
        BY <1>2, <1>6, EditedForm DEF HeadIs
      <3>3. todo # S("apply", "", "abort") \o Edited
        BY <1>2, <1>6, EditedForm DEF HeadIs
      <3>4. todo = Unmark \o Edited
        BY <2>4, <3>1, <3>2, <3>3, <1>2 DEF EInv, Remembered, Replacing
      <3>5. todo' = Edited /\ h.arg = "UNCHNAGE"
        BY <3>4, <1>2, EditedForm DEF HeadIs
      <3>6. ~Changed(mem')
        BY <2>1, <3>5 DEF Changed
      <3>7. /\ Has(todo', Creates) /\ ~Has(todo', Copies) /\ ~Has(todo', Marks)
            /\ ~Has(todo', Applies) /\ Never(todo', Spoilers, Applies)
        BY <3>5, Parts, SpoilersApply
      <3>8. (Replacing /\ Postponing /\ Unmarking)' /\ ~Settled'
        BY <3>5, <3>6, <3>7 DEF Replacing, Postponing, Unmarking, Settled
      <3>9. opts.version \in saved
        BY <2>4, <1>2 DEF EInv, Remembered
      <3>10. QED  BY <3>7, <3>8, <3>9, <1>2, <1>4 DEF Remembered
    <2>5. CASE Has(todo, Copies)
      <3>1. PICK k \in ConfigStatus : k # "UNCHNAGE" /\ todo = NewConfig(k)
        <4>1. PICK j \in ConfigStatus : j # "UNCHNAGE"
          BY DEF ConfigStatus
        <4>2. HeadIs(ToTemp, "copy", "", "ignore")
          BY <4>1, TempForm
        <4>3. todo # ToTemp
          BY <4>2, <1>2, <1>6 DEF HeadIs
        <4>4. QED  BY <2>5, <4>3, <1>2 DEF EInv, Remembered, Postponing
      <3>2. todo' = ToTemp /\ h.arg = k
        BY <3>1, <1>2, TempForm DEF HeadIs
      <3>3. Changed(mem')
        BY <2>1, <3>1, <3>2 DEF Changed
      <3>4. /\ ~Has(todo', Creates) /\ Has(todo', Copies) /\ ~Has(todo', Marks)
            /\ ~Has(todo', Applies) /\ Never(todo', Spoilers, Applies)
        BY <3>2, Parts, SpoilersApply
      <3>5. (Replacing /\ Postponing /\ Unmarking)' /\ ~Settled'
        BY <3>2, <3>3, <3>4 DEF Replacing, Postponing, Unmarking, Settled
      <3>6. opts.version \in saved
        BY <2>5, <1>2 DEF EInv, Remembered
      <3>7. QED  BY <3>4, <3>5, <3>6, <1>2, <1>4 DEF Remembered
    <2>6. QED  BY <2>3, <2>4, <2>5
  <1>7. QED  BY <1>2, <1>5, <1>6

-----------------------------------------------------------------------------
(* The other steps, and the commands.                                        *)

LEMMA QuietStep ==
    ASSUME EInv, mishaps = 0, todo # <<>>, Rest(todo'), UNCHANGED <<disk, mem, opts, saved>>,
           Head(todo).op \notin {"create", "copy", "config_status", "apply"}
    PROVE  Remembered'
  <1>1. Settled
    BY Quiet
  <1>2. opts' = opts /\ mem' = mem /\ saved' = saved /\ Effective' = Effective /\ Loaded' = Loaded
    BY DEF disk, Effective, Loaded
  <1>3. /\ mem = Loaded /\ Effective \in saved
        /\ Has(todo, Saves) => opts.version \in saved
    BY <1>1, HeadMore DEF EInv, Remembered
  <1>4. QED  BY <1>1, <1>2, <1>3, RestRemembers

LEMMA ServersRemember ==
    ASSUME EInv, ServerStep, mishaps' = 0
    PROVE  Remembered'
  <1>0. ASSUME NEW kept, Stay(kept)
        PROVE  mishaps' = mishaps
    BY <1>0, StayTyped DEF EInv, TInv
  <1>1. UNCHANGED <<disk, mem, opts, saved, mishaps>> /\ todo # <<>>
    BY <1>0 DEF ServerStep, InstallRepositories, StartServers, StopServers, RestartServers,
           ReloadServers, CheckServers, WipeServers, Doing
  <1>2. todo \in Program /\ Rest(Tail(todo))
    BY <1>1, HeadKind DEF EInv
  <1>3. (Fail \/ Proceed) => Rest(todo')
    BY <1>1, <1>2, FailLeavesRest DEF Proceed
  <1>4. CASE CheckServers
    <2> DEFINE a == S("status", "RUNNING", "ignore")
               b == StopSteps(<<>>, {}, mem.status)
    <2>1. Head(todo).op = "check"
      BY <1>4 DEF CheckServers, Doing
    <2>2. CASE Proceed \/ Fail
      BY <1>1, <1>3, <2>1, <2>2, QuietStep
    <2>3. CASE todo' = (a \o b) \o Tail(todo)
      <3>1. mem.status \in Status /\ "RUNNING" \in Status
        BY DEF EInv, TInv, TypeOK, DeployInfo, Status
      <3>2. a \in Runs({"stop", "status"}) /\ b \in Runs({"stop", "status"})
        BY <3>1, KnownSteps, StopProgram
      <3> DEFINE p == a \o b
      <3> HIDE DEF a, b
      <3>3. p \in Runs({"stop", "status"})
        BY <3>2, RunsConcat
      <3>4. todo' = p \o Tail(todo)
        BY <2>3
      <3> HIDE DEF p
      <3>5. p \in Runs({"status", "stop", "apply"})
        BY <3>3, RunsMore
      <3>6. ~Has(p, Applies) /\ Never(p, Spoilers, Applies)
        BY <3>3, NoneOf, SpoilersApply
      <3>7. /\ opts' = opts /\ mem' = mem /\ saved' = saved
            /\ Effective' = Effective /\ Loaded' = Loaded
        BY <1>1 DEF disk, Effective, Loaded
      <3>8. Settled
        BY <1>1, <2>1, Quiet
      <3>9. QED  BY <1>1, <3>4, <3>5, <3>6, <3>7, <3>8, InsertRemembers
    <2>4. QED  BY <1>4, <2>2, <2>3 DEF CheckServers
  <1>5. CASE InstallRepositories
    <2>1. (Fail \/ Proceed) /\ Head(todo).op = "install"
      BY <1>5 DEF InstallRepositories, Doing
    <2>2. QED  BY <1>1, <1>3, <2>1, QuietStep
  <1>6. CASE StartServers
    <2>1. (Fail \/ Proceed) /\ Head(todo).op = "start"
      BY <1>6 DEF StartServers, Doing
    <2>2. QED  BY <1>1, <1>3, <2>1, QuietStep
  <1>7. CASE StopServers
    <2>1. (Fail \/ Proceed) /\ Head(todo).op = "stop"
      BY <1>7 DEF StopServers, Doing
    <2>2. QED  BY <1>1, <1>3, <2>1, QuietStep
  <1>8. CASE RestartServers
    <2>1. (Fail \/ Proceed) /\ Head(todo).op = "restart"
      BY <1>8 DEF RestartServers, Doing
    <2>2. QED  BY <1>1, <1>3, <2>1, QuietStep
  <1>9. CASE ReloadServers
    <2>1. (Fail \/ Proceed) /\ Head(todo).op = "reload"
      BY <1>9 DEF ReloadServers, Doing
    <2>2. QED  BY <1>1, <1>3, <2>1, QuietStep
  <1>10. CASE WipeServers
    <2>1. Proceed /\ Head(todo).op = "wipe"
      BY <1>10 DEF WipeServers, Doing
    <2>2. QED  BY <1>1, <1>3, <2>1, QuietStep
  <1>11. QED  BY <1>4, <1>5, <1>6, <1>7, <1>8, <1>9, <1>10 DEF ServerStep

LEMMA DumpRemembers ==
    ASSUME EInv, DumpDeployConfig, mishaps' = 0
    PROVE  Remembered'
  <1>1. mishaps \in Nat
    BY DEF EInv, TInv, TypeOK
  <1>2. /\ todo # <<>> /\ Head(todo).op = "dump" /\ todo' = Tail(todo) /\ mishaps = 0
        /\ UNCHANGED <<disk, mem, opts, saved>>
    BY <1>1 DEF DumpDeployConfig, Doing, Mishap, Proceed, disk
  <1>3. Rest(todo')
    BY <1>2 DEF Rest
  <1>4. QED  BY <1>2, <1>3, QuietStep

LEMMA SaveRemembers ==
    ASSUME EInv, Save, mishaps' = 0
    PROVE  Remembered'
  <1>1. /\ todo # <<>> /\ Head(todo).op = "save" /\ todo' = Tail(todo) /\ mishaps = 0
        /\ opts' = opts /\ mem' = mem /\ saved' = {opts.version}
        /\ Effective' = Effective /\ Loaded' = Loaded
    BY DEF Save, Doing, Proceed, disk, Effective, Loaded
  <1>2. Rest(todo') /\ Settled
    BY <1>1, Quiet DEF Rest
  <1>3. Has(todo, Saves) /\ opts # Idle
    BY <1>1, HeadMore DEF EInv
  <1>4. Effective = opts.version /\ mem = Loaded
    BY <1>1, <1>2, <1>3 DEF EInv, Remembered
  <1>5. QED  BY <1>1, <1>2, <1>4, RestRemembers

LEMMA FilesRemember ==
    ASSUME EInv, FileStep, mishaps' = 0
    PROVE  Remembered'
  BY InfoRemembers, CreateRemembers, CopyRemembers, ApplyRemembers, ReapplyRemembers,
     DumpRemembers, SaveRemembers
     DEF FileStep

\* A program that applies a waiting configuration at most once, if c holds.
Lone(s, c) ==
    /\ s \in Program /\ Never(s, Spoilers, Applies)
    /\ Has(s, Applies) => c

LEMMA LoneConcat ==
    ASSUME NEW c, NEW s, NEW t, Lone(s, c), Lone(t, c), ~Has(s, Spoilers) \/ ~Has(t, Applies)
    PROVE  Lone(s \o t, c)
  BY Concat DEF Lone

LEMMA LoneApply ==
    ASSUME NEW b, NEW c, b => c
    PROVE  /\ Lone(When(b, S("apply", "", "abort")), c)
           /\ Lone(When(b, S("apply", "", "ignore")), c)
  <1>1. /\ When(b, S("apply", "", "abort")) \in Runs({"apply"})
        /\ When(b, S("apply", "", "ignore")) \in Runs({"apply"})
    BY KnownSteps, WhenRuns
  <1>2. \A e : /\ Never(When(b, S("apply", "", e)), Spoilers, Applies)
               /\ Has(When(b, S("apply", "", e)), Applies) => c
    BY OfNone, OfOne DEF When, S
  <1>3. QED  BY <1>1, <1>2, NoneOf DEF Lone

\* Programs that apply nothing.
LEMMA LoneNone ==
    ASSUME NEW ops, NEW s \in Runs(ops), NEW c, ops \cap {"apply", "reapply"} = {}
    PROVE  Lone(s, c) /\ ~Has(s, Applies) /\ ~Has(s, Spoilers)
  <1>1. s \in Program /\ ~Has(s, Spoilers)
    BY NoneOf
  <1>2. QED  BY <1>1, SpoilersApply DEF Lone

\* The operations of a command that writes no new configuration.
PlainOps == {"status", "info", "apply", "reapply", "dump", "install", "start", "stop", "restart",
             "reload", "check", "wipe"}

LEMMA NothingBegun ==
    ASSUME EInv, mishaps = 0, todo = <<>>
    PROVE  Settled /\ Effective \in saved
  <1>1. Settled
    BY OfNone DEF Settled
  <1>2. QED  BY <1>1 DEF EInv, Remembered

LEMMA BeginLeaves ==
    ASSUME NEW steps, NEW o, Begin(steps, o)
    PROVE  /\ todo = <<>> /\ opts = Idle /\ todo' = steps /\ opts' = o /\ mem' = Loaded
           /\ Loaded' = Loaded /\ Effective' = Effective /\ config' = config /\ tmp' = tmp
           /\ mishaps' = mishaps
  BY DEF Begin, disk, Effective, Loaded

\* A command that writes no new configuration.
LEMMA PlainRemembers ==
    ASSUME EInv, mishaps' = 0, NEW steps \in Runs(PlainOps), NEW o, Begin(steps, o),
           Lone(steps, Changed(Loaded)), saved' = saved
    PROVE  Remembered'
  <1>1. /\ todo = <<>> /\ todo' = steps /\ mem' = Loaded
        /\ Loaded' = Loaded /\ Effective' = Effective /\ mishaps = 0
    BY BeginLeaves
  <1>2. Effective \in saved
    BY <1>1, NothingBegun
  <1>3. /\ ~Has(todo', Creates) /\ ~Has(todo', Copies) /\ ~Has(todo', Marks)
        /\ ~Has(todo', Saves)
    BY <1>1, MoreNone DEF PlainOps
  <1>4. (Replacing /\ Postponing /\ Unmarking)'
    BY <1>3 DEF Replacing, Postponing, Unmarking
  <1>5. Never(todo', Spoilers, Applies) /\ (Has(todo', Applies) => Changed(mem'))
    BY <1>1 DEF Lone
  <1>6. QED  BY <1>1, <1>2, <1>3, <1>4, <1>5 DEF Remembered

\* The plain commands apply at most once, and only a waiting configuration.
LEMMA LoneDeploy ==
    ASSUME NEW c \in BOOLEAN
    PROVE  Lone(When(c, S("apply", "", "abort")) \o DeploySteps, c)
  <1>1. Lone(DeploySteps, c) /\ ~Has(DeploySteps, Applies)
    BY DeployProgram, LoneNone
  <1>2. Lone(When(c, S("apply", "", "abort")), c)
    BY LoneApply
  <1>3. QED  BY <1>1, <1>2, LoneConcat

LEMMA LoneRestart ==
    ASSUME NEW b, NEW comps, NEW servers, NEW apply, NEW c, apply => c
    PROVE  Lone(When(b, StartSteps(comps)) \o RestartSteps(comps, servers, apply), c)
  <1> DEFINE p == When(b, StartSteps(comps))
             all == NamesAll(comps) /\ servers = {}
             r == S("restart", "", "abort")
             a == When(all /\ apply, S("apply", "", "abort"))
             d == When(all, S("status", "RUNNING", "abort"))
  <1>1. p \in Runs({"start", "status", "dump"})
    BY StartProgram, WhenRuns
  <1>2. r \in Runs({"restart"}) /\ d \in Runs({"status"})
    <2>1. "RUNNING" \in Status  BY DEF Status
    <2>2. QED  BY <2>1, KnownSteps, WhenRuns
  <1>3. Lone(a, c)
    BY LoneApply
  <1>4. RestartSteps(comps, servers, apply) = (r \o a) \o d
    BY DEF RestartSteps
  <1> HIDE DEF p, r, a, d
  <1>5. /\ Lone(p, c) /\ ~Has(p, Spoilers) /\ Lone(r, c) /\ ~Has(r, Spoilers)
        /\ Lone(d, c) /\ ~Has(d, Applies)
    BY <1>1, <1>2, LoneNone
  <1>6. Lone(r \o a, c)
    BY <1>3, <1>5, LoneConcat
  <1>7. Lone((r \o a) \o d, c)
    BY <1>5, <1>6, LoneConcat
  <1>8. Lone(p \o ((r \o a) \o d), c)
    BY <1>5, <1>7, LoneConcat
  <1>9. QED  BY <1>4, <1>8 DEF p

LEMMA LoneReload ==
    ASSUME NEW b
    PROVE  Lone(When(b, StartSteps(<<>>)) \o S("reload", "", "dump") \o S("apply", "", "abort"), TRUE)
  <1> DEFINE p == When(b, StartSteps(<<>>))
             r == S("reload", "", "dump")
             a == S("apply", "", "abort")
  <1>1. p \in Runs({"start", "status", "dump"}) /\ r \in Runs({"reload"})
    BY StartProgram, WhenRuns, KnownSteps
  <1>2. Lone(a, TRUE)
    <2>1. Lone(When(TRUE, a), TRUE)  BY LoneApply
    <2>2. When(TRUE, a) = a  BY DEF When
    <2>3. QED  BY <2>1, <2>2
  <1> HIDE DEF p, r, a
  <1>3. Lone(p, TRUE) /\ ~Has(p, Spoilers) /\ Lone(r, TRUE) /\ ~Has(r, Spoilers)
    <2>1. p \in Program /\ ~Has(p, Spoilers) /\ r \in Program /\ ~Has(r, Spoilers)
      BY <1>1, NoneOf
    <2>2. QED  BY <2>1, SpoilersApply DEF Lone
  <1>4. Lone(p \o r, TRUE) /\ ~Has(p \o r, Spoilers)
    <2>1. Lone(p \o r, TRUE)  BY <1>3, LoneConcat
    <2>2. QED  BY <2>1, <1>3, Concat DEF Lone
  <1>5. Lone((p \o r) \o a, TRUE)
    BY <1>2, <1>4, LoneConcat
  <1>6. QED  BY <1>5 DEF p, r, a

LEMMA LoneDestroy ==
    ASSUME NEW c \in BOOLEAN
    PROVE  Lone(ForcedStop \o DestroySteps(c), c)
  <1> DEFINE f == ForcedStop
             k == S("check", "", "abort")
             w == S("wipe", "", "ignore")
             t == S("status", "DESTROYED", "abort")
             i == S("info", "", "ignore")
             a == When(c, S("apply", "", "ignore"))
             p == ((k \o w) \o t) \o i
             ops == {"check", "wipe", "status", "info"}
  <1>1. f \in Runs({"stop", "status"})
    BY ForcedStopProgram
  <1>2. p \in Runs(ops)
    <2>1. k \in Runs(ops) /\ w \in Runs(ops) /\ i \in Runs(ops)
      BY KnownSteps
    <2>2. t \in Runs(ops)
      <3>1. "DESTROYED" \in Status  BY DEF Status
      <3>2. QED  BY <3>1, KnownSteps
    <2> HIDE DEF k, w, i, t, ops
    <2>3. QED  BY <2>1, <2>2, RunsConcat
  <1>3. Lone(a, c)
    BY LoneApply
  <1>4. DestroySteps(c) = p \o a
    BY DEF DestroySteps
  <1> HIDE DEF f, p, a
  <1>5. Lone(f, c) /\ ~Has(f, Spoilers) /\ Lone(p, c) /\ ~Has(p, Spoilers)
    BY <1>1, <1>2, LoneNone
  <1>6. Lone(p \o a, c)
    BY <1>3, <1>5, LoneConcat
  <1>7. Lone(f \o (p \o a), c)
    BY <1>5, <1>6, LoneConcat
  <1>8. QED  BY <1>4, <1>7 DEF f

LEMMA LoneRedeploy ==
    ASSUME NEW c \in BOOLEAN
    PROVE  Lone(ForcedStop \o DestroySteps(c) \o S("reapply", "", "abort")
                \o DeploySteps \o StartSteps(<<>>) \o S("dump", "", "abort"), c)
  <1> DEFINE p == ForcedStop \o DestroySteps(c)
             r == S("reapply", "", "abort")
             d == DeploySteps
             s == StartSteps(<<>>)
             e == S("dump", "", "abort")
  <1>1. Lone(p, c)
    BY LoneDestroy
  <1>2. Lone(r, c) /\ ~Has(r, Applies)
    <2>1. r \in Runs({"reapply"})
      BY KnownSteps
    <2>2. ~Has(r, Applies) /\ r \in Program
      <3>1. r \in Program  BY <2>1, NoneOf
      <3>2. "apply" \notin {"reapply"}  OBVIOUS
      <3> HIDE DEF r
      <3>3. QED  BY <2>1, <3>1, <3>2, MoreNone
    <2>3. Never(r, Spoilers, Applies)
      BY <2>2, NothingToKeep
    <2>4. QED  BY <2>2, <2>3 DEF Lone
  <1>3. /\ d \in Runs({"install", "status", "dump"})
        /\ s \in Runs({"start", "status", "dump"}) /\ e \in Runs({"dump"})
    BY DeployProgram, StartProgram, KnownSteps
  <1> HIDE DEF p, r, d, s, e
  <1>4. /\ Lone(d, c) /\ ~Has(d, Applies) /\ Lone(s, c) /\ ~Has(s, Applies)
        /\ Lone(e, c) /\ ~Has(e, Applies)
    BY <1>3, LoneNone
  <1>5. Lone(p \o r, c)
    BY <1>1, <1>2, LoneConcat
  <1>6. Lone((p \o r) \o d, c)
    BY <1>4, <1>5, LoneConcat
  <1>7. Lone(((p \o r) \o d) \o s, c)
    BY <1>4, <1>6, LoneConcat
  <1>8. Lone((((p \o r) \o d) \o s) \o e, c)
    BY <1>4, <1>7, LoneConcat
  <1>9. QED  BY <1>8 DEF p, r, d, s, e

\* Their programs consist of plain operations.
LEMMA PlainPrograms ==
    /\ \A c : When(c, S("apply", "", "abort")) \in Runs(PlainOps)
    /\ DeploySteps \in Runs(PlainOps) /\ ForcedStop \in Runs(PlainOps)
    /\ \A c : DestroySteps(c) \in Runs(PlainOps)
    /\ \A comps : StartSteps(comps) \in Runs(PlainOps)
    /\ \A comps, servers : StopSteps(comps, servers, "abort") \in Runs(PlainOps)
    /\ \A comps, servers, apply : RestartSteps(comps, servers, apply) \in Runs(PlainOps)
    /\ S("reload", "", "dump") \in Runs(PlainOps) /\ S("apply", "", "abort") \in Runs(PlainOps)
    /\ S("reapply", "", "abort") \in Runs(PlainOps) /\ S("dump", "", "abort") \in Runs(PlainOps)
  <1>1. /\ S("reload", "", "dump") \in Runs(PlainOps) /\ S("apply", "", "abort") \in Runs(PlainOps)
        /\ S("reapply", "", "abort") \in Runs(PlainOps) /\ S("dump", "", "abort") \in Runs(PlainOps)
    BY KnownSteps DEF PlainOps
  <1>2. /\ {"install", "status", "dump"} \subseteq PlainOps
        /\ {"stop", "status"} \subseteq PlainOps
        /\ {"check", "wipe", "status", "info", "apply"} \subseteq PlainOps
        /\ {"start", "status", "dump"} \subseteq PlainOps
        /\ {"restart", "apply", "status"} \subseteq PlainOps
    BY DEF PlainOps
  <1>3. \A ops : ops \subseteq PlainOps => Runs(ops) \subseteq Runs(PlainOps)
    BY RunsMore
  <1>4. \A c : When(c, S("apply", "", "abort")) \in Runs(PlainOps)
    BY <1>1, WhenRuns
  <1>5. DeploySteps \in Runs(PlainOps) /\ ForcedStop \in Runs(PlainOps)
    BY <1>2, <1>3, DeployProgram, ForcedStopProgram
  <1>6. \A c : DestroySteps(c) \in Runs(PlainOps)
    BY <1>2, <1>3, DestroyProgram
  <1>7. \A comps : StartSteps(comps) \in Runs(PlainOps)
    BY <1>2, <1>3, StartProgram
  <1>8. \A comps, servers : StopSteps(comps, servers, "abort") \in Runs(PlainOps)
    BY <1>2, <1>3, StopProgram
  <1>9. \A comps, servers, apply : RestartSteps(comps, servers, apply) \in Runs(PlainOps)
    BY <1>2, <1>3, RestartProgram
  <1>10. QED  BY <1>1, <1>4, <1>5, <1>6, <1>7, <1>8, <1>9

LEMMA PlainCommands ==
    ASSUME EInv, mishaps' = 0,
           \/ ReloadCluster
           \/ \E force \in BOOLEAN :
               DeployCluster(force) \/ DestroyCluster(force) \/ RedeployCluster(force)
           \/ \E comps \in ComponentLists, servers \in ServerLists :
               \/ StopCluster(comps, servers)
               \/ \E wp \in BOOLEAN :
                   StartCluster(comps, servers, wp) \/ RestartCluster(comps, servers, wp)
    PROVE  Remembered'
  <1> DEFINE c == Changed(Loaded)
  <1>1. c \in BOOLEAN
    BY DEF Changed
  <1>2. CASE ReloadCluster
    <2> DEFINE s == When(~AllUp, StartSteps(<<>>)) \o S("reload", "", "dump")
                    \o S("apply", "", "abort")
    <2>1. Begin(s, With(<<>>, {}, FALSE, FALSE)) /\ saved' = saved /\ c
      BY <1>2 DEF ReloadCluster, Changed
    <2>2. s \in Runs(PlainOps)
      BY PlainPrograms, WhenRuns, RunsConcat
    <2>3. Lone(s, c)
      <3>1. Lone(s, TRUE)  BY LoneReload
      <3> HIDE DEF s
      <3>2. QED  BY <3>1, <2>1 DEF Lone
    <2> HIDE DEF s
    <2>4. QED  BY <2>1, <2>2, <2>3, PlainRemembers
  <1>3. ASSUME NEW force \in BOOLEAN, DeployCluster(force)
        PROVE  Remembered'
    <2> DEFINE s == When(c, S("apply", "", "abort")) \o DeploySteps
    <2>1. Begin(s, With(<<>>, {}, force, FALSE)) /\ saved' = saved
      BY <1>3 DEF DeployCluster
    <2>2. s \in Runs(PlainOps)
      BY PlainPrograms, RunsConcat
    <2>3. Lone(s, c)
      BY <1>1, LoneDeploy
    <2> HIDE DEF s
    <2>4. QED  BY <2>1, <2>2, <2>3, PlainRemembers
  <1>4. ASSUME NEW force \in BOOLEAN, DestroyCluster(force)
        PROVE  Remembered'
    <2> DEFINE s == ForcedStop \o DestroySteps(c)
    <2>1. Begin(s, With(<<>>, {}, force, FALSE)) /\ saved' = saved
      BY <1>4 DEF DestroyCluster
    <2>2. s \in Runs(PlainOps)
      BY PlainPrograms, RunsConcat
    <2>3. Lone(s, c)
      BY <1>1, LoneDestroy
    <2> HIDE DEF s
    <2>4. QED  BY <2>1, <2>2, <2>3, PlainRemembers
  <1>5. ASSUME NEW force \in BOOLEAN, RedeployCluster(force)
        PROVE  Remembered'
    <2> DEFINE s == ForcedStop \o DestroySteps(c) \o S("reapply", "", "abort")
                    \o DeploySteps \o StartSteps(<<>>) \o S("dump", "", "abort")
    <2>1. Begin(s, With(<<>>, {}, force, FALSE)) /\ saved' = saved
      BY <1>5 DEF RedeployCluster
    <2>2. s \in Runs(PlainOps)
      BY PlainPrograms, RunsConcat
    <2>3. Lone(s, c)
      BY <1>1, LoneRedeploy
    <2> HIDE DEF s
    <2>4. QED  BY <2>1, <2>2, <2>3, PlainRemembers
  <1>6. ASSUME NEW comps, NEW servers, StopCluster(comps, servers)
        PROVE  Remembered'
    <2> DEFINE s == StopSteps(comps, servers, "abort")
    <2>1. Begin(s, With(comps, servers, FALSE, FALSE)) /\ saved' = saved
      BY <1>6 DEF StopCluster
    <2>2. s \in Runs(PlainOps)
      BY PlainPrograms
    <2>3. Lone(s, c)
      BY StopProgram, LoneNone
    <2> HIDE DEF s
    <2>4. QED  BY <2>1, <2>2, <2>3, PlainRemembers
  <1>7. ASSUME NEW comps, NEW servers, NEW wp, StartCluster(comps, servers, wp)
        PROVE  Remembered'
    <2> DEFINE s == StartSteps(comps)
    <2>1. Begin(s, With(comps, servers, FALSE, wp)) /\ saved' = saved
      BY <1>7 DEF StartCluster
    <2>2. s \in Runs(PlainOps)
      BY PlainPrograms
    <2>3. Lone(s, c)
      BY StartProgram, LoneNone
    <2> HIDE DEF s
    <2>4. QED  BY <2>1, <2>2, <2>3, PlainRemembers
  <1>8. ASSUME NEW comps, NEW servers, NEW wp, RestartCluster(comps, servers, wp)
        PROVE  Remembered'
    <2> DEFINE a == wp /\ c
               b == StatusCheck \in {Mixed, Stopped}
               s == When(b, StartSteps(comps)) \o RestartSteps(comps, servers, a)
    <2>1. Begin(s, With(comps, servers, FALSE, wp)) /\ saved' = saved
      BY <1>8 DEF RestartCluster
    <2>2. a => c
      OBVIOUS
    <2> HIDE DEF a, b, c
    <2>3. s \in Runs(PlainOps)
      BY PlainPrograms, WhenRuns, RunsConcat
    <2>4. Lone(s, c)
      BY <2>2, LoneRestart
    <2> HIDE DEF s
    <2>5. QED  BY <2>1, <2>3, <2>4, PlainRemembers DEF c
  <1> HIDE DEF c
  <1>9. QED  BY <1>2, <1>3, <1>4, <1>5, <1>6, <1>7, <1>8

\* edit-config, and its return to the configuration in force
LEMMA EditRemembers ==
    ASSUME EInv, mishaps' = 0, NEW k \in ConfigStatus, NEW o,
           Begin(NewConfig(k), o), o.version \in saved'
    PROVE  Remembered'
  <1>1. /\ todo' = NewConfig(k) /\ opts' = o /\ mem' = Loaded /\ Loaded' = Loaded
    BY BeginLeaves
  <1>2. /\ NewConfig(k) \in Program /\ ~Has(NewConfig(k), Spoilers)
        /\ ~Has(NewConfig(k), Applies) /\ Never(NewConfig(k), Spoilers, Applies)
    BY NewConfigProgram, NoneOf, SpoilersApply
  <1> DEFINE t == Tail(NewConfig(k))
             h == Head(NewConfig(k))
  <1>3. /\ NewConfig(k) # <<>> =>
             /\ \A A : Has(NewConfig(k), A) <=> h \in A \/ Has(t, A)
             /\ h \in Step
    <2>1. NewConfig(k) \in Seq(Good)
      BY <1>2, ProgramTyped
    <2>2. NewConfig(k) # <<>> => h \in Good
      BY <2>1, HeadTailProperties
    <2>3. QED  BY <2>1, <2>2, OfTail, ProgramTyped
  <1>4. CASE k = "UNCHNAGE"
    <2>1. NewConfig(k) # <<>> /\ h.op = "create" /\ t = ToLive
      BY <1>4, LiveForm DEF HeadIs
    <2>2. h \in Creates /\ h \notin Copies
      BY <2>1, <1>3 DEF Creates, Copies, Of
    <2> HIDE DEF h, t
    <2>3. Has(todo', Creates) /\ ~Has(todo', Copies)
      BY <2>1, <2>2, <1>1, <1>3, Parts
    <2>4. (Replacing /\ Postponing /\ Unmarking)' /\ ~Settled'
      BY <2>3, <1>1, <1>4 DEF Replacing, Postponing, Unmarking, Settled
    <2>5. QED  BY <2>4, <1>1, <1>2 DEF Remembered
  <1>5. CASE k # "UNCHNAGE"
    <2>1. NewConfig(k) # <<>> /\ h.op = "config_status" /\ t = ToTemp
      BY <1>5, TempForm DEF HeadIs
    <2>2. h \notin Creates
      BY <2>1, <1>3 DEF Creates, Of
    <2> HIDE DEF h, t
    <2>3. Has(todo', Copies) /\ ~Has(todo', Creates)
      BY <2>1, <2>2, <1>1, <1>3, Parts
    <2>4. (Replacing /\ Postponing /\ Unmarking)' /\ ~Settled'
      BY <2>3, <1>1, <1>5 DEF Replacing, Postponing, Unmarking, Settled
    <2>5. QED  BY <2>4, <1>1, <1>2 DEF Remembered
  <1>6. QED  BY <1>4, <1>5

\* deploy -c
LEMMA NewDeployRemembers ==
    ASSUME EInv, mishaps' = 0, NEW force \in BOOLEAN, DeployNewConfig(force)
    PROVE  Remembered'
  <1> DEFINE a == S("apply", "", "abort")
             w == When(Changed(Loaded), a)
             c == S("create", "", "abort")
             s == S("save", "", "abort")
             d == DeploySteps
             o == NewVersion(edits', force)
  <1>1. Begin(((w \o c) \o s) \o d, o) /\ saved' = saved \cup {edits'}
    BY DEF DeployNewConfig
  <1>2. o.version \in saved'
    BY <1>1 DEF NewVersion, Idle
  <1> HIDE DEF o
  <1>3. /\ todo = <<>> /\ todo' = ((w \o c) \o s) \o d /\ opts' = o /\ mem' = Loaded
        /\ Loaded' = Loaded /\ Effective' = Effective /\ mishaps = 0
    BY <1>1, BeginLeaves
  <1>4. Effective' \in saved'
    BY <1>1, <1>3, NothingBegun
  <1>5. a \in Seq(Good) /\ c \in Seq(Good) /\ s \in Seq(Good) /\ d \in Seq(Good)
    BY PiecesTyped
  <1>6. Edited = (c \o s) \o d
    BY DEF Edited
  <1>7. a \in Runs({"apply"})
    BY KnownSteps
  <1>8. Never(a, Spoilers, Applies)
    BY OfOne DEF S
  <1>9. w = IF Changed(Loaded) THEN a ELSE <<>>
    BY DEF When
  <1> HIDE DEF a, c, s, d, w
  <1>10. CASE Changed(Loaded)
    <2>1. ((a \o c) \o s) \o d = a \o Edited
      <3> DEFINE e == c \o s
      <3>1. e \in Seq(Good) /\ a \in Seq(Good) /\ d \in Seq(Good)
        BY <1>5, ConcatProperties
      <3>2. (a \o c) \o s = a \o e
        BY ONLY <1>5, ConcatAssociative DEF e
      <3>3. Edited = e \o d
        BY <1>6
      <3> HIDE DEF e
      <3>4. (a \o e) \o d = a \o (e \o d)
        BY ONLY <3>1, ConcatAssociative
      <3>5. QED  BY <3>2, <3>3, <3>4, Zenon
    <2>2. todo' = a \o Edited
      BY <2>1, <1>3, <1>9, <1>10
    <2>3. /\ a \in Program /\ ~Has(a, Marks) /\ ~Has(a, Copies)
      BY <1>7, NoneOf, MoreNone
    <2>4. /\ \A A : Has(a \o Edited, A) <=> Has(a, A) \/ Has(Edited, A)
          /\ \A A, B : Never(a \o Edited, A, B) <=>
                Never(a, A, B) /\ Never(Edited, A, B) /\ (Has(a, A) => ~Has(Edited, B))
      BY <2>3, Parts, Concat
    <2>5. /\ Has(todo', Creates) /\ ~Has(todo', Copies) /\ ~Has(todo', Marks)
          /\ Never(todo', Spoilers, Applies)
      BY <2>2, <2>3, <2>4, <1>8, Parts, SpoilersApply
    <2>6. (Replacing /\ Postponing /\ Unmarking)' /\ ~Settled'
      BY <2>2, <2>5, <1>4 DEF Replacing, Postponing, Unmarking, Settled, a
    <2>7. QED  BY <2>5, <2>6, <1>2, <1>3, <1>10 DEF Remembered
  <1>11. CASE ~Changed(Loaded)
    <2>1. <<>> \o c = c
      BY <1>5, ConcatEmptySeq
    <2>2. todo' = Edited
      BY <2>1, <1>3, <1>6, <1>9, <1>11
    <2>3. /\ Has(todo', Creates) /\ ~Has(todo', Copies) /\ ~Has(todo', Marks)
          /\ ~Has(todo', Applies) /\ Never(todo', Spoilers, Applies)
      BY <2>2, Parts, SpoilersApply
    <2>4. (Replacing /\ Postponing /\ Unmarking)' /\ ~Settled'
      BY <2>2, <2>3, <1>3, <1>11 DEF Replacing, Postponing, Unmarking, Settled
    <2>5. QED  BY <2>3, <2>4, <1>2, <1>3 DEF Remembered
  <1>12. QED  BY <1>10, <1>11

\* No command runs.
LEMMA IdleRemembers ==
    ASSUME todo' = <<>>, opts' = Idle, Effective' \in saved'
    PROVE  Remembered'
  <1>1. /\ ~Has(todo', Creates) /\ ~Has(todo', Copies) /\ ~Has(todo', Marks)
        /\ ~Has(todo', Saves) /\ ~Has(todo', Applies) /\ Never(todo', Spoilers, Applies)
    BY OfNone
  <1>2. (Replacing /\ Postponing /\ Unmarking)'
    BY <1>1 DEF Replacing, Postponing, Unmarking
  <1>3. QED  BY <1>1, <1>2 DEF Remembered

LEMMA CommandsRemember ==
    ASSUME EInv, Command, mishaps' = 0
    PROVE  Remembered'
  <1>1. ASSUME NEW k \in ConfigStatus, EditConfig(k)
        PROVE  Remembered'
    <2> DEFINE o == NewVersion(edits', FALSE)
    <2>1. Begin(NewConfig(k), o) /\ o.version \in saved'
      BY <1>1 DEF EditConfig, NewVersion, Idle
    <2> HIDE DEF o
    <2>2. QED  BY <2>1, EditRemembers
  <1>2. ASSUME RevertConfig
        PROVE  Remembered'
    <2> DEFINE o == NewVersion(config, FALSE)
    <2>1. Begin(NewConfig("UNCHNAGE"), o) /\ o.version \in saved'
      BY <1>2 DEF RevertConfig, NewVersion, Idle
    <2>2. "UNCHNAGE" \in ConfigStatus
      BY DEF ConfigStatus
    <2> HIDE DEF o
    <2>3. QED  BY <2>1, <2>2, EditRemembers
  <1>3. ASSUME PruneConfig
        PROVE  Remembered'
    <2>1. /\ info' = Absent /\ config' = None /\ saved' = {None} /\ todo' = <<>> /\ opts' = Idle
      BY <1>3 DEF PruneConfig
    <2>2. ~Changed(Loaded')
      BY <2>1 DEF Loaded, Changed, Fresh
    <2>3. Effective' \in saved'
      BY <2>1, <2>2 DEF Effective
    <2>4. QED  BY <2>1, <2>3, IdleRemembers
  <1>4. QED  BY <1>1, <1>2, <1>3, PlainCommands, NewDeployRemembers DEF Command

LEMMA EInvInit ==
    ASSUME Init
    PROVE  EInv
  <1>1. TInv
    BY TInvInit
  <1>2. /\ todo = <<>> /\ opts = Idle /\ config = None /\ tmp = None /\ saved = {None}
    BY DEF Init
  <1>3. Effective \in saved
    BY <1>2 DEF Effective
  <1>4. /\ ~Has(todo, Creates) /\ ~Has(todo, Copies) /\ ~Has(todo, Marks)
        /\ ~Has(todo, Saves) /\ ~Has(todo, Applies) /\ Never(todo, Spoilers, Applies)
    BY <1>2, OfNone
  <1>5. Replacing /\ Postponing /\ Unmarking
    BY <1>4 DEF Replacing, Postponing, Unmarking
  <1>6. QED  BY <1>1, <1>2, <1>3, <1>4, <1>5 DEF EInv, Remembered

LEMMA EInvNext ==
    ASSUME EInv, [Next]_vars
    PROVE  EInv'
  <1>1. TInv'
    BY TInvNext DEF EInv
  <1>2. mishaps \in Nat
    BY DEF EInv, TInv, TypeOK
  <1>3. ASSUME mishaps' = 0
        PROVE  Remembered'
    <2>1. CASE UNCHANGED vars
      BY <2>1 DEF vars, EInv, Remembered, Loaded, Settled, Effective, Replacing, Postponing,
                  Unmarking
    <2>2. CASE Command
      BY <2>2, <1>3, CommandsRemember
    <2>3. CASE FileStep \/ ServerStep
      BY <2>3, <1>3, FilesRemember, ServersRemember
    <2>4. CASE Finish
      <3>1. /\ todo = <<>> /\ todo' = <<>> /\ opts' = Idle /\ saved' = saved
            /\ Effective' = Effective /\ mishaps = 0
        BY <2>4, <1>3 DEF Finish, disk, Effective, Loaded
      <3>2. QED  BY <3>1, NothingBegun, IdleRemembers
    <2>5. CASE Crash \/ \E i \in Instances : Die(i)
      <3>1. mishaps' = mishaps + 1
        BY <2>5 DEF Crash, Die, Mishap
      <3>2. QED  BY <3>1, <1>2, <1>3
    <2>6. QED  BY <2>1, <2>2, <2>3, <2>4, <2>5 DEF Next
  <1>4. ASSUME mishaps' # 0
        PROVE  Remembered'
    BY <1>4 DEF Remembered
  <1>5. QED  BY <1>1, <1>3, <1>4 DEF EInv

\* Between commands the configuration that is, or is going to be, in force is
\* the one the user saved last: edit-config, its return to the old
\* configuration, deploy -c, reload, restart, redeploy and destroy lose no
\* edit, whichever workflow fails, as long as obd is not killed and can write
\* its files (core.py, the order in which the commands write .data,
\* config.yaml and tmp_config.yaml).
THEOREM EditKept == Spec => []EditNotLost
  <1>1. EInv => EditNotLost
    <2> SUFFICES ASSUME EInv, opts = Idle, mishaps = 0
                 PROVE  Effective \in saved
      BY DEF EditNotLost
    <2>1. todo = <<>>
      BY DEF EInv, TInv, Formed
    <2>2. QED  BY <2>1, NothingBegun
  <1>2. Spec => []EInv
    BY EInvInit, EInvNext, PTL DEF Spec
  <1>3. QED  BY <1>1, <1>2, PTL
=============================================================================
