--------------------------- MODULE Schedule_proofs ---------------------------
(***************************************************************************)
(* Proofs about Schedule, for any components, any declared dependencies,   *)
(* any number of zones, servers and faults: the order in which components  *)
(* are sorted, the types, and what a command promises to its plugins, to   *)
(* its user and to the binlog instances.                                   *)
(*                                                                         *)
(* The argument has three parts.  (1) Flattening lays sequences out one    *)
(* after the other, so that the merged workflow is ordered by stage, then  *)
(* by component, then by its place in the template (Places).  (2) What is  *)
(* true of each template, and that no component comes before one that it   *)
(* depends on, gives what is true of the merged workflow as relations      *)
(* between its plugins: an A is Behind a B, a B Closes an A, and so on.     *)
(* (3) The relations are kept when the first plugin is taken, and          *)
(* together with what the plugins do they are an inductive invariant.      *)
(***************************************************************************)
EXTENDS Schedule, SequenceTheorems, WellFoundedInduction, TLAPS

-----------------------------------------------------------------------------
(* Sequences of sequences.                                                 *)

\* Induction over numbers, stated with a set.
LEMMA UpTo ==
    ASSUME NEW n \in Nat, NEW S, 0 \in S,
           \A m \in 0..(n - 1) : m \in S => m + 1 \in S
    PROVE  n \in S
<1>1. SUFFICES ASSUME n \notin S PROVE FALSE
  OBVIOUS
<1> DEFINE Bad == (0..n) \ S
<1>2. Bad \subseteq Nat /\ n \in Bad
  BY <1>1
<1>3. PICK m \in Bad : \A k \in Bad : ~(<<k, m>> \in OpToRel(<, Nat))
  BY <1>2, NatLessThanWellFounded, WFMin
<1>4. \A k \in Bad : ~(k < m)
  BY <1>2, <1>3 DEF OpToRel
<1>5. m # 0 /\ m - 1 \in 0..(n - 1)
  OBVIOUS
<1>6. m - 1 \in S
  BY <1>4, <1>5
<1>7. (m - 1) + 1 \in S
  BY <1>5, <1>6
<1> QED  BY <1>5, <1>7

\* FlattenSeq appends one sequence after the other.
LEMMA Flattened ==
    ASSUME NEW T, NEW seqs \in Seq(Seq(T)), Len(seqs) # 0
    PROVE  \E f \in [1..Len(seqs) -> Seq(T)] :
             /\ FlattenSeq(seqs) = f[Len(seqs)]
             /\ f[1] = seqs[1]
             /\ \A i \in 2..Len(seqs) : f[i] = f[i - 1] \o seqs[i]
<1> DEFINE n == Len(seqs)
           Step(f, i) == IF i = 1 THEN seqs[i] ELSE f[i - 1] \o seqs[i]
           Built(m) == \E f \in [1..m -> Seq(T)] : f = [i \in 1..m |-> Step(f, i)]
           Good == {m \in 0..n : m = 0 \/ Built(m)}
<1>1. n \in Nat /\ n # 0 /\ \A i \in 1..n : seqs[i] \in Seq(T)
  OBVIOUS
<1>2. 0 \in Good
  BY <1>1
<1>3. ASSUME NEW m \in 0..(n - 1), m \in Good PROVE m + 1 \in Good
  <2>1. CASE m = 0
    <3> DEFINE g == [i \in 1..1 |-> seqs[1]]
    <3>1. g \in [1..1 -> Seq(T)]
      BY <1>1
    <3>2. g = [i \in 1..1 |-> Step(g, i)]
      OBVIOUS
    <3>3. Built(1)
      <4> HIDE DEF g
      <4> QED  BY <3>1, <3>2
    <3> HIDE DEF Built
    <3> QED  BY <1>1, <2>1, <3>3
  <2>2. CASE m # 0
    <3>1. PICK f \in [1..m -> Seq(T)] : f = [i \in 1..m |-> Step(f, i)]
      BY <1>3, <2>2
    <3> DEFINE g == [i \in 1..(m + 1) |-> IF i = m + 1 THEN f[m] \o seqs[m + 1] ELSE f[i]]
    <3>2. f[m] \in Seq(T) /\ seqs[m + 1] \in Seq(T) /\ f[m] \o seqs[m + 1] \in Seq(T)
      BY <1>1, <2>2, ConcatProperties
    <3>3. g \in [1..(m + 1) -> Seq(T)]
      BY <3>2
    <3>4. \A i \in 1..(m + 1) : g[i] = Step(g, i)
      <4> TAKE i \in 1..(m + 1)
      <4>1. CASE i = m + 1
        <5>1. i # 1 /\ i - 1 \in 1..m /\ i - 1 # m + 1 /\ i - 1 = m
          BY <2>2, <4>1
        <5>2. g[i - 1] = f[m]
          BY <5>1
        <5>3. g[i] = f[m] \o seqs[i]
          BY <4>1
        <5> QED  BY <5>1, <5>2, <5>3
      <4>2. CASE i # m + 1
        <5>1. i \in 1..m /\ g[i] = f[i]
          BY <4>2
        <5>3. f[i] = Step(f, i)
          <6> DEFINE h == [j \in 1..m |-> Step(f, j)]
          <6>1. h[i] = Step(f, i)
            BY <5>1
          <6>2. f = h
            BY <3>1
          <6> QED  BY <6>1, <6>2
        <5>2. i # 1 => i - 1 \in 1..m /\ g[i - 1] = f[i - 1]
          BY <5>1
        <5> QED  BY <5>1, <5>2, <5>3
      <4> QED  BY <4>1, <4>2
    <3>5. g = [i \in 1..(m + 1) |-> Step(g, i)]
      BY <3>4
    <3>6. Built(m + 1)
      <4> HIDE DEF g, Step
      <4> QED  BY <3>3, <3>5
    <3> HIDE DEF Built
    <3> QED  BY <1>1, <3>6
  <2> QED  BY <2>1, <2>2
<1>4. n \in Good
  <2> HIDE DEF Good, n
  <2> QED  BY <1>1, <1>2, <1>3, UpTo
<1>5. \E f \in [1..n -> Seq(T)] : f = [i \in 1..n |-> Step(f, i)]
  BY <1>1, <1>4
<1>6. PICK f : FlattenSeq(seqs) = f[n] /\ f = [i \in 1..n |-> Step(f, i)]
  <2> DEFINE flatten[i \in 1..n] == IF i = 1 THEN seqs[i] ELSE flatten[i - 1] \o seqs[i]
  <2>1. flatten = [i \in 1..n |-> Step(flatten, i)]
    BY <1>5
  <2>2. FlattenSeq(seqs) = flatten[n]
    BY <1>1 DEF FlattenSeq
  <2> QED  BY <2>1, <2>2
<1>7. \A i \in 1..n : f[i] = Step(f, i)
  <2> DEFINE h == [i \in 1..n |-> Step(f, i)]
  <2>1. \A i \in 1..n : h[i] = Step(f, i)
    OBVIOUS
  <2>2. f = h
    BY <1>6
  <2> QED  BY <2>1, <2>2
<1> DEFINE Typed == {m \in 0..n : m = 0 \/ f[m] \in Seq(T)}
<1>8. ASSUME NEW m \in 0..(n - 1), m \in Typed PROVE m + 1 \in Typed
  <2>1. m + 1 \in 1..n /\ f[m + 1] = Step(f, m + 1) /\ seqs[m + 1] \in Seq(T)
    BY <1>1, <1>7
  <2>2. CASE m = 0
    BY <2>1, <2>2
  <2>3. CASE m # 0
    <3>1. f[m] \in Seq(T)
      BY <1>8, <2>3
    <3>2. m + 1 # 1 /\ (m + 1) - 1 = m
      BY <2>3
    <3>3. f[m + 1] = f[m] \o seqs[m + 1]
      BY <2>1, <3>2
    <3>4. f[m + 1] \in Seq(T)
      BY <2>1, <3>1, <3>3, ConcatProperties
    <3>5. m + 1 \in 0..n
      BY <1>1
    <3> HIDE DEF n, Step, Good, Built
    <3> QED  BY <3>4, <3>5
  <2> QED  BY <2>2, <2>3
<1>9. ASSUME NEW i \in 1..n PROVE f[i] \in Seq(T)
  <2>1. ASSUME NEW m \in 0..(i - 1), m \in Typed PROVE m + 1 \in Typed
    BY <1>1, <1>8, <2>1
  <2>2. 0 \in Typed
    BY <1>1
  <2>3. i \in Typed
    <3> HIDE DEF Typed, n
    <3> QED  BY <1>1, <2>1, <2>2, UpTo
  <2> QED  BY <2>3
<1>10. f \in [1..n -> Seq(T)]
  <2> HIDE DEF Step
  <2> QED  BY <1>6, <1>9
<1>11. f[1] = seqs[1] /\ \A i \in 2..n : f[i] = f[i - 1] \o seqs[i]
  <2>1. f[1] = seqs[1]
    BY <1>1, <1>7
  <2>2. ASSUME NEW i \in 2..n PROVE f[i] = f[i - 1] \o seqs[i]
    <3>1. i \in 1..n /\ i # 1
      BY <1>1
    <3> QED  BY <1>7, <3>1
  <2> QED  BY <2>1, <2>2
<1> HIDE DEF Good, Typed, Built, Step
<1> QED  BY <1>6, <1>10, <1>11

\* Sequence u is the first m of seqs, one after the other: its element k is element o[k]
\* of sequence b[k], in this order, and none is left out.
Laid(u, seqs, m, b, o) ==
    /\ \A k \in DOMAIN u :
         /\ b[k] \in 1..m /\ o[k] \in DOMAIN seqs[b[k]]
         /\ u[k] = seqs[b[k]][o[k]]
    /\ \A k, l \in DOMAIN u : k < l => b[k] < b[l] \/ (b[k] = b[l] /\ o[k] < o[l])
    /\ \A i \in 1..m : \A j \in DOMAIN seqs[i] : \E k \in DOMAIN u : b[k] = i /\ o[k] = j

\* The first sequence is laid.
LEMMA LaidOne ==
    ASSUME NEW T, NEW seqs \in Seq(Seq(T)), Len(seqs) # 0
    PROVE  \E b, o \in [DOMAIN seqs[1] -> Nat] : Laid(seqs[1], seqs, 1, b, o)
<1> DEFINE u == seqs[1]
           b == [k \in DOMAIN u |-> 1]
           o == [k \in DOMAIN u |-> k]
<1>1. u \in Seq(T) /\ DOMAIN u = 1..Len(u) /\ Len(u) \in Nat
  BY LenProperties
<1>2. b \in [DOMAIN u -> Nat] /\ o \in [DOMAIN u -> Nat]
  BY <1>1
<1>3. \A k \in DOMAIN u : b[k] = 1 /\ o[k] = k /\ seqs[b[k]] = u
  OBVIOUS
<1>4. \A i \in 1..1 : seqs[i] = u
  OBVIOUS
<1> HIDE DEF u, b, o
<1>5. Laid(u, seqs, 1, b, o)
  <2>1. ASSUME NEW k \in DOMAIN u
        PROVE  b[k] \in 1..1 /\ o[k] \in DOMAIN seqs[b[k]] /\ u[k] = seqs[b[k]][o[k]]
    BY <1>3
  <2>2. ASSUME NEW k \in DOMAIN u, NEW l \in DOMAIN u, k < l
        PROVE  b[k] < b[l] \/ (b[k] = b[l] /\ o[k] < o[l])
    BY <1>3, <2>2
  <2>3. ASSUME NEW i \in 1..1, NEW j \in DOMAIN seqs[i]
        PROVE  \E k \in DOMAIN u : b[k] = i /\ o[k] = j
    <3>1. j \in DOMAIN u /\ i = 1
      BY <1>4
    <3> QED  BY <1>3, <3>1
  <2> QED  BY <2>1, <2>2, <2>3 DEF Laid
<1> QED  BY <1>2, <1>5 DEF u

\* So is one more, appended to what was laid.
LEMMA LaidMore ==
    ASSUME NEW T, NEW seqs \in Seq(Seq(T)), NEW m \in Nat, m + 1 \in 1..Len(seqs),
           NEW u \in Seq(T), NEW b \in [DOMAIN u -> Nat], NEW o \in [DOMAIN u -> Nat],
           Laid(u, seqs, m, b, o)
    PROVE  LET v == u \o seqs[m + 1]
           IN  \E b1, o1 \in [DOMAIN v -> Nat] : Laid(v, seqs, m + 1, b1, o1)
<1> DEFINE t == seqs[m + 1]
           v == u \o t
           b1 == [k \in DOMAIN v |-> IF k \in DOMAIN u THEN b[k] ELSE m + 1]
           o1 == [k \in DOMAIN v |-> IF k \in DOMAIN u THEN o[k] ELSE k - Len(u)]
<1>1. /\ t \in Seq(T) /\ Len(u) \in Nat /\ Len(t) \in Nat
      /\ DOMAIN u = 1..Len(u) /\ DOMAIN t = 1..Len(t)
  BY LenProperties
<1>2. /\ v \in Seq(T) /\ DOMAIN v = 1..(Len(u) + Len(t))
      /\ \A k \in 1..(Len(u) + Len(t)) : v[k] = IF k <= Len(u) THEN u[k] ELSE t[k - Len(u)]
  BY <1>1, ConcatProperties, LenProperties
<1> HIDE DEF v
<1>3. b1 \in [DOMAIN v -> Nat] /\ o1 \in [DOMAIN v -> Nat]
  BY <1>1, <1>2
<1>4. \A k \in DOMAIN u : k \in DOMAIN v /\ v[k] = u[k] /\ b1[k] = b[k] /\ o1[k] = o[k] /\ b[k] \in 1..m
  BY <1>1, <1>2 DEF Laid
<1>5. ASSUME NEW k \in DOMAIN v, k \notin DOMAIN u
      PROVE  /\ k > Len(u) /\ b1[k] = m + 1 /\ o1[k] = k - Len(u)
             /\ o1[k] \in DOMAIN t /\ v[k] = t[o1[k]]
  BY <1>1, <1>2, <1>5
<1>6. \A j \in DOMAIN t : Len(u) + j \in DOMAIN v /\ Len(u) + j \notin DOMAIN u
  BY <1>1, <1>2
<1> HIDE DEF t, b1, o1
<1>7. ASSUME NEW k \in DOMAIN v
      PROVE  b1[k] \in 1..(m + 1) /\ o1[k] \in DOMAIN seqs[b1[k]] /\ v[k] = seqs[b1[k]][o1[k]]
  <2>1. CASE k \in DOMAIN u
    BY <1>4, <2>1 DEF Laid
  <2>2. CASE k \notin DOMAIN u
    <3>1. b1[k] = m + 1 /\ b1[k] \in 1..(m + 1) /\ o1[k] \in DOMAIN t /\ v[k] = t[o1[k]]
      BY <1>5, <2>2
    <3>2. seqs[b1[k]] = t
      BY <3>1 DEF t
    <3> QED  BY <3>1, <3>2
  <2> QED  BY <2>1, <2>2
<1>8. ASSUME NEW k \in DOMAIN v, NEW l \in DOMAIN v, k < l
      PROVE  b1[k] < b1[l] \/ (b1[k] = b1[l] /\ o1[k] < o1[l])
  <2>1. CASE l \in DOMAIN u
    <3>1. k \in DOMAIN u
      BY <1>1, <1>2, <1>8, <2>1
    <3> QED  BY <1>4, <1>8, <2>1, <3>1 DEF Laid
  <2>2. CASE k \in DOMAIN u /\ l \notin DOMAIN u
    BY <1>4, <1>5, <2>2
  <2>3. CASE k \notin DOMAIN u /\ l \notin DOMAIN u
    BY <1>1, <1>2, <1>5, <1>8, <2>3
  <2> QED  BY <2>1, <2>2, <2>3, <1>1, <1>2, <1>8
<1>9. ASSUME NEW i \in 1..(m + 1), NEW j \in DOMAIN seqs[i]
      PROVE  \E k \in DOMAIN v : b1[k] = i /\ o1[k] = j
  <2>1. CASE i \in 1..m
    <3>1. PICK k \in DOMAIN u : b[k] = i /\ o[k] = j
      BY <2>1 DEF Laid
    <3> QED  BY <1>4, <3>1
  <2>2. CASE i = m + 1
    <3>1. j \in DOMAIN t
      BY <2>2 DEF t
    <3>2. Len(u) + j \in DOMAIN v /\ Len(u) + j \notin DOMAIN u
      BY <1>6, <3>1
    <3>3. b1[Len(u) + j] = i /\ o1[Len(u) + j] = j
      BY <1>1, <1>5, <2>2, <3>1, <3>2
    <3> QED  BY <3>2, <3>3
  <2> QED  BY <2>1, <2>2
<1>10. Laid(v, seqs, m + 1, b1, o1)
  BY <1>7, <1>8, <1>9 DEF Laid
<1> QED  BY <1>3, <1>10 DEF v, t

\* A flattened sequence is laid out.
LEMMA SomeFlatIsLaid ==
    ASSUME NEW T, NEW seqs \in Seq(Seq(T)), Len(seqs) # 0
    PROVE  LET u == FlattenSeq(seqs)
           IN  /\ u \in Seq(T)
               /\ \E b, o \in [DOMAIN u -> Nat] : Laid(u, seqs, Len(seqs), b, o)
<1> DEFINE n == Len(seqs)
<1>1. n \in Nat /\ n # 0 /\ \A i \in 1..n : seqs[i] \in Seq(T)
  OBVIOUS
<1>2. PICK f \in [1..n -> Seq(T)] :
        /\ FlattenSeq(seqs) = f[n] /\ f[1] = seqs[1]
        /\ \A i \in 2..n : f[i] = f[i - 1] \o seqs[i]
  BY Flattened
<1> DEFINE IsLaid(m) == \E b, o \in [DOMAIN f[m] -> Nat] : Laid(f[m], seqs, m, b, o)
           Good == {m \in 0..n : m = 0 \/ IsLaid(m)}
<1>3. ASSUME NEW m \in 0..(n - 1), m \in Good PROVE m + 1 \in Good
  <2>1. CASE m = 0
    <3>1. IsLaid(1)
      BY <1>1, <1>2, LaidOne
    <3> HIDE DEF IsLaid
    <3> QED  BY <1>1, <2>1, <3>1
  <2>2. CASE m # 0
    <3>1. PICK b \in [DOMAIN f[m] -> Nat], o \in [DOMAIN f[m] -> Nat] : Laid(f[m], seqs, m, b, o)
      BY <1>3, <2>2
    <3>2. m \in 1..n /\ m + 1 \in 1..n /\ m + 1 \in 2..n /\ (m + 1) - 1 = m
      BY <1>1, <2>2
    <3>5. f[m] \in Seq(T) /\ m \in Nat
      <4> HIDE DEF n, Good, IsLaid
      <4> QED  BY <1>2, <3>2
    <3>3. f[m + 1] = f[m] \o seqs[m + 1]
      BY <1>2, <3>2
    <3>4. IsLaid(m + 1)
      <4> DEFINE v == f[m] \o seqs[m + 1]
      <4>1. \E b1, o1 \in [DOMAIN v -> Nat] : Laid(v, seqs, m + 1, b1, o1)
        BY <3>1, <3>2, <3>5, LaidMore
      <4> QED  BY <3>3, <4>1
    <3> HIDE DEF IsLaid
    <3> QED  BY <1>1, <3>4
  <2> QED  BY <2>1, <2>2
<1>4. n \in Good
  <2>1. 0 \in Good
    BY <1>1
  <2> HIDE DEF Good, n
  <2> QED  BY <1>1, <1>3, <2>1, UpTo
<1>5. IsLaid(n)
  BY <1>1, <1>4
<1>6. f[n] \in Seq(T)
  BY <1>1, <1>2
<1> HIDE DEF Good
<1> QED  BY <1>2, <1>5, <1>6

\* Also when there is no sequence.
LEMMA FlatIsLaid ==
    ASSUME NEW T, NEW seqs \in Seq(Seq(T))
    PROVE  LET u == FlattenSeq(seqs)
           IN  /\ u \in Seq(T)
               /\ \E b, o \in [DOMAIN u -> Nat] : Laid(u, seqs, Len(seqs), b, o)
<1>1. CASE Len(seqs) # 0
  BY <1>1, SomeFlatIsLaid
<1>2. CASE Len(seqs) = 0
  <2>1. FlattenSeq(seqs) = <<>>
    BY <1>2 DEF FlattenSeq
  <2>2. Laid(<<>>, seqs, 0, <<>>, <<>>)
    BY DEF Laid
  <2>3. <<>> \in [DOMAIN <<>> -> Nat]
    OBVIOUS
  <2>4. \E b, o \in [DOMAIN <<>> -> Nat] : Laid(<<>>, seqs, Len(seqs), b, o)
    BY <1>2, <2>2, <2>3
  <2>5. <<>> \in Seq(T)
    OBVIOUS
  <2> QED  BY <2>1, <2>4, <2>5
<1> QED  BY <1>1, <1>2

-----------------------------------------------------------------------------
(* The merged workflow, place by place.                                    *)

\* What plugins there are.
Names == {"start", "stop", "health_check", "start_instances", "stop_instances", "restart_pre",
          "start_zone", "stop_zone"} \cup Passive

Plugin   == [on : Modelled, plugin : Names, zone : ZoneNames \cup {NoZone}]
Template == [of : Modelled, on : Modelled, plugin : Names, zone : ZoneNames \cup {NoZone}]

\* Element x of m is plugin off[x] of stage number st[x] of the workflow of component
\* number co[x].
Placed(m, wf, order, st, co, off) ==
    /\ \A x \in DOMAIN m :
         /\ st[x] \in 1..4 /\ co[x] \in DOMAIN order
         /\ off[x] \in DOMAIN wf[order[co[x]]][Stages[st[x]]]
         /\ m[x] = Of(order[co[x]], wf[order[co[x]]][Stages[st[x]]])[off[x]]
    /\ \A x, y \in DOMAIN m : x < y =>
         \/ st[x] < st[y]
         \/ st[x] = st[y] /\ (co[x] < co[y] \/ (co[x] = co[y] /\ off[x] < off[y]))
    /\ \A s \in 1..4, i \in DOMAIN order : \A j \in DOMAIN wf[order[i]][Stages[s]] :
         \E x \in DOMAIN m : st[x] = s /\ co[x] = i /\ off[x] = j

\* The stages are four, all different.
LEMMA FourStages ==
    /\ DOMAIN Stages = 1..4 /\ Len(Stages) = 4
    /\ Stages[1] = 9 /\ Stages[2] = 10 /\ Stages[3] = 20 /\ Stages[4] = 30
    /\ ToSet(Stages) = {9, 10, 20, 30}
    /\ \A s \in 1..4 : Stages[s] \in {9, 10, 20, 30}
  BY DEF Stages, First, Second, Third, ToSet

\* Of only adds the component.
LEMMA OfType ==
    ASSUME NEW c \in Modelled, NEW w \in Seq(Plugin)
    PROVE  /\ Of(c, w) \in Seq(Template)
           /\ DOMAIN Of(c, w) = DOMAIN w
           /\ \A i \in DOMAIN w : /\ Of(c, w)[i].of = c /\ Of(c, w)[i].on = w[i].on
                                  /\ Of(c, w)[i].plugin = w[i].plugin /\ Of(c, w)[i].zone = w[i].zone
<1>1. DOMAIN w = 1..Len(w) /\ Len(w) \in Nat /\ \A i \in 1..Len(w) : w[i] \in Plugin
  BY LenProperties
<1> QED  BY <1>1 DEF Of, Plugin, Template

\* The order of a merged workflow is that of its stages, components and lists.
LEMMA MergedIsPlaced ==
    ASSUME NEW order \in Seq(Modelled),
           NEW wf \in [ToSet(order) -> [ToSet(Stages) -> Seq(Plugin)]]
    PROVE  LET m == Merged(wf, order)
           IN  /\ m \in Seq(Template)
               /\ \E st, co, off \in [DOMAIN m -> Nat] : Placed(m, wf, order, st, co, off)
<1> DEFINE Row(s) == [i \in DOMAIN order |-> Of(order[i], wf[order[i]][Stages[s]])]
           Inner(s) == OfStage(wf, order, Stages[s])
           rows == [s \in DOMAIN Stages |-> Inner(s)]
           m == Merged(wf, order)
           IsLaid(s, b, o) == Laid(Inner(s), Row(s), Len(order), b, o)
           B == [s \in 1..4 |-> CHOOSE b \in [DOMAIN Inner(s) -> Nat] :
                                   \E o \in [DOMAIN Inner(s) -> Nat] : IsLaid(s, b, o)]
           O == [s \in 1..4 |-> CHOOSE o \in [DOMAIN Inner(s) -> Nat] : IsLaid(s, B[s], o)]
<1>1. DOMAIN order = 1..Len(order) /\ Len(order) \in Nat /\ \A i \in DOMAIN order : order[i] \in Modelled
  BY LenProperties
<1>2. ASSUME NEW s \in 1..4, NEW i \in DOMAIN order
      PROVE  /\ wf[order[i]][Stages[s]] \in Seq(Plugin)
             /\ Of(order[i], wf[order[i]][Stages[s]]) \in Seq(Template)
  <2>1. order[i] \in ToSet(order) /\ Stages[s] \in ToSet(Stages)
    BY FourStages DEF ToSet
  <2>2. wf[order[i]][Stages[s]] \in Seq(Plugin)
    BY <2>1
  <2> QED  BY <1>1, <2>2, OfType
<1>3. ASSUME NEW s \in 1..4 PROVE Row(s) \in Seq(Seq(Template)) /\ Len(Row(s)) = Len(order)
  <2>1. \A i \in 1..Len(order) : Row(s)[i] \in Seq(Template)
    BY <1>1, <1>2
  <2> QED  BY <1>1, <2>1
<1>4. ASSUME NEW s \in 1..4
      PROVE  /\ Inner(s) \in Seq(Template)
             /\ B[s] \in [DOMAIN Inner(s) -> Nat] /\ O[s] \in [DOMAIN Inner(s) -> Nat]
             /\ IsLaid(s, B[s], O[s])
  <2>1. Inner(s) = FlattenSeq(Row(s))
    BY DEF OfStage
  <2> HIDE DEF Row, Inner
  <2>2. Inner(s) \in Seq(Template) /\ \E b, o \in [DOMAIN Inner(s) -> Nat] : IsLaid(s, b, o)
    BY <1>3, <2>1, FlatIsLaid
  <2> HIDE DEF IsLaid
  <2> QED  BY <2>2
<1> HIDE DEF Inner, B, O
<1>5. rows \in Seq(Seq(Template)) /\ Len(rows) = 4 /\ \A s \in 1..4 : rows[s] = Inner(s)
  BY <1>4, FourStages
<1>6. m = FlattenSeq(rows)
  BY DEF Merged, Inner
<1> HIDE DEF rows, m
<1>7. PICK b \in [DOMAIN m -> Nat], o \in [DOMAIN m -> Nat] : Laid(m, rows, 4, b, o)
  BY <1>5, <1>6, FlatIsLaid
<1>8. m \in Seq(Template)
  BY <1>5, <1>6, FlatIsLaid
<1> DEFINE co == [x \in DOMAIN m |-> B[b[x]][o[x]]]
           off == [x \in DOMAIN m |-> O[b[x]][o[x]]]
<1>9. ASSUME NEW x \in DOMAIN m
      PROVE  /\ b[x] \in 1..4 /\ o[x] \in DOMAIN Inner(b[x]) /\ m[x] = Inner(b[x])[o[x]]
             /\ co[x] = B[b[x]][o[x]] /\ off[x] = O[b[x]][o[x]]
  BY <1>5, <1>7 DEF Laid
<1>10. ASSUME NEW s \in 1..4, NEW k \in DOMAIN Inner(s)
       PROVE  /\ B[s][k] \in DOMAIN order
              /\ O[s][k] \in DOMAIN wf[order[B[s][k]]][Stages[s]]
              /\ Inner(s)[k] = Of(order[B[s][k]], wf[order[B[s][k]]][Stages[s]])[O[s][k]]
  <2>1. B[s][k] \in DOMAIN order /\ O[s][k] \in DOMAIN Row(s)[B[s][k]]
        /\ Inner(s)[k] = Row(s)[B[s][k]][O[s][k]]
    <3> HIDE DEF Row
    <3> QED  BY <1>1, <1>4 DEF Laid
  <2>2. Row(s)[B[s][k]] = Of(order[B[s][k]], wf[order[B[s][k]]][Stages[s]])
    BY <2>1
  <2>3. DOMAIN Of(order[B[s][k]], wf[order[B[s][k]]][Stages[s]]) = DOMAIN wf[order[B[s][k]]][Stages[s]]
    BY DEF Of
  <2> QED  BY <2>1, <2>2, <2>3
<1>11. co \in [DOMAIN m -> Nat] /\ off \in [DOMAIN m -> Nat]
  <2>1. ASSUME NEW x \in DOMAIN m PROVE co[x] \in Nat /\ off[x] \in Nat
    BY <1>4, <1>9
  <2> QED  BY <2>1
<1> HIDE DEF co, off
<1>12. ASSUME NEW x \in DOMAIN m
       PROVE  /\ b[x] \in 1..4 /\ co[x] \in DOMAIN order
              /\ off[x] \in DOMAIN wf[order[co[x]]][Stages[b[x]]]
              /\ m[x] = Of(order[co[x]], wf[order[co[x]]][Stages[b[x]]])[off[x]]
  <2>1. b[x] \in 1..4 /\ o[x] \in DOMAIN Inner(b[x])
    BY <1>9
  <2>2. /\ B[b[x]][o[x]] \in DOMAIN order
        /\ O[b[x]][o[x]] \in DOMAIN wf[order[B[b[x]][o[x]]]][Stages[b[x]]]
        /\ Inner(b[x])[o[x]] = Of(order[B[b[x]][o[x]]], wf[order[B[b[x]][o[x]]]][Stages[b[x]]])[O[b[x]][o[x]]]
    BY <1>10, <2>1
  <2> QED  BY <1>9, <2>2
<1>13. ASSUME NEW x \in DOMAIN m, NEW y \in DOMAIN m, x < y
       PROVE  \/ b[x] < b[y]
              \/ b[x] = b[y] /\ (co[x] < co[y] \/ (co[x] = co[y] /\ off[x] < off[y]))
  <2>1. b[x] < b[y] \/ (b[x] = b[y] /\ o[x] < o[y])
    BY <1>7, <1>13 DEF Laid
  <2>2. CASE b[x] = b[y] /\ o[x] < o[y]
    <3>1. /\ o[x] \in DOMAIN Inner(b[x]) /\ o[y] \in DOMAIN Inner(b[x])
          /\ IsLaid(b[x], B[b[x]], O[b[x]])
      BY <1>4, <1>9, <2>2
    <3>2. \/ B[b[x]][o[x]] < B[b[x]][o[y]]
          \/ B[b[x]][o[x]] = B[b[x]][o[y]] /\ O[b[x]][o[x]] < O[b[x]][o[y]]
      <4> HIDE DEF Row
      <4> QED  BY <2>2, <3>1 DEF Laid
    <3> QED  BY <1>9, <2>2, <3>2
  <2> QED  BY <2>1, <2>2
<1>14. ASSUME NEW s \in 1..4, NEW i \in DOMAIN order, NEW j \in DOMAIN wf[order[i]][Stages[s]]
       PROVE  \E x \in DOMAIN m : b[x] = s /\ co[x] = i /\ off[x] = j
  <2>1. j \in DOMAIN Row(s)[i] /\ i \in 1..Len(order)
    BY <1>1 DEF Of
  <2>2. PICK k \in DOMAIN Inner(s) : B[s][k] = i /\ O[s][k] = j
    <3> HIDE DEF Row
    <3> QED  BY <1>4, <2>1 DEF Laid
  <2>3. PICK x \in DOMAIN m : b[x] = s /\ o[x] = k
    BY <1>5, <1>7, <2>2 DEF Laid
  <2> QED  BY <1>9, <2>2, <2>3
<1>15. Placed(m, wf, order, b, co, off)
  BY <1>12, <1>13, <1>14 DEF Placed
<1> QED  BY <1>8, <1>11, <1>15 DEF m

-----------------------------------------------------------------------------
(* Workflows, built stage by stage.                                        *)

\* The components are different.
LEMMA Distinct ==
    /\ configserver # oceanbase /\ configserver # obproxy /\ configserver # prometheus
    /\ configserver # alertmanager /\ configserver # express /\ configserver # obbinlog
    /\ oceanbase # obproxy /\ oceanbase # prometheus /\ oceanbase # alertmanager
    /\ oceanbase # express /\ oceanbase # obbinlog
    /\ obproxy # prometheus /\ obproxy # alertmanager /\ obproxy # express /\ obproxy # obbinlog
    /\ prometheus # alertmanager /\ prometheus # express /\ prometheus # obbinlog
    /\ alertmanager # express /\ alertmanager # obbinlog /\ express # obbinlog
<1> DEFINE name == <<configserver, oceanbase, obproxy, prometheus, alertmanager, express, obbinlog>>
<1>1. \A i, j \in 1..7 : i # j => name[i] # name[j]
  BY WorkflowAssumption
<1>2. /\ name[1] = configserver /\ name[2] = oceanbase /\ name[3] = obproxy /\ name[4] = prometheus
      /\ name[5] = alertmanager /\ name[6] = express /\ name[7] = obbinlog
  OBVIOUS
<1> HIDE DEF name
<1> QED  BY <1>1, <1>2

\* A list of plugins of one component.
LEMMA PluginsAre ==
    ASSUME NEW c, NEW names \in Seq(Names)
    PROVE  /\ DOMAIN Plugins(c, names) = 1..Len(names)
           /\ \A i \in 1..Len(names) :
                /\ Plugins(c, names)[i].on = c /\ Plugins(c, names)[i].plugin = names[i]
                /\ Plugins(c, names)[i].zone = NoZone
           /\ c \in Modelled => Plugins(c, names) \in Seq(Plugin)
<1>1. DOMAIN names = 1..Len(names) /\ Len(names) \in Nat /\ \A i \in 1..Len(names) : names[i] \in Names
  OBVIOUS
<1>2. /\ DOMAIN Plugins(c, names) = 1..Len(names)
      /\ \A i \in 1..Len(names) :
           Plugins(c, names)[i] = [on |-> c, plugin |-> names[i], zone |-> NoZone]
  BY <1>1 DEF Plugins
<1>3. c \in Modelled => \A i \in 1..Len(names) :
           [on |-> c, plugin |-> names[i], zone |-> NoZone] \in Plugin
  BY <1>1 DEF Plugin
<1>4. c \in Modelled => Plugins(c, names) \in Seq(Plugin)
  BY <1>1, <1>3 DEF Plugins
<1> QED  BY <1>2, <1>4

\* What adding plugins to a stage does.
LEMMA AddIs ==
    ASSUME NEW w \in [ToSet(Stages) -> Seq(Plugin)], NEW stage \in ToSet(Stages), NEW p \in Seq(Plugin)
    PROVE  /\ Add(w, stage, p) \in [ToSet(Stages) -> Seq(Plugin)]
           /\ Add(w, stage, p)[stage] = w[stage] \o p
           /\ \A s \in ToSet(Stages) \ {stage} : Add(w, stage, p)[s] = w[s]
BY ConcatProperties DEF Add

\* The workflow without plugins.
LEMMA NothingIs ==
    /\ Nothing \in [ToSet(Stages) -> Seq(Plugin)]
    /\ \A s \in ToSet(Stages) : Nothing[s] = <<>>
BY DEF Nothing

\* A workflow of one stage.
LEMMA OneStage ==
    ASSUME NEW stage \in ToSet(Stages), NEW p \in Seq(Plugin)
    PROVE  /\ Add(Nothing, stage, p) \in [ToSet(Stages) -> Seq(Plugin)]
           /\ \A s \in ToSet(Stages) : Add(Nothing, stage, p)[s] = IF s = stage THEN p ELSE <<>>
<1>1. Nothing \in [ToSet(Stages) -> Seq(Plugin)] /\ <<>> \o p = p
  BY NothingIs, ConcatEmptySeq
<1> DEFINE v == Nothing
<1>2. v \in [ToSet(Stages) -> Seq(Plugin)] /\ \A s \in ToSet(Stages) : v[s] = <<>>
  BY NothingIs
<1> HIDE DEF v
<1>3. /\ Add(v, stage, p) \in [ToSet(Stages) -> Seq(Plugin)]
      /\ Add(v, stage, p)[stage] = v[stage] \o p
      /\ \A s \in ToSet(Stages) \ {stage} : Add(v, stage, p)[s] = v[s]
  BY <1>2, AddIs
<1> QED  BY <1>1, <1>2, <1>3 DEF v

\* A workflow of two stages.
LEMMA TwoStages ==
    ASSUME NEW one \in ToSet(Stages), NEW p \in Seq(Plugin),
           NEW two \in ToSet(Stages), NEW q \in Seq(Plugin), one # two
    PROVE  LET w == Add(Add(Nothing, one, p), two, q)
           IN  /\ w \in [ToSet(Stages) -> Seq(Plugin)]
               /\ \A s \in ToSet(Stages) : w[s] = IF s = one THEN p ELSE IF s = two THEN q ELSE <<>>
<1> DEFINE v == Add(Nothing, one, p)
<1>1. /\ v \in [ToSet(Stages) -> Seq(Plugin)]
      /\ \A s \in ToSet(Stages) : v[s] = IF s = one THEN p ELSE <<>>
  BY OneStage
<1> HIDE DEF v
<1>2. <<>> \o q = q
  BY ConcatEmptySeq
<1>3. /\ Add(v, two, q) \in [ToSet(Stages) -> Seq(Plugin)]
      /\ Add(v, two, q)[two] = v[two] \o q
      /\ \A s \in ToSet(Stages) \ {two} : Add(v, two, q)[s] = v[s]
  BY <1>1, AddIs
<1> QED  BY <1>1, <1>2, <1>3 DEF v

\* Two sequences of known lengths, one after the other.
LEMMA Joined ==
    ASSUME NEW T, NEW x \in Seq(T), NEW y \in Seq(T), NEW z \in Seq(T),
           Len(z) = Len(x) + Len(y),
           \A i \in 1..Len(x) : z[i] = x[i],
           \A i \in 1..Len(y) : z[Len(x) + i] = y[i]
    PROVE  x \o y = z
<1>1. /\ x \o y \in Seq(T) /\ Len(x \o y) = Len(x) + Len(y)
      /\ \A i \in 1..(Len(x) + Len(y)) : (x \o y)[i] = IF i <= Len(x) THEN x[i] ELSE y[i - Len(x)]
  BY ConcatProperties
<1>2. ASSUME NEW i \in 1..Len(z) PROVE (x \o y)[i] = z[i]
  <2>1. i \in Nat /\ Len(x) \in Nat /\ Len(y) \in Nat
    BY LenProperties
  <2>2. CASE i <= Len(x)
    <3>1. i \in 1..Len(x) /\ i \in 1..(Len(x) + Len(y))
      BY <2>1, <2>2
    <3> QED BY <1>1, <2>2, <3>1
  <2>3. CASE i > Len(x)
    <3>1. i - Len(x) \in 1..Len(y) /\ i \in 1..(Len(x) + Len(y)) /\ Len(x) + (i - Len(x)) = i
      BY <2>1, <2>3
    <3> QED BY <1>1, <2>3, <3>1
  <2> QED BY <2>1, <2>2, <2>3
<1>3. Len(x \o y) = Len(z)
  BY <1>1
<1> DEFINE v == x \o y
<1> HIDE DEF v
<1>4. v \in Seq(T) /\ Len(v) = Len(z) /\ \A i \in 1..Len(v) : v[i] = z[i]
  BY <1>1, <1>2 DEF v
<1>5. v = z
  BY <1>4, SeqEqual
<1> QED  BY <1>5 DEF v

\* Lists written out, one after the other: one and one plugin.
LEMMA Join11 ==
    ASSUME NEW T, NEW a \in T, NEW b \in T
    PROVE  <<a>> \o <<b>> = <<a, b>>
<1> DEFINE x == <<a>>
           y == <<b>>
           z == <<a, b>>
<1>1. /\ x \in Seq(T) /\ y \in Seq(T) /\ z \in Seq(T)
      /\ Len(x) = 1 /\ Len(y) = 1 /\ Len(z) = 2
  OBVIOUS
<1>2. (\A i \in 1..1 : z[i] = x[i]) /\ \A i \in 1..1 : z[1 + i] = y[i]
  OBVIOUS
<1>3. x \o y = z
  <2> HIDE DEF x, y, z
  <2>1. Len(z) = Len(x) + Len(y)
    BY <1>1
  <2>2. (\A i \in 1..Len(x) : z[i] = x[i]) /\ \A i \in 1..Len(y) : z[Len(x) + i] = y[i]
    BY <1>1, <1>2
  <2> QED  BY <1>1, <2>1, <2>2, Joined
<1> QED  BY <1>3

\* One and three plugins.
LEMMA Join13 ==
    ASSUME NEW T, NEW a \in T, NEW b \in T, NEW c \in T, NEW d \in T
    PROVE  <<a>> \o <<b, c, d>> = <<a, b, c, d>>
<1> DEFINE x == <<a>>
           y == <<b, c, d>>
           z == <<a, b, c, d>>
<1>1. /\ x \in Seq(T) /\ y \in Seq(T) /\ z \in Seq(T)
      /\ Len(x) = 1 /\ Len(y) = 3 /\ Len(z) = 4
  OBVIOUS
<1>2. (\A i \in 1..1 : z[i] = x[i]) /\ \A i \in 1..3 : z[1 + i] = y[i]
  OBVIOUS
<1>3. x \o y = z
  <2> HIDE DEF x, y, z
  <2>1. Len(z) = Len(x) + Len(y)
    BY <1>1
  <2>2. (\A i \in 1..Len(x) : z[i] = x[i]) /\ \A i \in 1..Len(y) : z[Len(x) + i] = y[i]
    BY <1>1, <1>2
  <2> QED  BY <1>1, <2>1, <2>2, Joined
<1> QED  BY <1>3

\* Two and three.
LEMMA Join23 ==
    ASSUME NEW T, NEW a \in T, NEW b \in T, NEW c \in T, NEW d \in T, NEW e \in T
    PROVE  <<a, b>> \o <<c, d, e>> = <<a, b, c, d, e>>
<1> DEFINE x == <<a, b>>
           y == <<c, d, e>>
           z == <<a, b, c, d, e>>
<1>1. /\ x \in Seq(T) /\ y \in Seq(T) /\ z \in Seq(T)
      /\ Len(x) = 2 /\ Len(y) = 3 /\ Len(z) = 5
  OBVIOUS
<1>2. (\A i \in 1..2 : z[i] = x[i]) /\ \A i \in 1..3 : z[2 + i] = y[i]
  OBVIOUS
<1>3. x \o y = z
  <2> HIDE DEF x, y, z
  <2>1. Len(z) = Len(x) + Len(y)
    BY <1>1
  <2>2. (\A i \in 1..Len(x) : z[i] = x[i]) /\ \A i \in 1..Len(y) : z[Len(x) + i] = y[i]
    BY <1>1, <1>2
  <2> QED  BY <1>1, <2>1, <2>2, Joined
<1> QED  BY <1>3

\* Two and four.
LEMMA Join24 ==
    ASSUME NEW T, NEW a \in T, NEW b \in T, NEW c \in T, NEW d \in T, NEW e \in T, NEW f \in T
    PROVE  <<a, b>> \o <<c, d, e, f>> = <<a, b, c, d, e, f>>
<1> DEFINE x == <<a, b>>
           y == <<c, d, e, f>>
           z == <<a, b, c, d, e, f>>
<1>1. /\ x \in Seq(T) /\ y \in Seq(T) /\ z \in Seq(T)
      /\ Len(x) = 2 /\ Len(y) = 4 /\ Len(z) = 6
  OBVIOUS
<1>2. (\A i \in 1..2 : z[i] = x[i]) /\ \A i \in 1..4 : z[2 + i] = y[i]
  OBVIOUS
<1>3. x \o y = z
  <2> HIDE DEF x, y, z
  <2>1. Len(z) = Len(x) + Len(y)
    BY <1>1
  <2>2. (\A i \in 1..Len(x) : z[i] = x[i]) /\ \A i \in 1..Len(y) : z[Len(x) + i] = y[i]
    BY <1>1, <1>2
  <2> QED  BY <1>1, <2>1, <2>2, Joined
<1> QED  BY <1>3

\* Three and one.
LEMMA Join31 ==
    ASSUME NEW T, NEW a \in T, NEW b \in T, NEW c \in T, NEW d \in T
    PROVE  <<a, b, c>> \o <<d>> = <<a, b, c, d>>
<1> DEFINE x == <<a, b, c>>
           y == <<d>>
           z == <<a, b, c, d>>
<1>1. /\ x \in Seq(T) /\ y \in Seq(T) /\ z \in Seq(T)
      /\ Len(x) = 3 /\ Len(y) = 1 /\ Len(z) = 4
  OBVIOUS
<1>2. (\A i \in 1..3 : z[i] = x[i]) /\ \A i \in 1..1 : z[3 + i] = y[i]
  OBVIOUS
<1>3. x \o y = z
  <2> HIDE DEF x, y, z
  <2>1. Len(z) = Len(x) + Len(y)
    BY <1>1
  <2>2. (\A i \in 1..Len(x) : z[i] = x[i]) /\ \A i \in 1..Len(y) : z[Len(x) + i] = y[i]
    BY <1>1, <1>2
  <2> QED  BY <1>1, <2>1, <2>2, Joined
<1> QED  BY <1>3

\* Three and two.
LEMMA Join32 ==
    ASSUME NEW T, NEW a \in T, NEW b \in T, NEW c \in T, NEW d \in T, NEW e \in T
    PROVE  <<a, b, c>> \o <<d, e>> = <<a, b, c, d, e>>
<1> DEFINE x == <<a, b, c>>
           y == <<d, e>>
           z == <<a, b, c, d, e>>
<1>1. /\ x \in Seq(T) /\ y \in Seq(T) /\ z \in Seq(T)
      /\ Len(x) = 3 /\ Len(y) = 2 /\ Len(z) = 5
  OBVIOUS
<1>2. (\A i \in 1..3 : z[i] = x[i]) /\ \A i \in 1..2 : z[3 + i] = y[i]
  OBVIOUS
<1>3. x \o y = z
  <2> HIDE DEF x, y, z
  <2>1. Len(z) = Len(x) + Len(y)
    BY <1>1
  <2>2. (\A i \in 1..Len(x) : z[i] = x[i]) /\ \A i \in 1..Len(y) : z[Len(x) + i] = y[i]
    BY <1>1, <1>2
  <2> QED  BY <1>1, <2>1, <2>2, Joined
<1> QED  BY <1>3

\* Five and one.
LEMMA Join51 ==
    ASSUME NEW T, NEW a \in T, NEW b \in T, NEW c \in T, NEW d \in T, NEW e \in T, NEW f \in T
    PROVE  <<a, b, c, d, e>> \o <<f>> = <<a, b, c, d, e, f>>
<1> DEFINE x == <<a, b, c, d, e>>
           y == <<f>>
           z == <<a, b, c, d, e, f>>
<1>1. /\ x \in Seq(T) /\ y \in Seq(T) /\ z \in Seq(T)
      /\ Len(x) = 5 /\ Len(y) = 1 /\ Len(z) = 6
  OBVIOUS
<1>2. (\A i \in 1..5 : z[i] = x[i]) /\ \A i \in 1..1 : z[5 + i] = y[i]
  OBVIOUS
<1>3. x \o y = z
  <2> HIDE DEF x, y, z
  <2>1. Len(z) = Len(x) + Len(y)
    BY <1>1
  <2>2. (\A i \in 1..Len(x) : z[i] = x[i]) /\ \A i \in 1..Len(y) : z[Len(x) + i] = y[i]
    BY <1>1, <1>2
  <2> QED  BY <1>1, <2>1, <2>2, Joined
<1> QED  BY <1>3

-----------------------------------------------------------------------------
(* The start templates.                                                    *)

\* A plugin of a start workflow, in stage s of component c: which component it is called
\* for; the component itself has been checked before it is talked to.
StartPlugin(c, D, s, q, i) ==
    LET p == q[i]
    IN  /\ p.zone = NoZone
        /\ p.plugin \in {"start", "health_check", "start_instances"} \cup Passive
        /\ p.plugin # "active_check"
        /\ p.plugin \in {"start", "health_check", "start_instances"} => p.on = c
        /\ p.plugin = "start_instances" => c = obbinlog
        /\ \/ p.on = c
           \/ p.on = prometheus /\ c = alertmanager /\ s = 20 /\ prometheus \in D
           \/ p.on = oceanbase /\ c = express /\ s = 10
           \/ p.on = oceanbase /\ c = obbinlog /\ s = 20 /\ D # {}
        /\ p.plugin = "configserver_pre" => c = oceanbase /\ s = 10
        /\ p.plugin = "cursor_check" => c \in {express, obbinlog} /\ s \in {10, 20}
        /\ p.plugin = "update_prometheus" => c = alertmanager /\ s = 20 /\ prometheus \in D
        /\ p.on = c /\ p.plugin \in {"connect", "create_tenant", "bootstrap", "start_instances"} =>
             \E j \in 1..(i - 1) : q[j].plugin = "health_check" /\ q[j].on = c

StartRow(c, D, s, q) == q \in Seq(Plugin) /\ \A i \in DOMAIN q : StartPlugin(c, D, s, q, i)

HasCheck(c, q) == \E i \in DOMAIN q : q[i].plugin = "health_check" /\ q[i].on = c

Call(c, name) == [on |-> c, plugin |-> name, zone |-> NoZone]

\* One plugin of a component.
LEMMA PIs ==
    ASSUME NEW c \in Modelled, NEW n \in Names
    PROVE  Call(c, n) \in Plugin /\ Call(c, n).on = c /\ Call(c, n).plugin = n /\ Call(c, n).zone = NoZone
BY DEF Call, Plugin

\* A stage without plugins is in order.
LEMMA RowEmpty == ASSUME NEW c, NEW D, NEW s PROVE StartRow(c, D, s, <<>>)
BY DEF StartRow

\* What a list of plugins is, once written out.
LEMMA PsIs ==
    ASSUME NEW c \in Modelled
    PROVE  \A n \in Names : Call(c, n) \in Plugin
BY PIs

\* The stages of the start templates, one by one (workflows/*/start.py).
LEMMA RowPlain ==
    ASSUME NEW c \in Modelled, NEW D, NEW s
    PROVE  LET q == Plugins(c, <<"start", "health_check">>)
           IN  StartRow(c, D, s, q) /\ HasCheck(c, q)
<1> DEFINE q == Plugins(c, <<"start", "health_check">>)
<1>1. q = <<Call(c, "start"), Call(c, "health_check")>>
  BY DEF Plugins, Call
<1>2. Call(c, "start") \in Plugin /\ Call(c, "health_check") \in Plugin
  BY PIs DEF Names
<1> HIDE DEF q
<1>3. q \in Seq(Plugin)
  BY <1>1, <1>2
<1>4. \A i \in DOMAIN q : StartPlugin(c, D, s, q, i)
  BY <1>1 DEF StartPlugin, Call
<1>5. HasCheck(c, q)
  BY <1>1 DEF HasCheck, Call
<1> QED  BY <1>3, <1>4, <1>5 DEF StartRow, q

\* The database.
LEMMA RowOceanBase ==
    ASSUME NEW D
    PROVE  LET q == Plugins(oceanbase, <<"configserver_pre", "start", "health_check",
                                             "connect", "bootstrap">>)
           IN  StartRow(oceanbase, D, 10, q) /\ HasCheck(oceanbase, q)
<1> DEFINE q == Plugins(oceanbase, <<"configserver_pre", "start", "health_check",
                                             "connect", "bootstrap">>)
<1>1. (\A n \in Names : Call(oceanbase, n) \in Plugin)
  BY PsIs DEF Modelled
<1>2. q = <<Call(oceanbase, "configserver_pre"), Call(oceanbase, "start"),
            Call(oceanbase, "health_check"), Call(oceanbase, "connect"), Call(oceanbase, "bootstrap")>>
  BY DEF Plugins, Call
<1> HIDE DEF q
<1>3. q \in Seq(Plugin)
  BY <1>1, <1>2 DEF Names, Passive
<1>4. \A i \in DOMAIN q : StartPlugin(oceanbase, D, 10, q, i)
  BY <1>2, Distinct DEF StartPlugin, Passive, Call
<1>5. HasCheck(oceanbase, q)
  BY <1>2 DEF HasCheck, Call
<1> QED  BY <1>3, <1>4, <1>5 DEF StartRow, q

\* OBProxy.
LEMMA RowObproxy ==
    ASSUME NEW D
    PROVE  LET q == Plugins(obproxy, <<"start", "health_check", "connect", "bootstrap">>)
           IN  StartRow(obproxy, D, 10, q) /\ HasCheck(obproxy, q)
<1> DEFINE q == Plugins(obproxy, <<"start", "health_check", "connect", "bootstrap">>)
<1>1. (\A n \in Names : Call(obproxy, n) \in Plugin)
  BY PsIs DEF Modelled
<1>2. q = <<Call(obproxy, "start"), Call(obproxy, "health_check"), Call(obproxy, "connect"),
            Call(obproxy, "bootstrap")>>
  BY DEF Plugins, Call
<1> HIDE DEF q
<1>3. q \in Seq(Plugin)
  BY <1>1, <1>2 DEF Names, Passive
<1>4. \A i \in DOMAIN q : StartPlugin(obproxy, D, 10, q, i)
  BY <1>2, Distinct DEF StartPlugin, Passive, Call
<1>5. HasCheck(obproxy, q)
  BY <1>2 DEF HasCheck, Call
<1> QED  BY <1>3, <1>4, <1>5 DEF StartRow, q

\* The Prometheus of an Alertmanager, in its second stage.
LEMMA RowPrometheus ==
    ASSUME NEW D, prometheus \in D
    PROVE  LET q == UpdatePrometheus
           IN  StartRow(alertmanager, D, 20, q)
<1> DEFINE q == UpdatePrometheus
<1>1. (\A n \in Names : Call(alertmanager, n) \in Plugin) /\ (\A n \in Names : Call(prometheus, n) \in Plugin)
  BY PsIs DEF Modelled
<1>2. q = <<Call(prometheus, "connect"), Call(alertmanager, "update_prometheus")>>
  <2>1. q = <<Call(prometheus, "connect")>>
              \o <<Call(alertmanager, "update_prometheus")>>
    BY DEF Plugins, Call, UpdatePrometheus
  <2> HIDE DEF q
  <2>2. /\ Call(prometheus, "connect") \in Plugin
        /\ Call(alertmanager, "update_prometheus") \in Plugin
    BY <1>1 DEF Names, Passive
  <2> QED  BY <2>1, <2>2, Join11
<1> HIDE DEF q
<1>3. q \in Seq(Plugin)
  BY <1>1, <1>2 DEF Names, Passive
<1>4. \A i \in DOMAIN q : StartPlugin(alertmanager, D, 20, q, i)
  BY <1>2, Distinct DEF StartPlugin, Passive, Call
<1> QED  BY <1>3, <1>4 DEF StartRow, q

\* ocp-express, whose first plugins are those of the database.
LEMMA RowExpress ==
    ASSUME NEW D
    PROVE  LET q == Plugins(oceanbase, <<"connect", "create_tenant">>)
                       \o Plugins(express, <<"cursor_check", "start", "health_check">>)
           IN  StartRow(express, D, 10, q) /\ HasCheck(express, q)
<1> DEFINE q == Plugins(oceanbase, <<"connect", "create_tenant">>)
                       \o Plugins(express, <<"cursor_check", "start", "health_check">>)
<1>1. (\A n \in Names : Call(express, n) \in Plugin) /\ (\A n \in Names : Call(oceanbase, n) \in Plugin)
  BY PsIs DEF Modelled
<1>2. q = <<Call(oceanbase, "connect"), Call(oceanbase, "create_tenant"),
            Call(express, "cursor_check"), Call(express, "start"), Call(express, "health_check")>>
  <2>1. q = <<Call(oceanbase, "connect"), Call(oceanbase, "create_tenant")>>
              \o <<Call(express, "cursor_check"), Call(express, "start"), Call(express, "health_check")>>
    BY DEF Plugins, Call
  <2> HIDE DEF q
  <2>2. /\ Call(oceanbase, "connect") \in Plugin
        /\ Call(oceanbase, "create_tenant") \in Plugin
        /\ Call(express, "cursor_check") \in Plugin
        /\ Call(express, "start") \in Plugin
        /\ Call(express, "health_check") \in Plugin
    BY <1>1 DEF Names, Passive
  <2> QED  BY <2>1, <2>2, Join23
<1> HIDE DEF q
<1>3. q \in Seq(Plugin)
  BY <1>1, <1>2 DEF Names, Passive
<1>4. \A i \in DOMAIN q : StartPlugin(express, D, 10, q, i)
  BY <1>2, Distinct DEF StartPlugin, Passive, Call
<1>5. HasCheck(express, q)
  BY <1>2 DEF HasCheck, Call
<1> QED  BY <1>3, <1>4, <1>5 DEF StartRow, q

\* The tenant of a binlog service with dependencies.
LEMMA RowTenant ==
    ASSUME NEW D, D # {}
    PROVE  LET q == Plugins(oceanbase, <<"connect", "create_tenant">>)
           IN  StartRow(obbinlog, D, 20, q)
<1> DEFINE q == Plugins(oceanbase, <<"connect", "create_tenant">>)
<1>1. (\A n \in Names : Call(oceanbase, n) \in Plugin)
  BY PsIs DEF Modelled
<1>2. q = <<Call(oceanbase, "connect"), Call(oceanbase, "create_tenant")>>
  BY DEF Plugins, Call
<1> HIDE DEF q
<1>3. q \in Seq(Plugin)
  BY <1>1, <1>2 DEF Names, Passive
<1>4. \A i \in DOMAIN q : StartPlugin(obbinlog, D, 20, q, i)
  BY <1>2, Distinct DEF StartPlugin, Passive, Call
<1> QED  BY <1>3, <1>4 DEF StartRow, q

\* The check of one without.
LEMMA RowCursor ==
    ASSUME NEW D
    PROVE  LET q == Plugins(obbinlog, <<"cursor_check">>)
           IN  StartRow(obbinlog, D, 20, q)
<1> DEFINE q == Plugins(obbinlog, <<"cursor_check">>)
<1>1. (\A n \in Names : Call(obbinlog, n) \in Plugin)
  BY PsIs DEF Modelled
<1>2. q = <<Call(obbinlog, "cursor_check")>>
  BY DEF Plugins, Call
<1> HIDE DEF q
<1>3. q \in Seq(Plugin)
  BY <1>1, <1>2 DEF Names, Passive
<1>4. \A i \in DOMAIN q : StartPlugin(obbinlog, D, 20, q, i)
  BY <1>2, Distinct DEF StartPlugin, Passive, Call
<1> QED  BY <1>3, <1>4 DEF StartRow, q

\* The binlog service in its last stage.
LEMMA RowBinlog ==
    ASSUME NEW D
    PROVE  LET q == Plugins(obbinlog, <<"start", "health_check", "connect", "start_instances">>)
           IN  StartRow(obbinlog, D, 30, q) /\ HasCheck(obbinlog, q)
<1> DEFINE q == Plugins(obbinlog, <<"start", "health_check", "connect", "start_instances">>)
<1>1. (\A n \in Names : Call(obbinlog, n) \in Plugin)
  BY PsIs DEF Modelled
<1>2. q = <<Call(obbinlog, "start"), Call(obbinlog, "health_check"), Call(obbinlog, "connect"),
            Call(obbinlog, "start_instances")>>
  BY DEF Plugins, Call
<1> HIDE DEF q
<1>3. q \in Seq(Plugin)
  BY <1>1, <1>2 DEF Names, Passive
<1>4. \A i \in DOMAIN q : StartPlugin(obbinlog, D, 30, q, i)
  BY <1>2, Distinct DEF StartPlugin, Passive, Call
<1>5. HasCheck(obbinlog, q)
  BY <1>2 DEF HasCheck, Call
<1> QED  BY <1>3, <1>4, <1>5 DEF StartRow, q

\* The start workflow of a component.
StartWorkflow(c, D, w) ==
    /\ w \in [ToSet(Stages) -> Seq(Plugin)]
    /\ \A s \in ToSet(Stages) : StartRow(c, D, s, w[s])
    /\ HasCheck(c, w[IF c = obbinlog THEN 30 ELSE 10])

\* A start workflow of one stage.
LEMMA StartOne ==
    ASSUME NEW c \in Modelled \ {obbinlog}, NEW D, NEW q, StartRow(c, D, 10, q), HasCheck(c, q),
           NEW w, w = Add(Nothing, 10, q)
    PROVE  StartWorkflow(c, D, w)
<1>1. q \in Seq(Plugin) /\ 10 \in ToSet(Stages)
  BY FourStages DEF StartRow
<1>2. w \in [ToSet(Stages) -> Seq(Plugin)] /\ \A s \in ToSet(Stages) : w[s] = IF s = 10 THEN q ELSE <<>>
  BY <1>1, OneStage
<1>3. \A s \in ToSet(Stages) : StartRow(c, D, s, w[s])
  BY <1>2, RowEmpty
<1> QED  BY <1>1, <1>2, <1>3 DEF StartWorkflow

\* A start workflow of two stages.
LEMMA StartTwo ==
    ASSUME NEW c \in Modelled, NEW D, NEW one \in ToSet(Stages), NEW two \in ToSet(Stages), one # two,
           NEW p, NEW q, StartRow(c, D, one, p), StartRow(c, D, two, q),
           c = obbinlog => two = 30 /\ HasCheck(c, q),
           c # obbinlog => one = 10 /\ HasCheck(c, p),
           NEW w, w = Add(Add(Nothing, one, p), two, q)
    PROVE  StartWorkflow(c, D, w)
<1>1. p \in Seq(Plugin) /\ q \in Seq(Plugin)
  BY DEF StartRow
<1>2. /\ w \in [ToSet(Stages) -> Seq(Plugin)]
      /\ \A s \in ToSet(Stages) : w[s] = IF s = one THEN p ELSE IF s = two THEN q ELSE <<>>
  BY <1>1, TwoStages
<1>3. \A s \in ToSet(Stages) : StartRow(c, D, s, w[s])
  BY <1>2, RowEmpty
<1> QED  BY <1>2, <1>3 DEF StartWorkflow

\* Every start template is in order.
LEMMA StartIs ==
    ASSUME NEW c \in Modelled, NEW D
    PROVE  StartWorkflow(c, D, StartOf(c, D))
<1> DEFINE w == StartOf(c, D)
<1>s. 10 \in ToSet(Stages) /\ 20 \in ToSet(Stages) /\ 30 \in ToSet(Stages)
  BY FourStages
<1>1. CASE c \in {configserver, prometheus}
  <2>1. w = Add(Nothing, 10, Plugins(c, <<"start", "health_check">>)) /\ c # obbinlog
    BY <1>1, Distinct DEF StartOf, StartConfigServer, StartPrometheus, First
  <2> HIDE DEF w
  <2> QED  BY <2>1, RowPlain, StartOne DEF w
<1>2. CASE c = oceanbase
  <2>1. /\ w = Add(Nothing, 10, Plugins(oceanbase, <<"configserver_pre", "start", "health_check",
                                                     "connect", "bootstrap">>))
        /\ c # obbinlog
    BY <1>2, Distinct DEF StartOf, StartOceanBase, First
  <2> HIDE DEF w
  <2> QED  BY <1>2, <2>1, RowOceanBase, StartOne DEF w
<1>3. CASE c = obproxy
  <2>1. /\ w = Add(Nothing, 10, Plugins(obproxy, <<"start", "health_check", "connect", "bootstrap">>))
        /\ c # obbinlog
    BY <1>3, Distinct DEF StartOf, StartObproxy, First
  <2> HIDE DEF w
  <2> QED  BY <1>3, <2>1, RowObproxy, StartOne DEF w
<1>4. CASE c = alertmanager /\ prometheus \notin D
  <2>1. w = Add(Nothing, 10, Plugins(c, <<"start", "health_check">>)) /\ c # obbinlog
    BY <1>4, Distinct DEF StartOf, StartAlertmanager, First
  <2> HIDE DEF w
  <2> QED  BY <2>1, RowPlain, StartOne DEF w
<1>5. CASE c = alertmanager /\ prometheus \in D
  <2>1. /\ w = Add(Add(Nothing, 10, Plugins(c, <<"start", "health_check">>)), 20, UpdatePrometheus)
        /\ c # obbinlog
    BY <1>5, Distinct DEF StartOf, StartAlertmanager, First, Second
  <2> HIDE DEF w
  <2> QED  BY <1>5, <1>s, <2>1, RowPlain, RowPrometheus, StartTwo DEF w
<1>6. CASE c = express
  <2>1. /\ w = Add(Nothing, 10, Plugins(oceanbase, <<"connect", "create_tenant">>)
                                 \o Plugins(express, <<"cursor_check", "start", "health_check">>))
        /\ c # obbinlog
    BY <1>6, Distinct DEF StartOf, StartExpress, First
  <2> HIDE DEF w
  <2> QED  BY <1>6, <2>1, RowExpress, StartOne DEF w
<1>7. CASE c = obbinlog
  <2> DEFINE p == IF D # {} THEN Plugins(oceanbase, <<"connect", "create_tenant">>)
                            ELSE Plugins(obbinlog, <<"cursor_check">>)
             q == Plugins(obbinlog, <<"start", "health_check", "connect", "start_instances">>)
  <2>1. w = Add(Add(Nothing, 20, p), 30, q)
    BY <1>7, Distinct DEF StartOf, StartBinlog, Second, Third
  <2>2. StartRow(obbinlog, D, 20, p) /\ StartRow(obbinlog, D, 30, q) /\ HasCheck(obbinlog, q)
    BY RowTenant, RowCursor, RowBinlog
  <2> HIDE DEF w, p, q
  <2> QED  BY <1>7, <1>s, <2>1, <2>2, StartTwo DEF w
<1> QED  BY <1>1, <1>2, <1>3, <1>4, <1>5, <1>6, <1>7 DEF Modelled

-----------------------------------------------------------------------------
(* The stop templates, display and restart_pre.                            *)

\* A plugin of display and restart_pre; of stop.
QuietRow(c, q) ==
    /\ q \in Seq(Plugin)
    /\ \A i \in DOMAIN q : /\ q[i].on = c /\ q[i].plugin \in {"status_check", "connect", "restart_pre"}
                           /\ q[i].plugin = "restart_pre" => c = oceanbase

StopRow(c, s, q) ==
    /\ q \in Seq(Plugin)
    /\ \A i \in DOMAIN q : /\ q[i].on = c /\ q[i].plugin \in {"connect", "stop", "stop_instances"}
                           /\ q[i].plugin = "stop" => s = 10
                           /\ q[i].plugin = "stop_instances" => c = obbinlog

QuietWorkflow(c, w) ==
    w \in [ToSet(Stages) -> Seq(Plugin)] /\ \A s \in ToSet(Stages) : QuietRow(c, w[s])

HasPlugin(c, name, q) == \E i \in DOMAIN q : q[i].plugin = name /\ q[i].on = c

StopWorkflow(c, w) ==
    /\ w \in [ToSet(Stages) -> Seq(Plugin)] /\ \A s \in ToSet(Stages) : StopRow(c, s, w[s])
    /\ HasPlugin(c, "stop", w[10])
    /\ c = obbinlog => HasPlugin(c, "stop_instances", w[9])

\* Workflows of one stage and of two.
LEMMA InOne ==
    ASSUME NEW p \in Seq(Plugin), NEW w, w = Add(Nothing, 10, p)
    PROVE  /\ w \in [ToSet(Stages) -> Seq(Plugin)]
           /\ \A s \in ToSet(Stages) : w[s] = IF s = 10 THEN p ELSE <<>>
<1>1. 10 \in ToSet(Stages)
  BY FourStages
<1> QED  BY <1>1, OneStage

\* The same, for a workflow with a name.
LEMMA InTwo ==
    ASSUME NEW one \in ToSet(Stages), NEW two \in ToSet(Stages), one # two,
           NEW p \in Seq(Plugin), NEW q \in Seq(Plugin), NEW w, w = Add(Add(Nothing, one, p), two, q)
    PROVE  /\ w \in [ToSet(Stages) -> Seq(Plugin)]
           /\ \A s \in ToSet(Stages) : w[s] = IF s = one THEN p ELSE IF s = two THEN q ELSE <<>>
BY TwoStages

\* display.
LEMMA DisplayIs ==
    ASSUME NEW c \in Modelled
    PROVE  QuietWorkflow(c, DisplayOf(c))
<1> DEFINE w == DisplayOf(c)
           p == Plugins(c, <<"status_check">>)
           q == Plugins(c, <<"connect">>)
<1>1. w = Add(Add(Nothing, 10, p), 20, q)
  BY DEF DisplayOf, First, Second
<1>2. p = <<Call(c, "status_check")>> /\ q = <<Call(c, "connect")>>
  BY DEF Plugins, Call
<1>3. \A n \in Names : Call(c, n) \in Plugin
  BY PsIs
<1> HIDE DEF w, p, q
<1>4. p \in Seq(Plugin) /\ q \in Seq(Plugin)
  BY <1>2, <1>3 DEF Names, Passive
<1>5. QuietRow(c, p) /\ QuietRow(c, q) /\ QuietRow(c, <<>>)
  BY <1>2, <1>4 DEF QuietRow, Call
<1>6. 10 \in ToSet(Stages) /\ 20 \in ToSet(Stages) /\ 10 # 20
  BY FourStages
<1>7. /\ w \in [ToSet(Stages) -> Seq(Plugin)]
      /\ \A s \in ToSet(Stages) : w[s] = IF s = 10 THEN p ELSE IF s = 20 THEN q ELSE <<>>
  <2> DEFINE one == 10  two == 20
  <2>1. /\ one \in ToSet(Stages) /\ two \in ToSet(Stages) /\ one # two
        /\ w = Add(Add(Nothing, one, p), two, q)
    BY <1>1, <1>6
  <2> HIDE DEF one, two
  <2>2. /\ w \in [ToSet(Stages) -> Seq(Plugin)]
        /\ \A s \in ToSet(Stages) : w[s] = IF s = one THEN p ELSE IF s = two THEN q ELSE <<>>
    BY <1>4, <2>1, InTwo
  <2> QED  BY <2>2 DEF one, two
<1>8. QuietWorkflow(c, w)
  BY <1>5, <1>7 DEF QuietWorkflow
<1> QED  BY <1>8 DEF w

\* restart_pre.
LEMMA RestartPreIs ==
    ASSUME NEW c \in Modelled
    PROVE  QuietWorkflow(c, RestartPreOf(c))
<1> DEFINE w == RestartPreOf(c)
           p == Plugins(c, <<"connect", "restart_pre">>)
           q == Plugins(c, <<"connect">>)
<1>1. (w = Add(Nothing, 10, p) /\ c = oceanbase) \/ w = Nothing \/ w = Add(Nothing, 10, q)
  BY DEF RestartPreOf, First
<1>2. p = <<Call(c, "connect"), Call(c, "restart_pre")>> /\ q = <<Call(c, "connect")>>
  BY DEF Plugins, Call
<1>3. \A n \in Names : Call(c, n) \in Plugin
  BY PsIs
<1> HIDE DEF w, p, q
<1>4. p \in Seq(Plugin) /\ q \in Seq(Plugin)
  BY <1>2, <1>3 DEF Names, Passive
<1>5. (c = oceanbase => QuietRow(c, p)) /\ QuietRow(c, q) /\ QuietRow(c, <<>>)
  BY <1>2, <1>4 DEF QuietRow, Call
<1>6. 10 \in ToSet(Stages)
  BY FourStages
<1>7. CASE w = Add(Nothing, 10, p) /\ c = oceanbase
  <2>1. /\ w \in [ToSet(Stages) -> Seq(Plugin)]
        /\ \A s \in ToSet(Stages) : w[s] = IF s = 10 THEN p ELSE <<>>
    BY <1>4, <1>7, InOne
  <2> QED  BY <1>5, <1>7, <2>1 DEF QuietWorkflow, w
<1>8. CASE w = Add(Nothing, 10, q)
  <2>1. /\ w \in [ToSet(Stages) -> Seq(Plugin)]
        /\ \A s \in ToSet(Stages) : w[s] = IF s = 10 THEN q ELSE <<>>
    BY <1>4, <1>8, InOne
  <2> QED  BY <1>5, <1>8, <2>1 DEF QuietWorkflow, w
<1>9. CASE w = Nothing
  <2> QED  BY <1>5, <1>9, NothingIs DEF QuietWorkflow, w
<1> QED  BY <1>1, <1>7, <1>8, <1>9

\* Every stop template is in order (workflows/*/stop.py).
LEMMA StopIs ==
    ASSUME NEW c \in Modelled
    PROVE  StopWorkflow(c, StopOf(c))
<1> DEFINE w == StopOf(c)
           o == Plugins(c, <<"connect", "stop">>)
           p == Plugins(c, <<"stop">>)
           q == Plugins(c, <<"stop_instances">>)
<1>1. /\ c = oceanbase => w = Add(Nothing, 10, o)
      /\ c = obbinlog => w = Add(Add(Nothing, 9, q), 10, p)
      /\ c \notin {oceanbase, obbinlog} => w = Add(Nothing, 10, p)
  BY Distinct DEF StopOf, StopOceanBase, StopBinlog, First
<1>2. o = <<Call(c, "connect"),
            Call(c, "stop")>> /\ p = <<Call(c, "stop")>> /\ q = <<Call(c, "stop_instances")>>
  BY DEF Plugins, Call
<1>3. \A n \in Names : Call(c, n) \in Plugin
  BY PsIs
<1> HIDE DEF w, o, p, q
<1>4. o \in Seq(Plugin) /\ p \in Seq(Plugin) /\ q \in Seq(Plugin)
  BY <1>2, <1>3 DEF Names, Passive
<1>5. /\ StopRow(c, 10, o) /\ StopRow(c, 10, p) /\ (c = obbinlog => StopRow(c, 9, q))
      /\ \A s : StopRow(c, s, <<>>)
      /\ HasPlugin(c, "stop", o) /\ HasPlugin(c, "stop", p) /\ HasPlugin(c, "stop_instances", q)
  BY <1>2, <1>4 DEF StopRow, HasPlugin, Call
<1>6. 9 \in ToSet(Stages) /\ 10 \in ToSet(Stages) /\ 9 # 10
  BY FourStages
<1>7. CASE c = oceanbase
  <2>1. /\ w \in [ToSet(Stages) -> Seq(Plugin)]
        /\ \A s \in ToSet(Stages) : w[s] = IF s = 10 THEN o ELSE <<>>
    BY <1>1, <1>4, <1>7, InOne
  <2> QED  BY <1>5, <1>6, <1>7, <2>1, Distinct DEF StopWorkflow, w
<1>8. CASE c = obbinlog
  <2>1. /\ w \in [ToSet(Stages) -> Seq(Plugin)]
        /\ \A s \in ToSet(Stages) : w[s] = IF s = 9 THEN q ELSE IF s = 10 THEN p ELSE <<>>
    <3> DEFINE one == 9  two == 10
    <3>1. /\ one \in ToSet(Stages) /\ two \in ToSet(Stages) /\ one # two
          /\ w = Add(Add(Nothing, one, q), two, p)
      BY <1>1, <1>6, <1>8
    <3> HIDE DEF one, two
    <3>2. /\ w \in [ToSet(Stages) -> Seq(Plugin)]
          /\ \A s \in ToSet(Stages) : w[s] = IF s = one THEN q ELSE IF s = two THEN p ELSE <<>>
      BY <1>4, <3>1, InTwo
    <3> QED  BY <3>2 DEF one, two
  <2> QED  BY <1>5, <1>6, <1>8, <2>1 DEF StopWorkflow, w
<1>9. CASE c \notin {oceanbase, obbinlog}
  <2>1. /\ w \in [ToSet(Stages) -> Seq(Plugin)]
        /\ \A s \in ToSet(Stages) : w[s] = IF s = 10 THEN p ELSE <<>>
    BY <1>1, <1>4, <1>9, InOne
  <2> QED  BY <1>5, <1>6, <1>9, <2>1 DEF StopWorkflow, w
<1> QED  BY <1>7, <1>8, <1>9

-----------------------------------------------------------------------------
(* The restart templates.                                                  *)

\* The plugins that talk to their component.
Talks == {"connect", "create_tenant", "bootstrap", "start_instances", "start_zone",
          "active_check", "stop_zone", "restart_pre"}

IsCheck(c, p) == p.plugin = "health_check" /\ p.on = c

\* A plugin of a restart: a component that was stopped is checked before it is talked to,
\* a zone that was stopped is started, and no process is killed after the instances are back.
RestartPlugin(c, D, zs, s, q, i) ==
    LET p == q[i]
    IN  /\ p.plugin \in {"start", "stop", "health_check", "connect", "start_instances",
                         "stop_instances", "start_zone", "stop_zone", "active_check",
                         "cursor_check", "update_prometheus"}
        /\ s = 10 \/ (s = 9 /\ c = obbinlog /\ p.plugin \notin {"stop", "start_instances"})
        /\ \/ p.on = c
           \/ p.on = prometheus /\ c = alertmanager /\ prometheus \in D /\ p.plugin = "connect"
        /\ p.plugin = "cursor_check" => c = express
        /\ p.plugin = "update_prometheus" => c = alertmanager /\ prometheus \in D
        /\ p.plugin \in {"start_instances", "stop_instances"} => c = obbinlog
        /\ p.plugin \in {"start_zone", "stop_zone", "active_check"} => c = oceanbase
        /\ p.plugin = "stop_zone" => /\ p.zone \in ToSet(zs)
                                     /\ \E j \in DOMAIN q : /\ j > i /\ q[j].plugin = "start_zone"
                                                            /\ q[j].zone = p.zone
        /\ p.plugin = "stop" =>
             /\ \E j \in DOMAIN q : j > i /\ IsCheck(c, q[j])
             /\ \A j \in DOMAIN q : j > i /\ q[j].on = c /\ q[j].plugin \in Talks =>
                  \E k \in DOMAIN q : i < k /\ k < j /\ IsCheck(c, q[k])
        /\ p.plugin = "start_instances" => \A j \in DOMAIN q : j > i => q[j].plugin # "stop"

RestartRow(c, D, zs, s, q) ==
    q \in Seq(Plugin) /\ \A i \in DOMAIN q : RestartPlugin(c, D, zs, s, q, i)

RestartWorkflow(c, D, zs, w) ==
    /\ w \in [ToSet(Stages) -> Seq(Plugin)]
    /\ \A s \in ToSet(Stages) : RestartRow(c, D, zs, s, w[s])
    /\ HasPlugin(c, "stop", w[10])
    /\ c = obbinlog => HasPlugin(c, "stop_instances", w[9])

\* A stage without plugins is in order.
LEMMA RestartEmpty == ASSUME NEW c, NEW D, NEW zs, NEW s PROVE RestartRow(c, D, zs, s, <<>>)
BY DEF RestartRow

\* The stages of the restart templates, one by one (workflows/*/restart.py).
LEMMA BouncePlain ==
    ASSUME NEW D, NEW zs, NEW c \in Modelled
    PROVE  LET q == Plugins(c, Bounce \o <<"connect">>)
           IN  RestartRow(c, D, zs, 10, q) /\ HasPlugin(c, "stop", q)
<1> DEFINE q == Plugins(c, Bounce \o <<"connect">>)
<1>1. (\A n \in Names : Call(c, n) \in Plugin)
  BY PsIs DEF Modelled
<1>2. q = <<Call(c, "stop"), Call(c, "start"), Call(c, "health_check"), Call(c, "connect")>>
  <2>1. Bounce \o <<"connect">> = <<"stop", "start", "health_check", "connect">>
    <3>1. "stop" \in Names /\ "start" \in Names /\ "health_check" \in Names /\ "connect" \in Names
      BY DEF Names, Passive
    <3> QED  BY <3>1, Join31 DEF Bounce
  <2>2. q = Plugins(c, <<"stop", "start", "health_check", "connect">>)
    BY <2>1
  <2> HIDE DEF q
  <2> QED  BY <2>2 DEF Plugins, Call
<1> HIDE DEF q
<1>3. q \in Seq(Plugin)
  BY <1>1, <1>2 DEF Names, Passive
<1>4. \A i \in DOMAIN q : RestartPlugin(c, D, zs, 10, q, i)
  BY <1>2, Distinct DEF RestartPlugin, IsCheck, Talks, Call
<1>5. HasPlugin(c, "stop", q)
  BY <1>2 DEF HasPlugin, Call
<1> QED  BY <1>3, <1>4, <1>5 DEF RestartRow, q

\* ocp-express.
LEMMA BounceExpress ==
    ASSUME NEW D, NEW zs
    PROVE  LET q == Plugins(express, <<"stop", "cursor_check", "start", "health_check", "connect">>)
           IN  RestartRow(express, D, zs, 10, q) /\ HasPlugin(express, "stop", q)
<1> DEFINE q == Plugins(express, <<"stop", "cursor_check", "start", "health_check", "connect">>)
<1>1. (\A n \in Names : Call(express, n) \in Plugin)
  BY PsIs DEF Modelled
<1>2. q = <<Call(express, "stop"), Call(express, "cursor_check"), Call(express, "start"),
            Call(express, "health_check"), Call(express, "connect")>>
  BY DEF Plugins, Call
<1> HIDE DEF q
<1>3. q \in Seq(Plugin)
  BY <1>1, <1>2 DEF Names, Passive
<1>4. \A i \in DOMAIN q : RestartPlugin(express, D, zs, 10, q, i)
  BY <1>2, Distinct DEF RestartPlugin, IsCheck, Talks, Call
<1>5. HasPlugin(express, "stop", q)
  BY <1>2 DEF HasPlugin, Call
<1> QED  BY <1>3, <1>4, <1>5 DEF RestartRow, q

\* The binlog service.
LEMMA BounceBinlog ==
    ASSUME NEW D, NEW zs
    PROVE  LET q == Plugins(obbinlog, Bounce \o <<"connect", "start_instances">>)
           IN  RestartRow(obbinlog, D, zs, 10, q) /\ HasPlugin(obbinlog, "stop", q)
<1> DEFINE q == Plugins(obbinlog, Bounce \o <<"connect", "start_instances">>)
<1>1. (\A n \in Names : Call(obbinlog, n) \in Plugin)
  BY PsIs DEF Modelled
<1>2. q = <<Call(obbinlog, "stop"), Call(obbinlog, "start"), Call(obbinlog, "health_check"),
            Call(obbinlog, "connect"), Call(obbinlog, "start_instances")>>
  <2>1. Bounce \o <<"connect", "start_instances">>
            = <<"stop", "start", "health_check", "connect", "start_instances">>
    <3>1. /\ "stop" \in Names /\ "start" \in Names /\ "health_check" \in Names
          /\ "connect" \in Names /\ "start_instances" \in Names
      BY DEF Names, Passive
    <3> QED  BY <3>1, Join32 DEF Bounce
  <2>2. q = Plugins(obbinlog, <<"stop", "start", "health_check", "connect", "start_instances">>)
    BY <2>1
  <2> HIDE DEF q
  <2> QED  BY <2>2 DEF Plugins, Call
<1> HIDE DEF q
<1>3. q \in Seq(Plugin)
  BY <1>1, <1>2 DEF Names, Passive
<1>4. \A i \in DOMAIN q : RestartPlugin(obbinlog, D, zs, 10, q, i)
  BY <1>2, Distinct DEF RestartPlugin, IsCheck, Talks, Call
<1>5. HasPlugin(obbinlog, "stop", q)
  BY <1>2 DEF HasPlugin, Call
<1> QED  BY <1>3, <1>4, <1>5 DEF RestartRow, q

\* What it does before the others.
LEMMA BinlogBefore ==
    ASSUME NEW D, NEW zs
    PROVE  LET q == Plugins(obbinlog, <<"connect", "stop_instances">>)
           IN  RestartRow(obbinlog, D, zs, 9, q) /\ HasPlugin(obbinlog, "stop_instances", q)
<1> DEFINE q == Plugins(obbinlog, <<"connect", "stop_instances">>)
<1>1. (\A n \in Names : Call(obbinlog, n) \in Plugin)
  BY PsIs DEF Modelled
<1>2. q = <<Call(obbinlog, "connect"), Call(obbinlog, "stop_instances")>>
  BY DEF Plugins, Call
<1> HIDE DEF q
<1>3. q \in Seq(Plugin)
  BY <1>1, <1>2 DEF Names, Passive
<1>4. \A i \in DOMAIN q : RestartPlugin(obbinlog, D, zs, 9, q, i)
  BY <1>2, Distinct DEF RestartPlugin, IsCheck, Talks, Call
<1>5. HasPlugin(obbinlog, "stop_instances", q)
  BY <1>2 DEF HasPlugin, Call
<1> QED  BY <1>3, <1>4, <1>5 DEF RestartRow, q

\* The database, not zone by zone.
LEMMA BounceOceanBase ==
    ASSUME NEW D, NEW zs
    PROVE  LET q == Plugins(oceanbase, Bounce) \o Plugins(oceanbase, <<"connect">>)
           IN  RestartRow(oceanbase, D, zs, 10, q) /\ HasPlugin(oceanbase, "stop", q)
<1> DEFINE q == Plugins(oceanbase, Bounce) \o Plugins(oceanbase, <<"connect">>)
<1>1. (\A n \in Names : Call(oceanbase, n) \in Plugin)
  BY PsIs DEF Modelled
<1>2. q = <<Call(oceanbase, "stop"), Call(oceanbase, "start"), Call(oceanbase, "health_check"),
            Call(oceanbase, "connect")>>
  <2>1. q = <<Call(oceanbase, "stop"), Call(oceanbase, "start"), Call(oceanbase, "health_check")>>
              \o <<Call(oceanbase, "connect")>>
    BY DEF Plugins, Call, Bounce
  <2> HIDE DEF q
  <2>2. /\ Call(oceanbase, "stop") \in Plugin /\ Call(oceanbase, "start") \in Plugin
        /\ Call(oceanbase, "health_check") \in Plugin /\ Call(oceanbase, "connect") \in Plugin
    BY <1>1 DEF Names, Passive
  <2> QED  BY <2>1, <2>2, Join31
<1> HIDE DEF q
<1>3. q \in Seq(Plugin)
  BY <1>1, <1>2 DEF Names, Passive
<1>4. \A i \in DOMAIN q : RestartPlugin(oceanbase, D, zs, 10, q, i)
  BY <1>2, Distinct DEF RestartPlugin, IsCheck, Talks, Call
<1>5. HasPlugin(oceanbase, "stop", q)
  BY <1>2 DEF HasPlugin, Call
<1> QED  BY <1>3, <1>4, <1>5 DEF RestartRow, q

\* An Alertmanager without a Prometheus,
LEMMA BounceAlone ==
    ASSUME NEW D, NEW zs
    PROVE  LET q == (Plugins(alertmanager, Bounce) \o <<>>) \o Plugins(alertmanager, <<"connect">>)
           IN  RestartRow(alertmanager, D, zs, 10, q) /\ HasPlugin(alertmanager, "stop", q)
<1> DEFINE q == (Plugins(alertmanager, Bounce) \o <<>>) \o Plugins(alertmanager, <<"connect">>)
<1>1. (\A n \in Names : Call(alertmanager, n) \in Plugin)
  BY PsIs DEF Modelled
<1>2. q = <<Call(alertmanager, "stop"), Call(alertmanager, "start"),
            Call(alertmanager, "health_check"), Call(alertmanager, "connect")>>
  <2> DEFINE b == <<Call(alertmanager, "stop"), Call(alertmanager, "start"),
                    Call(alertmanager, "health_check")>>
  <2>1. q = (b \o <<>>) \o <<Call(alertmanager, "connect")>>
    BY DEF Plugins, Call, Bounce
  <2> HIDE DEF q
  <2>2. /\ Call(alertmanager, "stop") \in Plugin /\ Call(alertmanager, "start") \in Plugin
        /\ Call(alertmanager, "health_check") \in Plugin /\ Call(alertmanager, "connect") \in Plugin
    BY <1>1 DEF Names, Passive
  <2>3. b \o <<>> = b
    <3>1. b \in Seq(Plugin)
      BY <2>2
    <3> HIDE DEF b
    <3> QED  BY <3>1, ConcatEmptySeq
  <2>4. q = b \o <<Call(alertmanager, "connect")>>
    BY <2>1, <2>3
  <2> QED  BY <2>2, <2>4, Join31
<1> HIDE DEF q
<1>3. q \in Seq(Plugin)
  BY <1>1, <1>2 DEF Names, Passive
<1>4. \A i \in DOMAIN q : RestartPlugin(alertmanager, D, zs, 10, q, i)
  BY <1>2, Distinct DEF RestartPlugin, IsCheck, Talks, Call
<1>5. HasPlugin(alertmanager, "stop", q)
  BY <1>2 DEF HasPlugin, Call
<1> QED  BY <1>3, <1>4, <1>5 DEF RestartRow, q

\* and one with.
LEMMA BounceAlert ==
    ASSUME NEW D, NEW zs, prometheus \in D
    PROVE  LET q == (Plugins(alertmanager, Bounce) \o UpdatePrometheus) \o Plugins(alertmanager, <<"connect">>)
           IN  RestartRow(alertmanager, D, zs, 10, q) /\ HasPlugin(alertmanager, "stop", q)
<1> DEFINE q == (Plugins(alertmanager, Bounce) \o UpdatePrometheus) \o Plugins(alertmanager, <<"connect">>)
<1>1. (\A n \in Names : Call(alertmanager, n) \in Plugin) /\ (\A n \in Names : Call(prometheus, n) \in Plugin)
  BY PsIs DEF Modelled
<1>2. q = <<Call(alertmanager, "stop"), Call(alertmanager, "start"),
            Call(alertmanager, "health_check"), Call(prometheus, "connect"),
            Call(alertmanager, "update_prometheus"), Call(alertmanager, "connect")>>
  <2> DEFINE u == UpdatePrometheus
             x == Call(alertmanager, "stop")  y == Call(alertmanager, "start")
             z == Call(alertmanager, "health_check")  p == Call(prometheus, "connect")
             t == Call(alertmanager, "update_prometheus")  k == Call(alertmanager, "connect")
  <2>1. u = <<p>> \o <<t>>
    BY DEF Plugins, Call, UpdatePrometheus
  <2>2. q = (<<x, y, z>> \o u) \o <<k>>
    BY DEF Plugins, Call, Bounce
  <2>3. x \in Plugin /\ y \in Plugin /\ z \in Plugin /\ p \in Plugin /\ t \in Plugin /\ k \in Plugin
    BY <1>1 DEF Names, Passive
  <2>4. q = <<x, y, z, p, t, k>>
    <3> HIDE DEF q, u, x, y, z, p, t, k
    <3>1. u = <<p, t>>
      BY <2>1, <2>3, Join11
    <3>2. <<x, y, z>> \o u = <<x, y, z, p, t>>
      BY <2>3, <3>1, Join32
    <3>3. <<x, y, z, p, t>> \o <<k>> = <<x, y, z, p, t, k>>
      BY <2>3, Join51
    <3> QED  BY <2>2, <3>2, <3>3
  <2> QED  BY <2>4
<1> HIDE DEF q
<1>3. q \in Seq(Plugin)
  BY <1>1, <1>2 DEF Names, Passive
<1>4. \A i \in DOMAIN q : RestartPlugin(alertmanager, D, zs, 10, q, i)
  BY <1>2, Distinct DEF RestartPlugin, IsCheck, Talks, Call
<1>5. HasPlugin(alertmanager, "stop", q)
  BY <1>2 DEF HasPlugin, Call
<1> QED  BY <1>3, <1>4, <1>5 DEF RestartRow, q

-----------------------------------------------------------------------------
(* The rolling restart.                                                    *)

ZoneCall(z, name) == [on |-> oceanbase, plugin |-> name, zone |-> z]

\* What a rolling restart does for one zone.
Block(y, z) == <<ZoneCall(y, "start_zone"), ZoneCall(y, "active_check"),
                 ZoneCall(z, "stop_zone"), ZoneCall(z, "stop"),
                 ZoneCall(z, "start"), ZoneCall(z, "health_check")>>

\* One plugin for a zone.
LEMMA ZIs ==
    ASSUME NEW z \in ZoneNames \cup {NoZone}
    PROVE  \A n \in Names : ZoneCall(z, n) \in Plugin
BY DEF ZoneCall, Plugin, Modelled

\* What a rolling restart does for a zone, written out.
LEMMA BlockIs ==
    ASSUME NEW y \in ZoneNames \cup {NoZone}, NEW z \in ZoneNames \cup {NoZone}
    PROVE  /\ ZonePlugins(y, <<"start_zone", "active_check">>)
                \o ZonePlugins(z, <<"stop_zone">> \o Bounce) = Block(y, z)
           /\ Block(y, z) \in Seq(Plugin)
<1> DEFINE q == ZonePlugins(y, <<"start_zone", "active_check">>)
                  \o ZonePlugins(z, <<"stop_zone">> \o Bounce)
<1>1. <<"stop_zone">> \o Bounce = <<"stop_zone", "stop", "start", "health_check">>
  <2>1. "stop_zone" \in Names /\ "stop" \in Names /\ "start" \in Names /\ "health_check" \in Names
    BY DEF Names
  <2> QED  BY <2>1, Join13 DEF Bounce
<1>2. q = ZonePlugins(y, <<"start_zone", "active_check">>)
            \o ZonePlugins(z, <<"stop_zone", "stop", "start", "health_check">>)
  BY <1>1
<1> HIDE DEF q
<1>3. q = <<ZoneCall(y, "start_zone"), ZoneCall(y, "active_check")>>
            \o <<ZoneCall(z, "stop_zone"), ZoneCall(z, "stop"), ZoneCall(z, "start"),
                 ZoneCall(z, "health_check")>>
  BY <1>2 DEF ZonePlugins, ZoneCall
<1>4. /\ ZoneCall(y, "start_zone") \in Plugin /\ ZoneCall(y, "active_check") \in Plugin
      /\ ZoneCall(z, "stop_zone") \in Plugin /\ ZoneCall(z, "stop") \in Plugin /\ ZoneCall(z, "start") \in Plugin
      /\ ZoneCall(z, "health_check") \in Plugin
  BY ZIs DEF Names, Passive
<1>5. q = Block(y, z)
  BY <1>3, <1>4, Join24 DEF Block
<1>6. Block(y, z) \in Seq(Plugin)
  BY <1>4 DEF Block
<1> QED  BY <1>5, <1>6 DEF q

\* The places of a laid sequence are in the order of its elements.
LEMMA LaidOrder ==
    ASSUME NEW T, NEW u \in Seq(T), NEW seqs, NEW m \in Nat,
           NEW b \in [DOMAIN u -> Nat], NEW o \in [DOMAIN u -> Nat], Laid(u, seqs, m, b, o),
           NEW k \in DOMAIN u, NEW l \in DOMAIN u,
           b[k] < b[l] \/ (b[k] = b[l] /\ o[k] < o[l])
    PROVE  k < l
<1>1. k \in Nat /\ l \in Nat /\ b[k] \in Nat /\ b[l] \in Nat /\ o[k] \in Nat /\ o[l] \in Nat
  OBVIOUS
<1>2. l < k => b[l] < b[k] \/ (b[k] = b[l] /\ o[l] < o[k])
  BY DEF Laid
<1> QED  BY <1>1, <1>2

\* A rolling restart starts each zone that it stops, and checks the servers before.
LEMMA Rolling ==
    ASSUME NEW D, NEW zs \in Seq(ZoneNames), Len(zs) > 2
    PROVE  LET q == RollingRestart(zs) \o Plugins(oceanbase, <<"connect">>)
           IN  RestartRow(oceanbase, D, zs, 10, q) /\ HasPlugin(oceanbase, "stop", q)
<1> DEFINE n == Len(zs)
           prev(i) == IF i = 1 THEN NoZone ELSE zs[i - 1]
           blocks == [i \in 1..n |-> Block(prev(i), zs[i])]
           f == FlattenSeq(blocks)
           N == Len(f)
           last == <<ZoneCall(zs[n], "start_zone")>>
           end == <<Call(oceanbase, "connect")>>
           q == (f \o last) \o end
<1>1. n \in Nat /\ n > 2 /\ DOMAIN zs = 1..n /\ \A i \in 1..n : zs[i] \in ZoneNames
  BY LenProperties
<1>2. \A i \in 1..n : prev(i) \in ZoneNames \cup {NoZone}
  BY <1>1
<1>3. blocks \in Seq(Seq(Plugin)) /\ Len(blocks) = n
  <2>1. \A i \in 1..n : Block(prev(i), zs[i]) \in Seq(Plugin)
    BY <1>1, <1>2, BlockIs
  <2> QED  BY <1>1, <2>1
<1>4. RollingRestart(zs) \o Plugins(oceanbase, <<"connect">>) = q
  <2> DEFINE OfZone(i) == ZonePlugins(prev(i), <<"start_zone", "active_check">>)
                            \o ZonePlugins(zs[i], <<"stop_zone">> \o Bounce)
  <2>1. \A i \in 1..n : OfZone(i) = Block(prev(i), zs[i])
    BY <1>1, <1>2, BlockIs
  <2>2. [i \in DOMAIN zs |-> OfZone(i)] = blocks
    <3> HIDE DEF OfZone, prev
    <3> QED  BY <1>1, <2>1
  <2>3. RollingRestart(zs) = FlattenSeq([i \in DOMAIN zs |-> OfZone(i)]) \o ZonePlugins(zs[n], <<"start_zone">>)
    BY DEF RollingRestart
  <2>4. ZonePlugins(zs[n], <<"start_zone">>) = last /\ Plugins(oceanbase, <<"connect">>) = end
    BY DEF ZonePlugins, ZoneCall, Plugins, Call
  <2> HIDE DEF blocks, last, end, OfZone
  <2> QED  BY <2>2, <2>3, <2>4
<1> HIDE DEF blocks, f
<1>5. f \in Seq(Plugin)
  BY <1>3, FlatIsLaid DEF f
<1>6. PICK b \in [DOMAIN f -> Nat], o \in [DOMAIN f -> Nat] : Laid(f, blocks, n, b, o)
  BY <1>3, FlatIsLaid DEF f
<1>7. last \in Seq(Plugin) /\ end \in Seq(Plugin) /\ Len(last) = 1 /\ Len(end) = 1
  <2>1. ZoneCall(zs[n], "start_zone") \in Plugin /\ Call(oceanbase, "connect") \in Plugin
    BY <1>1, ZIs, PIs DEF Names, Passive, Modelled
  <2> QED  BY <2>1
<1>8. N \in Nat /\ DOMAIN f = 1..N /\ Len(f) = N
  BY <1>5, LenProperties
<1>9. /\ q \in Seq(Plugin) /\ DOMAIN q = 1..(N + 2)
      /\ \A k \in 1..N : q[k] = f[k]
      /\ q[N + 1] = ZoneCall(zs[n], "start_zone") /\ q[N + 2] = Call(oceanbase, "connect")
  <2> DEFINE g == f \o last
  <2>1. /\ g \in Seq(Plugin) /\ Len(g) = N + 1
        /\ \A k \in 1..(N + 1) : g[k] = IF k <= N THEN f[k] ELSE last[k - N]
    <3> HIDE DEF last, N
    <3>1. /\ f \o last \in Seq(Plugin) /\ Len(f \o last) = Len(f) + Len(last)
          /\ \A k \in 1..(Len(f) + Len(last)) : (f \o last)[k] = IF k <= Len(f) THEN f[k] ELSE last[k - Len(f)]
      BY <1>5, <1>7, ConcatProperties
    <3> QED  BY <1>7, <1>8, <3>1
  <2> HIDE DEF g, end, last, N
  <2>2. /\ q \in Seq(Plugin) /\ Len(q) = N + 2
        /\ \A k \in 1..(N + 2) : q[k] = IF k <= N + 1 THEN g[k] ELSE end[k - (N + 1)]
    <3>1. end \in Seq(Plugin) /\ Len(end) = 1 /\ N \in Nat
      BY <1>7, <1>8
    <3>2. /\ g \o end \in Seq(Plugin) /\ Len(g \o end) = Len(g) + Len(end)
          /\ \A k \in 1..(Len(g) + Len(end)) : (g \o end)[k] = IF k <= Len(g) THEN g[k] ELSE end[k - Len(g)]
      BY ONLY <2>1, <3>1, ConcatProperties
    <3>3. q = g \o end
      BY DEF g
    <3>4. Len(g) + Len(end) = N + 2 /\ Len(g) = N + 1
      BY ONLY <2>1, <3>1
    <3> QED  BY ONLY <3>2, <3>3, <3>4
  <2>3. \A k \in 1..N : q[k] = f[k]
    BY <1>8, <2>1, <2>2
  <2>4. q[N + 1] = last[1] /\ q[N + 2] = end[1]
    <3>1. N + 1 \in 1..(N + 2) /\ N + 1 \in 1..(N + 1) /\ (N + 1) - N = 1 /\ ~(N + 1 <= N)
      BY <1>8
    <3>2. N + 2 \in 1..(N + 2) /\ (N + 2) - (N + 1) = 1 /\ ~(N + 2 <= N + 1)
      BY <1>8
    <3>3. q[N + 1] = g[N + 1]
      <4> DEFINE k == N + 1
      <4>1. k \in 1..(N + 2) /\ k <= N + 1
        BY <1>8
      <4> HIDE DEF k
      <4>2. q[k] = g[k]
        BY <2>2, <4>1
      <4> QED  BY <4>2 DEF k
    <3>5. g[N + 1] = last[1]
      BY <2>1, <3>1
    <3>4. q[N + 2] = end[1]
      BY <2>2, <3>2
    <3> QED  BY <3>3, <3>4, <3>5
  <2>5. last[1] = ZoneCall(zs[n], "start_zone") /\ end[1] = Call(oceanbase, "connect")
    BY DEF last, end
  <2>6. DOMAIN q = 1..(N + 2)
    BY <1>8, <2>2, LenProperties
  <2> QED  BY <2>2, <2>3, <2>4, <2>5, <2>6
<1> HIDE DEF q, N, n, last, end
<1>10. \A i \in 1..n : blocks[i] = Block(prev(i), zs[i]) /\ DOMAIN blocks[i] = 1..6
  BY <1>1 DEF blocks, n, Block
<1>11. ASSUME NEW k \in 1..N
       PROVE  /\ b[k] \in 1..n /\ o[k] \in 1..6 /\ q[k] = Block(prev(b[k]), zs[b[k]])[o[k]]
  <2> HIDE DEF prev
  <2>1. k \in DOMAIN f /\ q[k] = f[k]
    BY <1>8, <1>9
  <2>2. b[k] \in 1..n /\ o[k] \in DOMAIN blocks[b[k]] /\ f[k] = blocks[b[k]][o[k]]
    BY <1>6, <2>1 DEF Laid
  <2> QED  BY <1>10, <2>1, <2>2
<1>12. ASSUME NEW i \in 1..n, NEW j \in 1..6
       PROVE  \E k \in 1..N : b[k] = i /\ o[k] = j
  <2> HIDE DEF prev
  <2>1. j \in DOMAIN blocks[i]
    BY <1>10
  <2> QED  BY <1>6, <1>8, <2>1 DEF Laid
<1>13. ASSUME NEW k \in 1..N, NEW l \in 1..N, b[k] < b[l] \/ (b[k] = b[l] /\ o[k] < o[l])
       PROVE  k < l
  BY <1>1, <1>5, <1>6, <1>8, <1>13, LaidOrder
<1>14. ASSUME NEW k \in 1..N, NEW l \in 1..N, k < l
       PROVE  b[k] < b[l] \/ (b[k] = b[l] /\ o[k] < o[l])
  BY <1>6, <1>8, <1>14 DEF Laid
<1>15. ASSUME NEW y, NEW z
       PROVE  /\ \A j \in 1..6 : Block(y, z)[j].on = oceanbase
              /\ Block(y, z)[1].plugin = "start_zone" /\ Block(y, z)[1].zone = y
              /\ Block(y, z)[2].plugin = "active_check"
              /\ Block(y, z)[3].plugin = "stop_zone" /\ Block(y, z)[3].zone = z
              /\ Block(y, z)[4].plugin = "stop" /\ Block(y, z)[5].plugin = "start"
              /\ Block(y, z)[6].plugin = "health_check"
  BY DEF Block, ZoneCall
<1>16. ASSUME NEW k \in 1..N
       PROVE  /\ q[k].on = oceanbase
              /\ o[k] = 1 => q[k].plugin = "start_zone" /\ q[k].zone = prev(b[k])
              /\ o[k] = 2 => q[k].plugin = "active_check"
              /\ o[k] = 3 => q[k].plugin = "stop_zone" /\ q[k].zone = zs[b[k]]
              /\ o[k] = 4 => q[k].plugin = "stop"
              /\ o[k] = 5 => q[k].plugin = "start"
              /\ o[k] = 6 => q[k].plugin = "health_check"
  <2> HIDE DEF prev
  <2> QED  BY <1>11, <1>15
<1>17. /\ q[N + 1].on = oceanbase /\ q[N + 1].plugin = "start_zone" /\ q[N + 1].zone = zs[n]
       /\ q[N + 2].on = oceanbase /\ q[N + 2].plugin = "connect"
  BY <1>9 DEF ZoneCall, Call
<1>18. ASSUME NEW i \in 1..N, q[i].plugin = "stop_zone"
       PROVE  /\ q[i].zone \in ToSet(zs)
              /\ \E j \in 1..(N + 2) : j > i /\ q[j].plugin = "start_zone" /\ q[j].zone = q[i].zone
  <2>1. b[i] \in 1..n /\ o[i] \in 1..6
    BY <1>11
  <2>4. o[i] = 3 /\ q[i].zone = zs[b[i]]
    <3> HIDE DEF prev
    <3> QED  BY <1>16, <1>18, <2>1
  <2>5. zs[b[i]] \in ToSet(zs)
    BY <1>1, <2>1 DEF ToSet
  <2>2. CASE b[i] = n
    <3>1. N + 1 \in 1..(N + 2) /\ N + 1 > i
      BY <1>8
    <3> QED  BY <1>17, <2>2, <2>4, <2>5, <3>1
  <2>3. CASE b[i] # n
    <3>1. 1 \in 1..6 /\ b[i] + 1 \in 1..n /\ b[i] + 1 # 1 /\ (b[i] + 1) - 1 = b[i]
      BY <1>1, <2>1, <2>3
    <3> HIDE DEF prev
    <3>2. PICK j \in 1..N : b[j] = b[i] + 1 /\ o[j] = 1
      BY <1>12, <3>1
    <3>3. q[j].plugin = "start_zone" /\ q[j].zone = prev(b[i] + 1)
      BY <1>16, <3>2
    <3>5. prev(b[i] + 1) = zs[b[i]]
      BY <3>1 DEF prev
    <3>4. j > i
      BY <1>1, <1>13, <2>1, <3>1, <3>2
    <3>6. j \in 1..(N + 2)
      BY <1>8
    <3> QED  BY <2>4, <2>5, <3>3, <3>4, <3>5, <3>6
  <2> QED  BY <2>2, <2>3
<1>19. ASSUME NEW i \in 1..N, q[i].plugin = "stop"
       PROVE  /\ \E j \in 1..N : j > i /\ IsCheck(oceanbase, q[j])
              /\ \A j \in 1..(N + 2) : j > i /\ q[j].plugin \in Talks =>
                   \E k \in 1..N : i < k /\ k < j /\ IsCheck(oceanbase, q[k])
  <2>1. o[i] = 4 /\ b[i] \in 1..n
    BY <1>11, <1>16, <1>19
  <2>2. PICK k \in 1..N : b[k] = b[i] /\ o[k] = 6
    BY <1>12, <2>1
  <2>3. k > i /\ IsCheck(oceanbase, q[k])
    BY <1>8, <1>13, <1>16, <2>1, <2>2 DEF IsCheck
  <2>4. ASSUME NEW j \in 1..(N + 2), j > i, q[j].plugin \in Talks PROVE k < j
    <3>1. CASE j \in 1..N
      <4>1. o[j] \in {1, 2, 3}
        <5>1. o[j] \in 1..6
          BY <1>11, <3>1
        <5>2. o[j] = 4 => q[j].plugin = "stop"
          BY <1>16, <3>1
        <5>3. o[j] = 5 => q[j].plugin = "start"
          BY <1>16, <3>1
        <5>4. o[j] = 6 => q[j].plugin = "health_check"
          BY <1>16, <3>1
        <5> QED  BY <2>4, <5>1, <5>2, <5>3, <5>4 DEF Talks
      <4>2. b[i] < b[j]
        BY <1>8, <1>11, <1>14, <2>1, <2>4, <3>1, <4>1
      <4> QED  BY <1>13, <2>2, <3>1, <4>2
    <3>2. CASE j \notin 1..N
      BY <1>8, <3>2
    <3> QED  BY <3>1, <3>2
  <2> QED  BY <2>3, <2>4
<1>20. ASSUME NEW i \in 1..(N + 2) PROVE RestartPlugin(oceanbase, D, zs, 10, q, i)
  <2>1. CASE i \in 1..N
    <3>1. /\ q[i].on = oceanbase
          /\ q[i].plugin \in {"start", "stop", "health_check", "start_zone", "stop_zone", "active_check"}
      <4>1. o[i] \in {1, 2, 3, 4, 5, 6}
        BY <1>11, <2>1
      <4> HIDE DEF prev
      <4> QED  BY <1>16, <2>1, <4>1
    <3>2. DOMAIN q = 1..(N + 2) /\ \A k \in 1..N : k \in 1..(N + 2)
      BY <1>8, <1>9
    <3> QED  BY <1>18, <1>19, <2>1, <3>1, <3>2 DEF RestartPlugin
  <2>2. CASE i \in {N + 1, N + 2}
    BY <1>17, <2>2 DEF RestartPlugin
  <2> QED  BY <1>8, <2>1, <2>2
<1>21. HasPlugin(oceanbase, "stop", q)
  <2>1. PICK k \in 1..N : b[k] = 1 /\ o[k] = 4
    <3> HIDE DEF prev
    <3>1. 1 \in 1..n /\ 4 \in 1..6
      BY <1>1
    <3> QED  BY <1>12, <3>1
  <2>2. k \in DOMAIN q
    BY <1>8, <1>9
  <2> QED  BY <1>16, <2>1, <2>2 DEF HasPlugin
<1>22. RestartRow(oceanbase, D, zs, 10, q)
  BY <1>9, <1>20 DEF RestartRow
<1> QED  BY <1>4, <1>21, <1>22

-----------------------------------------------------------------------------
(* All restart templates.                                                  *)

\* A restart workflow of one stage.
LEMMA RestartInFirst ==
    ASSUME NEW c \in Modelled \ {obbinlog}, NEW D, NEW zs, NEW q,
           RestartRow(c, D, zs, 10, q), HasPlugin(c, "stop", q), NEW w, w = Add(Nothing, 10, q)
    PROVE  RestartWorkflow(c, D, zs, w)
<1>1. q \in Seq(Plugin) /\ 10 \in ToSet(Stages)
  BY FourStages DEF RestartRow
<1>2. w \in [ToSet(Stages) -> Seq(Plugin)] /\ \A s \in ToSet(Stages) : w[s] = IF s = 10 THEN q ELSE <<>>
  BY <1>1, InOne
<1>3. \A s \in ToSet(Stages) : RestartRow(c, D, zs, s, w[s])
  BY <1>2, RestartEmpty
<1> QED  BY <1>1, <1>2, <1>3 DEF RestartWorkflow

\* Every restart template is in order.
LEMMA RestartIs ==
    ASSUME NEW c \in Modelled, NEW D, NEW zs \in Seq(ZoneNames)
    PROVE  RestartWorkflow(c, D, zs, RestartOf(c, D, zs))
<1> DEFINE w == RestartOf(c, D, zs)
<1>1. CASE c = oceanbase
  <2>1. w = Add(Nothing, 10, (IF Len(zs) > 2 THEN RollingRestart(zs) ELSE Plugins(oceanbase, Bounce))
                                \o Plugins(oceanbase, <<"connect">>))
    BY <1>1, Distinct DEF RestartOf, RestartOceanBase, First
  <2> DEFINE q == RollingRestart(zs) \o Plugins(oceanbase, <<"connect">>)
             p == Plugins(oceanbase, Bounce) \o Plugins(oceanbase, <<"connect">>)
  <2>2. w = IF Len(zs) > 2 THEN Add(Nothing, 10, q) ELSE Add(Nothing, 10, p)
    BY <2>1
  <2>3. /\ Len(zs) > 2 => RestartRow(oceanbase, D, zs, 10, q) /\ HasPlugin(oceanbase, "stop", q)
        /\ RestartRow(oceanbase, D, zs, 10, p) /\ HasPlugin(oceanbase, "stop", p)
    BY Rolling, BounceOceanBase
  <2>4. c # obbinlog
    BY <1>1, Distinct
  <2> HIDE DEF w, p, q
  <2>5. CASE Len(zs) > 2
    BY <1>1, <2>2, <2>3, <2>4, <2>5, RestartInFirst DEF w
  <2>6. CASE ~(Len(zs) > 2)
    BY <1>1, <2>2, <2>3, <2>4, <2>6, RestartInFirst DEF w
  <2> QED  BY <2>5, <2>6
<1>2. CASE c = obbinlog
  <2> DEFINE p == Plugins(obbinlog, <<"connect", "stop_instances">>)
             q == Plugins(obbinlog, Bounce \o <<"connect", "start_instances">>)
             one == 9  two == 10
  <2>1. w = Add(Add(Nothing, one, p), two, q)
    BY <1>2, Distinct DEF RestartOf, RestartBinlog, First
  <2>2. /\ RestartRow(obbinlog, D, zs, one, p) /\ HasPlugin(obbinlog, "stop_instances", p)
        /\ RestartRow(obbinlog, D, zs, two, q) /\ HasPlugin(obbinlog, "stop", q)
    BY BinlogBefore, BounceBinlog
  <2>3. one \in ToSet(Stages) /\ two \in ToSet(Stages) /\ one # two
    BY FourStages
  <2> HIDE DEF w, p, q, one, two
  <2>4. p \in Seq(Plugin) /\ q \in Seq(Plugin)
    BY <2>2 DEF RestartRow
  <2>5. /\ w \in [ToSet(Stages) -> Seq(Plugin)]
        /\ \A s \in ToSet(Stages) : w[s] = IF s = one THEN p ELSE IF s = two THEN q ELSE <<>>
    BY <2>1, <2>3, <2>4, InTwo
  <2>6. \A s \in ToSet(Stages) : RestartRow(obbinlog, D, zs, s, w[s])
    BY <2>2, <2>5, RestartEmpty
  <2>7. w[one] = p /\ w[two] = q
    BY <2>3, <2>5
  <2>8. HasPlugin(obbinlog, "stop", w[10]) /\ HasPlugin(obbinlog, "stop_instances", w[9])
    BY <2>2, <2>7 DEF one, two
  <2> QED  BY <1>2, <2>5, <2>6, <2>8 DEF RestartWorkflow, w
<1>3. CASE c = alertmanager
  <2> DEFINE u == IF prometheus \in D THEN UpdatePrometheus ELSE <<>>
             q == (Plugins(alertmanager, Bounce) \o u) \o Plugins(alertmanager, <<"connect">>)
  <2>1. w = Add(Nothing, 10, q) /\ c # obbinlog
    BY <1>3, Distinct DEF RestartOf, RestartAlertmanager, First
  <2>2. RestartRow(alertmanager, D, zs, 10, q) /\ HasPlugin(alertmanager, "stop", q)
    <3>1. CASE prometheus \in D
      BY <3>1, BounceAlert
    <3>2. CASE prometheus \notin D
      BY <3>2, BounceAlone
    <3> QED  BY <3>1, <3>2
  <2> HIDE DEF w, q
  <2> QED  BY <1>3, <2>1, <2>2, RestartInFirst DEF w
<1>4. CASE c = express
  <2> DEFINE q == Plugins(express, <<"stop", "cursor_check", "start", "health_check", "connect">>)
  <2>1. w = Add(Nothing, 10, q) /\ c # obbinlog
    BY <1>4, Distinct DEF RestartOf, RestartExpress, First
  <2>2. RestartRow(express, D, zs, 10, q) /\ HasPlugin(express, "stop", q)
    BY BounceExpress
  <2> HIDE DEF w, q
  <2> QED  BY <1>4, <2>1, <2>2, RestartInFirst DEF w
<1>5. CASE c \notin {oceanbase, obbinlog, alertmanager, express}
  <2> DEFINE q == Plugins(c, Bounce \o <<"connect">>)
  <2>1. w = Add(Nothing, 10, q) /\ c # obbinlog
    BY <1>5, Distinct DEF RestartOf, First
  <2>2. RestartRow(c, D, zs, 10, q) /\ HasPlugin(c, "stop", q)
    BY BouncePlain
  <2> HIDE DEF w, q
  <2> QED  BY <2>1, <2>2, RestartInFirst DEF w
<1> QED  BY <1>1, <1>2, <1>3, <1>4, <1>5

-----------------------------------------------------------------------------
(* The merged workflow: in which order the plugins of all components come. *)

\* The plugins that only the database has.
DatabaseOnly == {"start_zone", "active_check", "stop_zone", "restart_pre"}

\* A component depends on none that it does not declare.
DependsDeclared == \A c \in Components : depends[c] \subseteq plan.declared[c] \ {c}

\* What holds when the components are sorted.
AllSorted ==
    /\ plan \in Plans
    /\ sorted \in Seq(Components) /\ ToSet(sorted) = Components /\ IsInjective(sorted)
    /\ depends \in [Components -> SUBSET Components]
    /\ DependsDeclared
    /\ DependenciesSorted

Workflows == [Components -> [ToSet(Stages) -> Seq(Plugin)]]

\* Place (r, i, j) comes before place (s, k, l).
Before(r, i, j, s, k, l) == r < s \/ (r = s /\ (i < k \/ (i = k /\ j < l)))

Turns == 1..4

\* Where each element of a merged workflow stands: its stage, its component, its turn.
Places(m, wf, st, co, off) ==
    /\ \A x \in DOMAIN m :
         /\ st[x] \in 1..4 /\ co[x] \in DOMAIN sorted
         /\ m[x].of = sorted[co[x]] /\ m[x].of \in Components
         /\ LET q == wf[m[x].of][Stages[st[x]]]
            IN  /\ off[x] \in DOMAIN q
                /\ m[x].on = q[off[x]].on /\ m[x].plugin = q[off[x]].plugin
                /\ m[x].zone = q[off[x]].zone
    /\ \A x, y \in DOMAIN m : x < y <=> Before(st[x], co[x], off[x], st[y], co[y], off[y])
    /\ \A s \in Turns, i \in DOMAIN sorted : \A j \in DOMAIN wf[sorted[i]][Stages[s]] :
         \E x \in DOMAIN m : st[x] = s /\ co[x] = i /\ off[x] = j

\* What the assumptions say of the deployment.
LEMMA ComponentsModelled ==
    ASSUME plan \in Plans
    PROVE  /\ Components \subseteq Modelled
           /\ express \in Components => oceanbase \in Components
           /\ obbinlog \in Components /\ (plan.declared[obbinlog] \cap Components) \ {obbinlog} # {} =>
                oceanbase \in Components
           /\ Zones # {} /\ Zones \subseteq ZoneNames /\ Zones \cap Modelled = {}
           /\ plan.zones \in Seq(Zones)
<1>1. plan.order \in Seq(Kinds) /\ plan.zones \in Seq(ZoneNames) /\ plan.zones # <<>>
  BY ScheduleAssumption
<1>2. Components \subseteq Kinds
  BY <1>1 DEF Components, ToSet
<1>3. Zones \subseteq ZoneNames /\ Zones # {}
  <2>1. 1 \in DOMAIN plan.zones
    BY <1>1
  <2>2. plan.zones[1] \in Zones
    BY <2>1 DEF Zones, ToSet
  <2>3. \A i \in DOMAIN plan.zones : plan.zones[i] \in ZoneNames
    BY <1>1
  <2> QED  BY <2>2, <2>3 DEF Zones, ToSet
<1>6. plan.zones \in Seq(Zones)
  <2>1. \A i \in DOMAIN plan.zones : plan.zones[i] \in Zones
    BY DEF Zones, ToSet
  <2>2. DOMAIN plan.zones = 1..Len(plan.zones) /\ Len(plan.zones) \in Nat
        /\ plan.zones = [i \in 1..Len(plan.zones) |-> plan.zones[i]]
    BY <1>1
  <2> QED  BY <2>1, <2>2
<1>4. /\ express \in Components => oceanbase \in Components
      /\ obbinlog \in Components /\ (plan.declared[obbinlog] \cap Components) \ {obbinlog} # {} =>
           oceanbase \in Components
  BY ScheduleAssumption DEF Components
<1>5. Kinds \subseteq Modelled /\ ZoneNames \cap Modelled = {}
  BY ScheduleAssumption
<1> QED  BY <1>2, <1>3, <1>4, <1>5, <1>6

\* Every plugin of the merged workflow has a place, and every place its plugin.
LEMMA MergedPlaces ==
    ASSUME AllSorted, NEW wf \in Workflows
    PROVE  LET m == Merged(wf, sorted)
           IN  /\ m \in Seq(Template)
               /\ \E st, co, off \in [DOMAIN m -> Nat] : Places(m, wf, st, co, off)
<1> DEFINE m == Merged(wf, sorted)
<1>1. sorted \in Seq(Modelled) /\ wf \in [ToSet(sorted) -> [ToSet(Stages) -> Seq(Plugin)]]
  <2>1. Components \subseteq Modelled /\ sorted \in Seq(Components) /\ ToSet(sorted) = Components
    BY ComponentsModelled DEF AllSorted
  <2> QED  BY <2>1 DEF Workflows
<1>2. /\ m \in Seq(Template)
      /\ \E st, co, off \in [DOMAIN m -> Nat] : Placed(m, wf, sorted, st, co, off)
  BY <1>1, MergedIsPlaced
<1> HIDE DEF m
<1>3. PICK st \in [DOMAIN m -> Nat], co \in [DOMAIN m -> Nat], off \in [DOMAIN m -> Nat] :
        Placed(m, wf, sorted, st, co, off)
  BY <1>2
<1>4. ASSUME NEW x \in DOMAIN m
      PROVE  /\ st[x] \in 1..4 /\ co[x] \in DOMAIN sorted
             /\ m[x].of = sorted[co[x]] /\ m[x].of \in Components
             /\ LET q == wf[m[x].of][Stages[st[x]]]
                IN  /\ off[x] \in DOMAIN q
                    /\ m[x].on = q[off[x]].on /\ m[x].plugin = q[off[x]].plugin
                    /\ m[x].zone = q[off[x]].zone
  <2> DEFINE c == sorted[co[x]]
             q == wf[c][Stages[st[x]]]
  <2>1. st[x] \in 1..4 /\ co[x] \in DOMAIN sorted /\ off[x] \in DOMAIN q /\ m[x] = Of(c, q)[off[x]]
    BY <1>3 DEF Placed
  <2>2. c \in Components
    BY <2>1 DEF AllSorted, ToSet
  <2>3. Stages[st[x]] \in ToSet(Stages)
    BY <2>1, FourStages
  <2>4. q \in Seq(Plugin) /\ c \in Modelled
    BY <2>2, <2>3, ComponentsModelled DEF Workflows, AllSorted
  <2> HIDE DEF c, q
  <2>5. /\ m[x].of = c /\ m[x].on = q[off[x]].on /\ m[x].plugin = q[off[x]].plugin
        /\ m[x].zone = q[off[x]].zone
    BY <2>1, <2>4, OfType
  <2> QED  BY <2>1, <2>2, <2>5 DEF c, q
<1>5. ASSUME NEW x \in DOMAIN m, NEW y \in DOMAIN m
      PROVE  x < y <=> Before(st[x], co[x], off[x], st[y], co[y], off[y])
  <2>1. x < y => Before(st[x], co[x], off[x], st[y], co[y], off[y])
    BY <1>3 DEF Placed, Before
  <2>2. y < x => Before(st[y], co[y], off[y], st[x], co[x], off[x])
    BY <1>3 DEF Placed, Before
  <2>3. x \in Nat /\ y \in Nat
    BY <1>2
  <2>4. st[x] \in Nat /\ co[x] \in Nat /\ off[x] \in Nat /\ st[y] \in Nat /\ co[y] \in Nat /\ off[y] \in Nat
    OBVIOUS
  <2> QED  BY <2>1, <2>2, <2>3, <2>4 DEF Before
<1>6. \A s \in 1..4, i \in DOMAIN sorted : \A j \in DOMAIN wf[sorted[i]][Stages[s]] :
         \E x \in DOMAIN m : st[x] = s /\ co[x] = i /\ off[x] = j
  BY <1>3 DEF Placed
<1>7. Places(m, wf, st, co, off)
  BY <1>4, <1>5, <1>6 DEF Places, Turns
<1> QED  BY <1>2, <1>7 DEF m

\* A plugin of a component's workflow stands somewhere.
Stands(m, st, co, off, s, i, c, q, j) ==
    \E x \in DOMAIN m :
      /\ st[x] = s /\ co[x] = i /\ off[x] = j /\ m[x].of = c
      /\ m[x].on = q[j].on /\ m[x].plugin = q[j].plugin /\ m[x].zone = q[j].zone

\* The plugin of a place.
LEMMA PlaceOf ==
    ASSUME NEW m, NEW wf, NEW st, NEW co, NEW off, Places(m, wf, st, co, off),
           NEW s \in Turns, NEW i \in DOMAIN sorted, NEW j \in DOMAIN wf[sorted[i]][Stages[s]]
    PROVE  Stands(m, st, co, off, s, i, sorted[i], wf[sorted[i]][Stages[s]], j)
<1>1. PICK x \in DOMAIN m : st[x] = s /\ co[x] = i /\ off[x] = j
  BY DEF Places
<1>2. m[x].of = sorted[i]
  BY <1>1 DEF Places
<1> QED  BY <1>1, <1>2 DEF Places, Stands

\* The plugins that talk to a component, check it, kill its processes.
Asks(d)  == {t \in Template : d \in Needs(t) /\ Declares(t.of, d)}
Check(d) == {t \in Template : t.plugin = "health_check" /\ t.on = d}
Kill(d)  == {t \in Template : t.plugin = "stop" /\ t.on = d}

Has(s, A) == \E i \in DOMAIN s : s[i] \in A

\* Each A comes after a B.
Behind(s, A, B) == \A i \in DOMAIN s : s[i] \in A => \E j \in DOMAIN s : j < i /\ s[j] \in B

\* Each A is followed by a B.
Closes(s, A, B) == \A i \in DOMAIN s : s[i] \in A => \E j \in DOMAIN s : i < j /\ s[j] \in B

\* Between a C and a later A there is a B.
Kept(s, A, B, C) ==
    \A i, j \in DOMAIN s : s[i] \in C /\ s[j] \in A /\ i < j =>
        \E k \in DOMAIN s : i < k /\ k < j /\ s[k] \in B

\* No A comes before a B.
Never(s, A, B) == \A i, j \in DOMAIN s : ~(s[i] \in A /\ s[j] \in B /\ i < j)

Starting == [c \in Components |-> StartOf(c, depends[c])]

\* The start workflows of all components.
LEMMA StartingIs ==
    ASSUME AllSorted
    PROVE  /\ Starting \in Workflows
           /\ \A c \in Components : StartWorkflow(c, depends[c], Starting[c])
<1>1. \A c \in Components : StartWorkflow(c, depends[c], StartOf(c, depends[c]))
  BY StartIs, ComponentsModelled DEF AllSorted
<1>2. \A c \in Components : StartOf(c, depends[c]) \in [ToSet(Stages) -> Seq(Plugin)]
  BY <1>1 DEF StartWorkflow
<1> QED  BY <1>1, <1>2 DEF Starting, Workflows

\* A merged start checks every component, and checks it before anything talks to it: the
\* stages come one after the other, and in a stage the components that others depend on first.
LEMMA StartMerged ==
    ASSUME AllSorted
    PROVE  LET m == Merged(Starting, sorted)
           IN  /\ m \in Seq(Template)
               /\ \A i \in DOMAIN m : /\ m[i].of \in Components /\ m[i].on \in Components
                                      /\ m[i].plugin \in {"start", "health_check", "start_instances"} \cup Passive
                                      /\ m[i].plugin = "start_instances" => m[i].of = obbinlog /\ m[i].on = obbinlog
                                      /\ m[i].plugin = "update_prometheus" => m[i].of = alertmanager
                                      /\ m[i].plugin \notin DatabaseOnly
               /\ \A d \in Components : Behind(m, Asks(d), Check(d)) /\ Has(m, Check(d))
<1> DEFINE m == Merged(Starting, sorted)
<1>1. m \in Seq(Template) /\ \E st, co, off \in [DOMAIN m -> Nat] : Places(m, Starting, st, co, off)
  BY StartingIs, MergedPlaces
<1> HIDE DEF m
<1>2. PICK st \in [DOMAIN m -> Nat], co \in [DOMAIN m -> Nat], off \in [DOMAIN m -> Nat] :
        Places(m, Starting, st, co, off)
  BY <1>1
<1> DEFINE q(x) == Starting[m[x].of][Stages[st[x]]]
<1>3. ASSUME NEW x \in DOMAIN m
      PROVE  /\ m[x].of \in Components /\ off[x] \in DOMAIN q(x) /\ m[x] \in Template
             /\ m[x].on = q(x)[off[x]].on /\ m[x].plugin = q(x)[off[x]].plugin
             /\ StartPlugin(m[x].of, depends[m[x].of], Stages[st[x]], q(x), off[x])
  <2>1. st[x] \in 1..4 /\ m[x].of \in Components /\ off[x] \in DOMAIN q(x)
    BY <1>2 DEF Places
  <2>2. Stages[st[x]] \in ToSet(Stages)
    BY <2>1, FourStages
  <2>3. StartRow(m[x].of, depends[m[x].of], Stages[st[x]], q(x))
    BY <2>1, <2>2, StartingIs DEF StartWorkflow
  <2>4. StartPlugin(m[x].of, depends[m[x].of], Stages[st[x]], q(x), off[x])
    BY <2>1, <2>3 DEF StartRow
  <2>5. m[x].on = q(x)[off[x]].on /\ m[x].plugin = q(x)[off[x]].plugin
    BY <1>2 DEF Places
  <2>6. m[x] \in Template
    BY <1>1
  <2> QED  BY <2>1, <2>4, <2>5, <2>6
\* The check of a component.
<1>4. ASSUME NEW i \in DOMAIN sorted
      PROVE  \E y \in DOMAIN m : /\ m[y] \in Check(sorted[i]) /\ co[y] = i
                                 /\ st[y] = IF sorted[i] = obbinlog THEN 4 ELSE 2
  <2> DEFINE c == sorted[i]
             s == IF c = obbinlog THEN 4 ELSE 2
  <2>1. c \in Components
    BY DEF AllSorted, ToSet
  <2>2. HasCheck(c, Starting[c][Stages[s]])
    <3>1. HasCheck(c, Starting[c][IF c = obbinlog THEN 30 ELSE 10])
      BY <2>1, StartingIs DEF StartWorkflow
    <3> QED  BY <3>1, FourStages
  <2>3. PICK j \in DOMAIN Starting[c][Stages[s]] :
          Starting[c][Stages[s]][j].plugin = "health_check" /\ Starting[c][Stages[s]][j].on = c
    BY <2>2 DEF HasCheck
  <2>4. s \in Turns
    BY DEF Turns
  <2> DEFINE r == Starting[c][Stages[s]]
  <2>5. PICK y \in DOMAIN m :
          /\ st[y] = s /\ co[y] = i /\ off[y] = j /\ m[y].of = c
          /\ m[y].on = r[j].on /\ m[y].plugin = r[j].plugin /\ m[y].zone = r[j].zone
    <3>1. c = sorted[i] /\ r = Starting[c][Stages[s]] /\ j \in DOMAIN r
      OBVIOUS
    <3> HIDE DEF s, c, r
    <3>2. Stands(m, st, co, off, s, i, c, r, j)
      BY <1>2, <2>4, <3>1, PlaceOf
    <3> QED  BY <3>2 DEF Stands
  <2>7. m[y].plugin = "health_check" /\ m[y].on = c /\ m[y] \in Template
    BY <1>3, <2>3, <2>5
  <2> QED  BY <2>5, <2>7 DEF Check
<1>5. ASSUME NEW d \in Components PROVE \E i \in DOMAIN sorted : sorted[i] = d
  BY DEF AllSorted, ToSet
<1>6. ASSUME NEW d \in Components PROVE Has(m, Check(d))
  BY <1>4, <1>5 DEF Has
<1>7. ASSUME NEW x \in DOMAIN m, NEW d \in Components \ {obbinlog},
             st[x] > 2 \/ (st[x] = 2 /\ d \in depends[m[x].of])
      PROVE  \E y \in DOMAIN m : y < x /\ m[y] \in Check(d)
  <2>0. st[x] \in Nat /\ co[x] \in Nat /\ off[x] \in Nat
    OBVIOUS
  <2>1. CASE st[x] > 2
    <3>1. PICK i \in DOMAIN sorted : sorted[i] = d
      BY <1>5
    <3>2. PICK y \in DOMAIN m : m[y] \in Check(d) /\ st[y] = 2
      BY <1>4, <3>1
    <3>3. Before(st[y], co[y], off[y], st[x], co[x], off[x])
      BY <2>1, <3>2 DEF Before
    <3> QED  BY <1>2, <3>2, <3>3 DEF Places
  <2>2. CASE st[x] = 2 /\ d \in depends[m[x].of]
    <3>1. co[x] \in DOMAIN sorted /\ m[x].of = sorted[co[x]]
      BY <1>2 DEF Places
    <3>2. PICK i \in 1..(co[x] - 1) : sorted[i] = d
      BY <2>2, <3>1 DEF AllSorted, DependenciesSorted
    <3>3. i \in DOMAIN sorted /\ i < co[x]
      BY <2>0, <3>1, <3>2 DEF AllSorted
    <3>4. PICK y \in DOMAIN m : m[y] \in Check(d) /\ st[y] = 2 /\ co[y] = i
      BY <1>4, <3>2, <3>3
    <3>5. Before(st[y], co[y], off[y], st[x], co[x], off[x])
      BY <2>2, <3>3, <3>4 DEF Before
    <3> QED  BY <1>2, <3>4, <3>5 DEF Places
  <2> QED  BY <1>7, <2>1, <2>2
<1>8. ASSUME NEW x \in DOMAIN m
      PROVE  /\ st[x] \in 1..4
             /\ Stages[st[x]] = 10 => st[x] = 2
             /\ Stages[st[x]] = 20 => st[x] = 3
  <2>1. st[x] \in 1..4
    BY <1>2 DEF Places
  <2> QED  BY <2>1, FourStages
<1>9. ASSUME NEW d \in Components, NEW x \in DOMAIN m, m[x] \in Asks(d)
      PROVE  \E y \in DOMAIN m : y < x /\ m[y] \in Check(d)
  <2> DEFINE c == m[x].of
             p == q(x)[off[x]]
  <2>1. d \in Needs(m[x]) /\ Declares(c, d)
    BY <1>9 DEF Asks
  <2>2. StartPlugin(c, depends[c], Stages[st[x]], q(x), off[x]) /\ m[x].plugin = p.plugin /\ m[x].on = p.on
        /\ c \in Components
    BY <1>3
  <2>3. CASE m[x].plugin \in {"connect", "create_tenant", "bootstrap", "start_instances"} /\ m[x].on = c
    <3>1. d = c
      BY <2>1, <2>3 DEF Needs
    <3>2. PICK j \in 1..(off[x] - 1) : q(x)[j].plugin = "health_check" /\ q(x)[j].on = c
      BY <2>2, <2>3 DEF StartPlugin
    <3>3. st[x] \in 1..4 /\ co[x] \in DOMAIN sorted /\ sorted[co[x]] = c /\ off[x] \in DOMAIN q(x)
      BY <1>2 DEF Places
    <3>4. j \in DOMAIN q(x) /\ j < off[x]
      <4>1. Stages[st[x]] \in ToSet(Stages)
        BY <3>3, FourStages
      <4>2. q(x) \in Seq(Plugin)
        BY <2>2, <4>1, StartingIs DEF Workflows
      <4> HIDE DEF q
      <4> QED  BY <3>3, <4>2
    <3>5. PICK y \in DOMAIN m :
            /\ st[y] = st[x] /\ co[y] = co[x] /\ off[y] = j
            /\ m[y].on = q(x)[j].on /\ m[y].plugin = q(x)[j].plugin
      <4> DEFINE k == co[x]
                 r == st[x]
                 t == q(x)
      <4>1. /\ k \in DOMAIN sorted /\ r \in Turns /\ c = sorted[k]
            /\ t = Starting[c][Stages[r]] /\ j \in DOMAIN t
        BY <3>3, <3>4 DEF Turns
      <4> HIDE DEF q, c, k, r, t
      <4>2. PICK y \in DOMAIN m :
             /\ st[y] = r /\ co[y] = k /\ off[y] = j /\ m[y].of = c
             /\ m[y].on = t[j].on /\ m[y].plugin = t[j].plugin /\ m[y].zone = t[j].zone
        <5>1. Stands(m, st, co, off, r, k, c, t, j)
          BY <1>2, <4>1, PlaceOf
        <5> QED  BY <5>1 DEF Stands
      <4> QED  BY <4>2 DEF k, r, t
    <3>7. m[y].plugin = "health_check" /\ m[y].on = c /\ m[y] \in Template
      BY <1>3, <3>2, <3>5
    <3>8. y < x
      <4>1. Before(st[y], co[y], off[y], st[x], co[x], off[x])
        BY <3>4, <3>5 DEF Before
      <4> QED  BY <1>2, <4>1 DEF Places
    <3> QED  BY <3>1, <3>7, <3>8 DEF Check
  <2>4. CASE ~(m[x].plugin \in {"connect", "create_tenant", "bootstrap", "start_instances"} /\ m[x].on = c)
    <3> HIDE DEF q
    <3>1. d # obbinlog
      BY <2>1, <2>2, <2>4, Distinct DEF Needs, StartPlugin, Passive
    <3>2. st[x] > 2 \/ (st[x] = 2 /\ d \in depends[c])
      BY <1>8, <2>1, <2>2, <2>4, Distinct DEF Needs, StartPlugin, Passive, Declares
    <3> QED  BY <1>7, <3>1, <3>2
  <2> QED  BY <2>3, <2>4
<1>10. ASSUME NEW x \in DOMAIN m
       PROVE  /\ m[x].of \in Components /\ m[x].on \in Components
              /\ m[x].plugin \in {"start", "health_check", "start_instances"} \cup Passive
              /\ m[x].plugin = "start_instances" => m[x].of = obbinlog /\ m[x].on = obbinlog
              /\ m[x].plugin = "update_prometheus" => m[x].of = alertmanager
              /\ m[x].plugin \notin DatabaseOnly
  <2>1. depends[m[x].of] \subseteq Components /\ m[x].of \in Components
    BY <1>3 DEF AllSorted
  <2>2. /\ m[x].of = express => oceanbase \in Components
        /\ m[x].of = obbinlog /\ depends[obbinlog] # {} => oceanbase \in Components
    BY <2>1, ComponentsModelled DEF AllSorted, DependsDeclared
  <2> HIDE DEF q
  <2> QED  BY <1>3, <2>1, <2>2 DEF StartPlugin, Passive, DatabaseOnly
<1> QED  BY <1>1, <1>6, <1>9, <1>10 DEF Behind, m

StopsZone(z)  == {t \in Template : t.plugin = "stop_zone" /\ t.zone = z}
StartsZone(z) == {t \in Template : t.plugin = "start_zone" /\ t.zone = z}

\* The processes that binlog instances need, and the plugins that kill them.
Ends ==
    {t \in Template : /\ t.plugin = "stop"
                      /\ \/ t.on = obbinlog
                         \/ t.on = oceanbase /\ (command = "stop" \/ oceanbase \in depends[obbinlog])}
InstancesStart == {t \in Template : t.plugin = "start_instances"}
InstancesStop  == {t \in Template : t.plugin = "stop_instances"}

Restarting == [c \in Components |-> RestartOf(c, depends[c], zones)]

\* The restart workflows of all components.
LEMMA RestartingIs ==
    ASSUME AllSorted, zones \in Seq(Zones)
    PROVE  /\ Restarting \in Workflows
           /\ \A c \in Components : RestartWorkflow(c, depends[c], zones, Restarting[c])
<1>1. Components \subseteq Modelled /\ zones \in Seq(ZoneNames)
  BY ComponentsModelled DEF AllSorted
<1>2. \A c \in Components : RestartWorkflow(c, depends[c], zones, RestartOf(c, depends[c], zones))
  BY <1>1, RestartIs
<1>3. \A c \in Components : RestartOf(c, depends[c], zones) \in [ToSet(Stages) -> Seq(Plugin)]
  BY <1>2 DEF RestartWorkflow
<1> QED  BY <1>2, <1>3 DEF Restarting, Workflows

\* A merged restart kills every component and then checks it, before anything talks to it;
\* it starts every zone that it stops; it ends the instances before it kills what they need.
LEMMA RestartMerged ==
    ASSUME AllSorted, zones \in Seq(Zones), command = "restart"
    PROVE  LET m == Merged(Restarting, sorted)
           IN  /\ m \in Seq(Template)
               /\ \A i \in DOMAIN m : /\ m[i].of \in Components /\ m[i].on \in Components
                                      /\ m[i].plugin # "restart_pre"
                                      /\ m[i].plugin = "stop_zone" => m[i].zone \in Zones
                                      /\ m[i].plugin = "start_instances" => m[i].on = obbinlog
                                      /\ m[i].plugin = "update_prometheus" => m[i].of = alertmanager
                                      /\ m[i].plugin \in DatabaseOnly => m[i].of = oceanbase
               /\ \A d \in Components : /\ Kept(m, Asks(d), Check(d), Kill(d))
                                        /\ Closes(m, Kill(d), Check(d)) /\ Has(m, Kill(d))
               /\ \A z \in Zones : Closes(m, StopsZone(z), StartsZone(z))
               /\ obbinlog \in Components => /\ Behind(m, Ends, InstancesStop)
                                             /\ Never(m, InstancesStart, Ends)
<1> DEFINE m == Merged(Restarting, sorted)
<1>1. m \in Seq(Template) /\ \E st, co, off \in [DOMAIN m -> Nat] : Places(m, Restarting, st, co, off)
  BY RestartingIs, MergedPlaces
<1> HIDE DEF m
<1>2. PICK st \in [DOMAIN m -> Nat], co \in [DOMAIN m -> Nat], off \in [DOMAIN m -> Nat] :
        Places(m, Restarting, st, co, off)
  BY <1>1
<1> DEFINE q(x) == Restarting[m[x].of][Stages[st[x]]]
<1>3. ASSUME NEW x \in DOMAIN m
      PROVE  /\ m[x].of \in Components /\ off[x] \in DOMAIN q(x) /\ m[x] \in Template
             /\ st[x] \in {1, 2} /\ co[x] \in DOMAIN sorted /\ sorted[co[x]] = m[x].of
             /\ st[x] = 1 => m[x].of = obbinlog /\ m[x].plugin \notin {"stop", "start_instances"}
             /\ m[x].on = q(x)[off[x]].on /\ m[x].plugin = q(x)[off[x]].plugin
             /\ m[x].zone = q(x)[off[x]].zone
             /\ RestartPlugin(m[x].of, depends[m[x].of], zones, Stages[st[x]], q(x), off[x])
             /\ q(x) \in Seq(Plugin)
  <2>1. /\ st[x] \in 1..4 /\ m[x].of \in Components /\ off[x] \in DOMAIN q(x)
        /\ co[x] \in DOMAIN sorted /\ sorted[co[x]] = m[x].of
    BY <1>2 DEF Places
  <2>2. Stages[st[x]] \in ToSet(Stages)
    BY <2>1, FourStages
  <2>3. RestartRow(m[x].of, depends[m[x].of], zones, Stages[st[x]], q(x))
    BY <2>1, <2>2, RestartingIs DEF RestartWorkflow
  <2>4. /\ RestartPlugin(m[x].of, depends[m[x].of], zones, Stages[st[x]], q(x), off[x])
        /\ q(x) \in Seq(Plugin)
    BY <2>1, <2>3 DEF RestartRow
  <2>5. /\ m[x].on = q(x)[off[x]].on /\ m[x].plugin = q(x)[off[x]].plugin
        /\ m[x].zone = q(x)[off[x]].zone
    BY <1>2 DEF Places
  <2>6. m[x] \in Template
    BY <1>1
  <2>7. /\ Stages[st[x]] = 10
           \/ (Stages[st[x]] = 9 /\ m[x].of = obbinlog /\ m[x].plugin \notin {"stop", "start_instances"})
    <3> HIDE DEF q
    <3> QED  BY <2>4, <2>5 DEF RestartPlugin
  <2>8. /\ st[x] \in {1, 2}
        /\ st[x] = 1 => m[x].of = obbinlog /\ m[x].plugin \notin {"stop", "start_instances"}
    BY <2>1, <2>7, FourStages
  <2> QED  BY <2>1, <2>4, <2>5, <2>6, <2>8
\* A plugin of the same list.
<1>4. ASSUME NEW x \in DOMAIN m, NEW j \in DOMAIN q(x)
      PROVE  \E y \in DOMAIN m : /\ st[y] = st[x] /\ co[y] = co[x] /\ off[y] = j
                                 /\ m[y].on = q(x)[j].on /\ m[y].plugin = q(x)[j].plugin
                                 /\ m[y].zone = q(x)[j].zone /\ m[y] \in Template
                                 /\ m[y].of = m[x].of
  <2> DEFINE k == co[x]
             r == st[x]
             c == m[x].of
             t == q(x)
  <2>1. /\ k \in DOMAIN sorted /\ r \in Turns /\ c = sorted[k]
        /\ t = Restarting[c][Stages[r]] /\ j \in DOMAIN t
    BY <1>3 DEF Turns
  <2> HIDE DEF q, c, k, r, t
  <2>2. PICK y \in DOMAIN m :
          /\ st[y] = r /\ co[y] = k /\ off[y] = j /\ m[y].of = c
          /\ m[y].on = t[j].on /\ m[y].plugin = t[j].plugin /\ m[y].zone = t[j].zone
    <3>1. Stands(m, st, co, off, r, k, c, t, j)
      BY <1>2, <2>1, PlaceOf
    <3> QED  BY <3>1 DEF Stands
  <2>3. m[y] \in Template
    BY <1>1
  <2> QED  BY <2>2, <2>3 DEF k, r, c, t
<1>5. ASSUME NEW x \in DOMAIN m, NEW y \in DOMAIN m
      PROVE  /\ x < y <=> Before(st[x], co[x], off[x], st[y], co[y], off[y])
             /\ m[x].of = m[y].of => co[x] = co[y]
             /\ st[x] \in Nat /\ co[x] \in Nat /\ off[x] \in Nat /\ x \in Nat
  <2>1. x < y <=> Before(st[x], co[x], off[x], st[y], co[y], off[y])
    BY <1>2 DEF Places
  <2>2. m[x].of = m[y].of => co[x] = co[y]
    BY <1>3 DEF AllSorted, IsInjective
  <2>3. x \in Nat
    BY <1>1
  <2> QED  BY <2>1, <2>2, <2>3
\* A component comes after those that it depends on.
<1>6. ASSUME NEW x \in DOMAIN m, NEW y \in DOMAIN m, m[x].of \in depends[m[y].of]
      PROVE  co[x] < co[y]
  <2>1. PICK i \in 1..(co[y] - 1) : sorted[i] = m[x].of
    BY <1>3, <1>6 DEF AllSorted, DependenciesSorted
  <2>2. co[y] \in 1..Len(sorted) /\ Len(sorted) \in Nat /\ DOMAIN sorted = 1..Len(sorted)
    BY <1>3 DEF AllSorted
  <2>3. i \in DOMAIN sorted /\ i < co[y]
    BY <2>2
  <2>4. i = co[x]
    BY <1>3, <2>1, <2>3 DEF AllSorted, IsInjective
  <2> QED  BY <2>3, <2>4
\* A component that was stopped is checked later in the same list.
<1>7. ASSUME NEW d \in Components, NEW x \in DOMAIN m, m[x] \in Kill(d)
      PROVE  /\ m[x].of = d /\ st[x] = 2 /\ m[x].plugin = "stop"
             /\ \E k \in DOMAIN m : m[k] \in Check(d) /\ co[k] = co[x] /\ st[k] = 2 /\ x < k
  <2>1. m[x].plugin = "stop" /\ m[x].on = d
    BY <1>7 DEF Kill
  <2>2. /\ RestartPlugin(m[x].of, depends[m[x].of], zones, Stages[st[x]], q(x), off[x])
        /\ m[x].on = q(x)[off[x]].on /\ m[x].plugin = q(x)[off[x]].plugin
        /\ st[x] \in {1, 2}
        /\ st[x] = 1 => m[x].of = obbinlog /\ m[x].plugin \notin {"stop", "start_instances"}
    BY <1>3
  <2>3. m[x].of = d /\ \E j \in DOMAIN q(x) : j > off[x] /\ IsCheck(d, q(x)[j])
    <3> HIDE DEF q
    <3> QED  BY <2>1, <2>2 DEF RestartPlugin
  <2>4. PICK j \in DOMAIN q(x) : j > off[x] /\ IsCheck(d, q(x)[j])
    BY <2>3
  <2>5. PICK k \in DOMAIN m : /\ st[k] = st[x] /\ co[k] = co[x] /\ off[k] = j
                              /\ m[k].on = q(x)[j].on /\ m[k].plugin = q(x)[j].plugin
                              /\ m[k] \in Template
    BY <1>4
  <2>6. m[k] \in Check(d) /\ x < k
    BY <1>5, <2>4, <2>5 DEF Before, Check, IsCheck
  <2> QED  BY <2>1, <2>2, <2>3, <2>5, <2>6
<1>8. ASSUME NEW d \in Components, NEW x \in DOMAIN m, NEW y \in DOMAIN m,
             m[x] \in Kill(d), m[y] \in Asks(d), x < y
      PROVE  \E k \in DOMAIN m : x < k /\ k < y /\ m[k] \in Check(d)
  <2> DEFINE c == m[y].of
  <2>1. d \in Needs(m[y]) /\ Declares(c, d)
    BY <1>8 DEF Asks
  <2>2. /\ RestartPlugin(c, depends[c], zones, Stages[st[y]], q(y), off[y])
        /\ m[y].on = q(y)[off[y]].on /\ m[y].plugin = q(y)[off[y]].plugin
        /\ c \in Components /\ off[y] \in DOMAIN q(y)
    BY <1>3
  <2>3. m[x].of = d /\ st[x] = 2 /\ st[y] = 2
    BY <1>3, <1>5, <1>7, <1>8 DEF Before
  <2>4. CASE c = d
    <3>1. co[x] = co[y] /\ off[x] < off[y]
      BY <1>5, <1>8, <2>3, <2>4 DEF Before
    <3>2. q(x) = q(y)
      BY <2>3, <2>4
    <3>3. m[y].on = d /\ m[y].plugin \in Talks
      <4> HIDE DEF q
      <4> QED  BY <2>1, <2>2, <2>4, Distinct DEF Needs, RestartPlugin, Talks
    <3>4. /\ RestartPlugin(m[x].of, depends[m[x].of], zones, Stages[st[x]], q(x), off[x])
          /\ m[x].plugin = q(x)[off[x]].plugin /\ m[x].plugin = "stop"
      BY <1>3, <1>7, <1>8
    <3>5. PICK j \in DOMAIN q(x) : off[x] < j /\ j < off[y] /\ IsCheck(d, q(x)[j])
      <4> HIDE DEF q
      <4>1. off[y] \in DOMAIN q(x) /\ off[y] > off[x] /\ q(x)[off[y]].on = d /\ q(x)[off[y]].plugin \in Talks
        BY <1>5, <2>2, <3>1, <3>2, <3>3
      <4> QED  BY <2>3, <3>4, <4>1 DEF RestartPlugin
    <3>6. PICK k \in DOMAIN m : /\ st[k] = st[x] /\ co[k] = co[x] /\ off[k] = j
                                /\ m[k].on = q(x)[j].on /\ m[k].plugin = q(x)[j].plugin
                                /\ m[k] \in Template
      BY <1>4
    <3>7. x < k /\ k < y /\ m[k] \in Check(d)
      <4>1. Before(st[x], co[x], off[x], st[k], co[k], off[k]) /\ Before(st[k], co[k], off[k], st[y], co[y], off[y])
        BY <2>3, <3>1, <3>5, <3>6 DEF Before
      <4>2. m[k] \in Check(d)
        BY <3>5, <3>6 DEF Check, IsCheck
      <4> QED  BY <1>5, <4>1, <4>2
    <3> QED  BY <3>7
  <2>5. CASE c # d
    <3>1. d \in depends[c]
      <4> HIDE DEF q
      <4> QED  BY <2>1, <2>2, <2>5, Distinct DEF Needs, RestartPlugin, Declares
    <3>2. co[x] < co[y]
      BY <1>6, <2>3, <3>1
    <3>3. PICK k \in DOMAIN m : m[k] \in Check(d) /\ co[k] = co[x] /\ st[k] = 2 /\ x < k
      BY <1>7, <1>8
    <3>4. Before(st[k], co[k], off[k], st[y], co[y], off[y])
      BY <2>3, <3>2, <3>3 DEF Before
    <3> QED  BY <1>5, <3>3, <3>4
  <2> QED  BY <2>4, <2>5
<1>9. ASSUME NEW d \in Components
      PROVE  /\ Has(m, Kill(d)) 
             /\ d = obbinlog => \E y \in DOMAIN m : m[y] \in InstancesStop /\ st[y] = 1
  <2>1. PICK i \in DOMAIN sorted : sorted[i] = d
    BY DEF AllSorted, ToSet
  <2>2. HasPlugin(d, "stop", Restarting[d][10]) /\ (d = obbinlog => HasPlugin(d, "stop_instances", Restarting[d][9]))
    BY RestartingIs DEF RestartWorkflow
  <2> DEFINE one == 1
             two == 2
             p == Restarting[d][Stages[one]]
             t == Restarting[d][Stages[two]]
  <2>3. one \in Turns /\ two \in Turns /\ p = Restarting[d][9] /\ t = Restarting[d][10]
    BY FourStages DEF Turns
  <2>4. p = Restarting[d][Stages[one]] /\ t = Restarting[d][Stages[two]]
    OBVIOUS
  <2> HIDE DEF one, two, p, t
  <2>5. PICK j \in DOMAIN t : t[j].plugin = "stop" /\ t[j].on = d
    BY <2>2, <2>3 DEF HasPlugin
  <2>6. PICK y \in DOMAIN m : m[y].plugin = t[j].plugin /\ m[y].on = t[j].on
    <3>1. Stands(m, st, co, off, two, i, d, t, j)
      BY <1>2, <2>1, <2>3, <2>4, PlaceOf
    <3> QED  BY <3>1 DEF Stands
  <2>7. ASSUME d = obbinlog PROVE \E x \in DOMAIN m : m[x] \in InstancesStop /\ st[x] = 1
    <3>1. PICK l \in DOMAIN p : p[l].plugin = "stop_instances"
      BY <2>2, <2>3, <2>7 DEF HasPlugin
    <3>2. PICK x \in DOMAIN m : m[x].plugin = p[l].plugin /\ st[x] = one
      <4>1. Stands(m, st, co, off, one, i, d, p, l)
        BY <1>2, <2>1, <2>3, <2>4, PlaceOf
      <4> QED  BY <4>1 DEF Stands
    <3> QED  BY <1>1, <3>1, <3>2 DEF InstancesStop, one
  <2> QED  BY <1>1, <2>5, <2>6, <2>7 DEF Has, Kill
<1>10. ASSUME NEW z \in Zones, NEW x \in DOMAIN m, m[x] \in StopsZone(z)
       PROVE  \E y \in DOMAIN m : x < y /\ m[y] \in StartsZone(z)
  <2>1. /\ RestartPlugin(m[x].of, depends[m[x].of], zones, Stages[st[x]], q(x), off[x])
        /\ m[x].plugin = q(x)[off[x]].plugin /\ m[x].zone = q(x)[off[x]].zone
        /\ m[x].plugin = "stop_zone" /\ m[x].zone = z
    BY <1>3, <1>10 DEF StopsZone
  <2>2. PICK j \in DOMAIN q(x) : j > off[x] /\ q(x)[j].plugin = "start_zone" /\ q(x)[j].zone = z
    <3> HIDE DEF q
    <3> QED  BY <2>1 DEF RestartPlugin
  <2>3. PICK y \in DOMAIN m : /\ st[y] = st[x] /\ co[y] = co[x] /\ off[y] = j
                              /\ m[y].plugin = q(x)[j].plugin
                              /\ m[y].zone = q(x)[j].zone /\ m[y] \in Template
    BY <1>4
  <2>4. Before(st[x], co[x], off[x], st[y], co[y], off[y])
    BY <2>2, <2>3 DEF Before
  <2> QED  BY <1>5, <2>2, <2>3, <2>4 DEF StartsZone
<1>11. ASSUME NEW x \in DOMAIN m, m[x] \in Ends
       PROVE  /\ m[x].plugin = "stop" /\ m[x].of = m[x].on /\ st[x] = 2
              /\ m[x].of = obbinlog \/ (m[x].of = oceanbase /\ oceanbase \in depends[obbinlog])
  <2>1. m[x].plugin = "stop" /\ (m[x].on = obbinlog \/ (m[x].on = oceanbase /\ oceanbase \in depends[obbinlog]))
    BY <1>11 DEF Ends
  <2>2. /\ RestartPlugin(m[x].of, depends[m[x].of], zones, Stages[st[x]], q(x), off[x])
        /\ m[x].on = q(x)[off[x]].on /\ m[x].plugin = q(x)[off[x]].plugin
        /\ st[x] \in {1, 2}
        /\ st[x] = 1 => m[x].of = obbinlog /\ m[x].plugin \notin {"stop", "start_instances"}
    BY <1>3
  <2>3. m[x].of = m[x].on
    <3> HIDE DEF q
    <3> QED  BY <2>1, <2>2 DEF RestartPlugin
  <2> QED  BY <2>1, <2>2, <2>3
<1>12. ASSUME obbinlog \in Components, NEW x \in DOMAIN m, m[x] \in Ends
       PROVE  \E y \in DOMAIN m : y < x /\ m[y] \in InstancesStop
  <2>1. PICK y \in DOMAIN m : m[y] \in InstancesStop /\ st[y] = 1
    BY <1>9, <1>12
  <2>2. Before(st[y], co[y], off[y], st[x], co[x], off[x])
    BY <1>11, <1>12, <2>1 DEF Before
  <2> QED  BY <1>5, <2>1, <2>2
<1>13. ASSUME NEW x \in DOMAIN m, NEW y \in DOMAIN m, m[x] \in InstancesStart, m[y] \in Ends, x < y
       PROVE  FALSE
  <2>1. /\ RestartPlugin(m[x].of, depends[m[x].of], zones, Stages[st[x]], q(x), off[x])
        /\ m[x].on = q(x)[off[x]].on /\ m[x].plugin = q(x)[off[x]].plugin
        /\ m[x].plugin = "start_instances" /\ st[x] \in {1, 2} /\ st[x] # 1
    BY <1>3, <1>13 DEF InstancesStart
  <2>2. m[x].of = obbinlog /\ \A j \in DOMAIN q(x) : j > off[x] => q(x)[j].plugin # "stop"
    <3> HIDE DEF q
    <3> QED  BY <2>1 DEF RestartPlugin
  <2>3. m[y].plugin = "stop" /\ st[y] = 2 /\ st[x] = 2
    BY <1>11, <1>13, <2>1
  <2>4. CASE m[y].of = obbinlog
    <3>1. co[x] = co[y] /\ off[x] < off[y] /\ q(x) = q(y)
      BY <1>5, <1>13, <2>2, <2>3, <2>4 DEF Before
    <3>2. off[y] \in DOMAIN q(y) /\ q(y)[off[y]].plugin = "stop"
      BY <1>3, <2>3
    <3> HIDE DEF q
    <3> QED  BY <1>5, <2>2, <3>1, <3>2
  <2>5. CASE m[y].of = oceanbase /\ oceanbase \in depends[obbinlog]
    <3>1. co[y] < co[x]
      BY <1>6, <2>2, <2>5
    <3> QED  BY <1>5, <1>13, <2>3, <3>1 DEF Before
  <2> QED  BY <1>11, <1>13, <2>4, <2>5
<1>14. ASSUME NEW x \in DOMAIN m
       PROVE  /\ m[x].of \in Components /\ m[x].on \in Components
              /\ m[x].plugin # "restart_pre"
              /\ m[x].plugin = "stop_zone" => m[x].zone \in Zones
              /\ m[x].plugin = "start_instances" => m[x].on = obbinlog
              /\ m[x].plugin = "update_prometheus" => m[x].of = alertmanager
              /\ m[x].plugin \in DatabaseOnly => m[x].of = oceanbase
  <2>1. depends[m[x].of] \subseteq Components /\ m[x].of \in Components
    BY <1>3 DEF AllSorted
  <2>2. ToSet(zones) \subseteq Zones
    BY DEF ToSet
  <2>3. /\ RestartPlugin(m[x].of, depends[m[x].of], zones, Stages[st[x]], q(x), off[x])
        /\ m[x].on = q(x)[off[x]].on /\ m[x].plugin = q(x)[off[x]].plugin
        /\ m[x].zone = q(x)[off[x]].zone
    BY <1>3
  <2> HIDE DEF q
  <2> QED  BY <2>1, <2>2, <2>3, Distinct DEF RestartPlugin, DatabaseOnly
<1>15. \A d \in Components : /\ Kept(m, Asks(d), Check(d), Kill(d))
                             /\ Closes(m, Kill(d), Check(d)) /\ Has(m, Kill(d))
  BY <1>7, <1>8, <1>9 DEF Kept, Closes
<1>16. \A z \in Zones : Closes(m, StopsZone(z), StartsZone(z))
  BY <1>10 DEF Closes
<1>17. obbinlog \in Components => Behind(m, Ends, InstancesStop) /\ Never(m, InstancesStart, Ends)
  BY <1>12, <1>13 DEF Behind, Never
<1> QED  BY <1>1, <1>14, <1>15, <1>16, <1>17 DEF m

Stopping == [c \in Components |-> StopOf(c)]

\* A merged stop kills every component, and ends the instances before.
LEMMA StopMerged ==
    ASSUME AllSorted
    PROVE  LET m == Merged(Stopping, sorted)
           IN  /\ m \in Seq(Template)
               /\ \A i \in DOMAIN m : /\ m[i].of \in Components /\ m[i].on \in Components
                                      /\ m[i].plugin \in {"connect", "stop", "stop_instances"}
               /\ \A d \in Components : Has(m, Kill(d))
               /\ obbinlog \in Components => Behind(m, Ends, InstancesStop)
<1> DEFINE m == Merged(Stopping, sorted)
<1>0. Stopping \in Workflows /\ \A c \in Components : StopWorkflow(c, Stopping[c])
  <2>1. \A c \in Components : StopWorkflow(c, StopOf(c))
    BY StopIs, ComponentsModelled DEF AllSorted
  <2>2. \A c \in Components : StopOf(c) \in [ToSet(Stages) -> Seq(Plugin)]
    BY <2>1 DEF StopWorkflow
  <2> QED  BY <2>1, <2>2 DEF Stopping, Workflows
<1>1. m \in Seq(Template) /\ \E st, co, off \in [DOMAIN m -> Nat] : Places(m, Stopping, st, co, off)
  BY <1>0, MergedPlaces
<1> HIDE DEF m
<1>2. PICK st \in [DOMAIN m -> Nat], co \in [DOMAIN m -> Nat], off \in [DOMAIN m -> Nat] :
        Places(m, Stopping, st, co, off)
  BY <1>1
<1> DEFINE q(x) == Stopping[m[x].of][Stages[st[x]]]
<1>3. ASSUME NEW x \in DOMAIN m
      PROVE  /\ m[x].of \in Components /\ m[x].on = m[x].of
             /\ m[x].plugin \in {"connect", "stop", "stop_instances"}
             /\ m[x].plugin = "stop" => st[x] = 2
  <2>1. /\ st[x] \in 1..4 /\ m[x].of \in Components /\ off[x] \in DOMAIN q(x)
        /\ m[x].on = q(x)[off[x]].on /\ m[x].plugin = q(x)[off[x]].plugin
    BY <1>2 DEF Places
  <2>2. Stages[st[x]] \in ToSet(Stages) /\ (Stages[st[x]] = 10 => st[x] = 2)
    BY <2>1, FourStages
  <2>3. StopRow(m[x].of, Stages[st[x]], q(x))
    BY <1>0, <2>1, <2>2 DEF StopWorkflow
  <2> HIDE DEF q
  <2> QED  BY <2>1, <2>2, <2>3 DEF StopRow
<1>4. ASSUME NEW d \in Components
      PROVE  /\ Has(m, Kill(d))
             /\ d = obbinlog => \E y \in DOMAIN m : m[y] \in InstancesStop /\ st[y] = 1
  <2>1. PICK i \in DOMAIN sorted : sorted[i] = d
    BY DEF AllSorted, ToSet
  <2>2. HasPlugin(d, "stop", Stopping[d][10]) /\ (d = obbinlog => HasPlugin(d, "stop_instances", Stopping[d][9]))
    BY <1>0 DEF StopWorkflow
  <2> DEFINE one == 1
             two == 2
             p == Stopping[d][Stages[one]]
             t == Stopping[d][Stages[two]]
  <2>3. one \in Turns /\ two \in Turns /\ p = Stopping[d][9] /\ t = Stopping[d][10]
    BY FourStages DEF Turns
  <2>4. p = Stopping[d][Stages[one]] /\ t = Stopping[d][Stages[two]]
    OBVIOUS
  <2> HIDE DEF one, two, p, t
  <2>5. PICK j \in DOMAIN t : t[j].plugin = "stop" /\ t[j].on = d
    BY <2>2, <2>3 DEF HasPlugin
  <2>6. PICK y \in DOMAIN m : m[y].plugin = t[j].plugin /\ m[y].on = t[j].on
    <3>1. Stands(m, st, co, off, two, i, d, t, j)
      BY <1>2, <2>1, <2>3, <2>4, PlaceOf
    <3> QED  BY <3>1 DEF Stands
  <2>7. ASSUME d = obbinlog PROVE \E x \in DOMAIN m : m[x] \in InstancesStop /\ st[x] = 1
    <3>1. PICK l \in DOMAIN p : p[l].plugin = "stop_instances"
      BY <2>2, <2>3, <2>7 DEF HasPlugin
    <3>2. PICK x \in DOMAIN m : m[x].plugin = p[l].plugin /\ st[x] = one
      <4>1. Stands(m, st, co, off, one, i, d, p, l)
        BY <1>2, <2>1, <2>3, <2>4, PlaceOf
      <4> QED  BY <4>1 DEF Stands
    <3> QED  BY <1>1, <3>1, <3>2 DEF InstancesStop, one
  <2> QED  BY <1>1, <2>5, <2>6, <2>7 DEF Has, Kill
<1>5. ASSUME obbinlog \in Components, NEW x \in DOMAIN m, m[x] \in Ends
      PROVE  \E y \in DOMAIN m : y < x /\ m[y] \in InstancesStop
  <2>1. PICK y \in DOMAIN m : m[y] \in InstancesStop /\ st[y] = 1
    BY <1>4, <1>5
  <2>2. st[x] = 2
    BY <1>3, <1>5 DEF Ends
  <2>3. Before(st[y], co[y], off[y], st[x], co[x], off[x])
    BY <2>1, <2>2 DEF Before
  <2> QED  BY <1>2, <2>1, <2>3 DEF Places
<1> QED  BY <1>1, <1>3, <1>4, <1>5 DEF Behind, m

\* display and restart_pre kill nothing.
LEMMA QuietMerged ==
    ASSUME AllSorted, NEW wf \in Workflows, \A c \in Components : QuietWorkflow(c, wf[c])
    PROVE  LET m == Merged(wf, sorted)
           IN  /\ m \in Seq(Template)
               /\ \A i \in DOMAIN m : /\ m[i].of \in Components /\ m[i].on \in Components
                                      /\ m[i].plugin \in {"status_check", "connect", "restart_pre"}
                                      /\ m[i].plugin = "restart_pre" => m[i].of = oceanbase
<1> DEFINE m == Merged(wf, sorted)
<1>1. m \in Seq(Template) /\ \E st, co, off \in [DOMAIN m -> Nat] : Places(m, wf, st, co, off)
  BY MergedPlaces
<1> HIDE DEF m
<1>2. PICK st \in [DOMAIN m -> Nat], co \in [DOMAIN m -> Nat], off \in [DOMAIN m -> Nat] :
        Places(m, wf, st, co, off)
  BY <1>1
<1>3. ASSUME NEW x \in DOMAIN m
      PROVE  /\ m[x].of \in Components /\ m[x].on = m[x].of
             /\ m[x].plugin \in {"status_check", "connect", "restart_pre"}
             /\ m[x].plugin = "restart_pre" => m[x].of = oceanbase
  <2> DEFINE q == wf[m[x].of][Stages[st[x]]]
  <2>1. /\ st[x] \in 1..4 /\ m[x].of \in Components /\ off[x] \in DOMAIN q
        /\ m[x].on = q[off[x]].on /\ m[x].plugin = q[off[x]].plugin
    BY <1>2 DEF Places
  <2>2. Stages[st[x]] \in ToSet(Stages)
    BY <2>1, FourStages
  <2>3. QuietRow(m[x].of, q)
    BY <2>1, <2>2 DEF QuietWorkflow
  <2> HIDE DEF q
  <2> QED  BY <2>1, <2>2, <2>3 DEF QuietRow
<1> QED  BY <1>1, <1>3 DEF m

-----------------------------------------------------------------------------
(* Taking the first plugin.                                                *)

\* The elements of the tail are those of the sequence but the first.
LEMMA TailIs ==
    ASSUME NEW T, NEW s \in Seq(T), s # <<>>
    PROVE  /\ Tail(s) \in Seq(T) /\ Head(s) \in T /\ 1 \in DOMAIN s /\ s[1] = Head(s)
           /\ \A i \in DOMAIN Tail(s) : i \in Nat /\ i + 1 \in DOMAIN s /\ Tail(s)[i] = s[i + 1] /\ 1 < i + 1
           /\ \A i \in DOMAIN s : i # 1 => i \in Nat /\ i - 1 \in DOMAIN Tail(s) /\ Tail(s)[i - 1] = s[i] /\ 1 < i
<1>1. Len(s) \in Nat /\ Len(s) # 0 /\ DOMAIN s = 1..Len(s)
  OBVIOUS
<1>2. /\ Tail(s) \in Seq(T) /\ Len(Tail(s)) = Len(s) - 1 /\ Head(s) = s[1]
      /\ \A i \in 1..(Len(s) - 1) : Tail(s)[i] = s[i + 1]
  BY <1>1, HeadTailProperties
<1>3. DOMAIN Tail(s) = 1..(Len(s) - 1)
  BY <1>2
<1> DEFINE t == Tail(s)
<1>4. t = Tail(s)
  OBVIOUS
<1> HIDE DEF t
<1>5. Head(s) \in T /\ 1 \in DOMAIN s
  BY <1>1, <1>2
<1>6. ASSUME NEW i \in DOMAIN t PROVE i \in Nat /\ i + 1 \in DOMAIN s /\ t[i] = s[i + 1] /\ 1 < i + 1
  BY <1>1, <1>2, <1>3, <1>4
<1>7. ASSUME NEW i \in DOMAIN s, i # 1 PROVE i \in Nat /\ i - 1 \in DOMAIN t /\ t[i - 1] = s[i] /\ 1 < i
  <2>1. i \in Nat /\ i - 1 \in 1..(Len(s) - 1) /\ (i - 1) + 1 = i
    BY <1>1, <1>7
  <2> QED  BY <1>2, <1>3, <1>4, <2>1
<1> QED  BY <1>2, <1>4, <1>5, <1>6, <1>7

\* What happens to each relation when the first plugin is taken.
LEMMA TailHas ==
    ASSUME NEW T, NEW s \in Seq(T), s # <<>>, NEW A, Has(s, A)
    PROVE  Head(s) \in A \/ Has(Tail(s), A)
<1> DEFINE t == Tail(s)
<1>1. PICK i \in DOMAIN s : s[i] \in A
  BY DEF Has
<1>2. i # 1 => i - 1 \in DOMAIN t /\ t[i - 1] = s[i]
  BY TailIs
<1>3. s[1] = Head(s)
  BY TailIs
<1> HIDE DEF t
<1>4. Head(s) \in A \/ Has(t, A)
  BY <1>1, <1>2, <1>3 DEF Has
<1> QED  BY <1>4 DEF t

\* What is behind stays behind, and the first plugin is not one that should have come later.
LEMMA TailBehind ==
    ASSUME NEW T, NEW s \in Seq(T), s # <<>>, NEW A, NEW B, Behind(s, A, B)
    PROVE  Head(s) \notin A /\ (Head(s) \in B \/ Behind(Tail(s), A, B))
<1> DEFINE t == Tail(s)
<1>1. /\ 1 \in DOMAIN s /\ s[1] = Head(s)
      /\ \A i \in DOMAIN t : i \in Nat /\ i + 1 \in DOMAIN s /\ t[i] = s[i + 1] /\ 1 < i + 1
      /\ \A i \in DOMAIN s : i # 1 => i \in Nat /\ i - 1 \in DOMAIN t /\ t[i - 1] = s[i] /\ 1 < i
  BY TailIs
<1> HIDE DEF t
<1>2. Head(s) \notin A
  <2>1. \A j \in DOMAIN s : ~(j < 1)
    BY <1>1
  <2> QED  BY <1>1, <2>1 DEF Behind
<1>3. ASSUME Head(s) \notin B, NEW i \in DOMAIN t, t[i] \in A
      PROVE  \E j \in DOMAIN t : j < i /\ t[j] \in B
  <2>1. i \in Nat /\ i + 1 \in DOMAIN s /\ s[i + 1] \in A
    BY <1>1, <1>3
  <2>2. PICK j \in DOMAIN s : j < i + 1 /\ s[j] \in B
    BY <2>1 DEF Behind
  <2>3. j # 1
    BY <1>1, <1>3, <2>2
  <2>4. j \in Nat /\ j - 1 \in DOMAIN t /\ t[j - 1] = s[j]
    BY <1>1, <2>3
  <2>5. j - 1 < i
    BY <2>1, <2>2, <2>4
  <2> QED  BY <2>2, <2>4, <2>5
<1>4. Head(s) \in B \/ Behind(t, A, B)
  BY <1>3 DEF Behind
<1> QED  BY <1>2, <1>4 DEF t

\* What closes still closes; the first plugin that needs one to close it has one ahead.
LEMMA TailCloses ==
    ASSUME NEW T, NEW s \in Seq(T), s # <<>>, NEW A, NEW B, Closes(s, A, B)
    PROVE  Closes(Tail(s), A, B) /\ (Head(s) \in A => Has(Tail(s), B))
<1> DEFINE t == Tail(s)
<1>1. /\ 1 \in DOMAIN s /\ s[1] = Head(s)
      /\ \A i \in DOMAIN t : i \in Nat /\ i + 1 \in DOMAIN s /\ t[i] = s[i + 1] /\ 1 < i + 1
      /\ \A i \in DOMAIN s : i # 1 => i \in Nat /\ i - 1 \in DOMAIN t /\ t[i - 1] = s[i] /\ 1 < i
  BY TailIs
<1> HIDE DEF t
<1>2. ASSUME Head(s) \in A PROVE Has(t, B)
  <2>1. PICK j \in DOMAIN s : 1 < j /\ s[j] \in B
    BY <1>1, <1>2 DEF Closes
  <2>2. j # 1
    BY <2>1
  <2> QED  BY <1>1, <2>1, <2>2 DEF Has
<1>3. ASSUME NEW i \in DOMAIN t, t[i] \in A
      PROVE  \E j \in DOMAIN t : i < j /\ t[j] \in B
  <2>1. i \in Nat /\ i + 1 \in DOMAIN s /\ s[i + 1] \in A /\ 1 < i + 1
    BY <1>1, <1>3
  <2>2. PICK j \in DOMAIN s : i + 1 < j /\ s[j] \in B
    BY <2>1 DEF Closes
  <2>3. j # 1
    BY <2>1, <2>2
  <2>4. j \in Nat /\ j - 1 \in DOMAIN t /\ t[j - 1] = s[j]
    BY <1>1, <2>3
  <2>5. i < j - 1
    BY <2>1, <2>2, <2>4
  <2> QED  BY <2>2, <2>4, <2>5
<1>4. Closes(t, A, B)
  BY <1>3 DEF Closes
<1> QED  BY <1>2, <1>4 DEF t

\* What is kept stays kept; a first plugin that breaks it has one ahead that mends it.
LEMMA TailKept ==
    ASSUME NEW T, NEW s \in Seq(T), s # <<>>, NEW A, NEW B, NEW C, Kept(s, A, B, C)
    PROVE  Kept(Tail(s), A, B, C) /\ (Head(s) \in C => Behind(Tail(s), A, B))
<1> DEFINE t == Tail(s)
<1>1. /\ 1 \in DOMAIN s /\ s[1] = Head(s)
      /\ \A i \in DOMAIN t : i \in Nat /\ i + 1 \in DOMAIN s /\ t[i] = s[i + 1] /\ 1 < i + 1
      /\ \A i \in DOMAIN s : i # 1 => i \in Nat /\ i - 1 \in DOMAIN t /\ t[i - 1] = s[i] /\ 1 < i
  BY TailIs
<1> HIDE DEF t
<1>2. ASSUME Head(s) \in C, NEW i \in DOMAIN t, t[i] \in A
      PROVE  \E j \in DOMAIN t : j < i /\ t[j] \in B
  <2>1. i \in Nat /\ i + 1 \in DOMAIN s /\ s[i + 1] \in A /\ 1 < i + 1
    BY <1>1, <1>2
  <2>2. PICK j \in DOMAIN s : 1 < j /\ j < i + 1 /\ s[j] \in B
    BY <1>1, <1>2, <2>1 DEF Kept
  <2>3. j # 1
    BY <2>2
  <2>4. j \in Nat /\ j - 1 \in DOMAIN t /\ t[j - 1] = s[j]
    BY <1>1, <2>3
  <2>5. j - 1 < i
    BY <2>1, <2>2, <2>4
  <2> QED  BY <2>2, <2>4, <2>5
<1>3. ASSUME NEW i \in DOMAIN t, NEW l \in DOMAIN t, t[i] \in C, t[l] \in A, i < l
      PROVE  \E j \in DOMAIN t : i < j /\ j < l /\ t[j] \in B
  <2>1. /\ i \in Nat /\ i + 1 \in DOMAIN s /\ s[i + 1] \in C /\ 1 < i + 1
        /\ l \in Nat /\ l + 1 \in DOMAIN s /\ s[l + 1] \in A /\ i + 1 < l + 1
    BY <1>1, <1>3
  <2>2. PICK j \in DOMAIN s : i + 1 < j /\ j < l + 1 /\ s[j] \in B
    BY <2>1 DEF Kept
  <2>3. j # 1
    BY <2>1, <2>2
  <2>4. j \in Nat /\ j - 1 \in DOMAIN t /\ t[j - 1] = s[j]
    BY <1>1, <2>3
  <2>5. i < j - 1 /\ j - 1 < l
    BY <2>1, <2>2, <2>4
  <2> QED  BY <2>2, <2>4, <2>5
<1>4. Kept(t, A, B, C) /\ (Head(s) \in C => Behind(t, A, B))
  BY <1>2, <1>3 DEF Kept, Behind
<1> QED  BY <1>4 DEF t

\* What never follows never will.
LEMMA TailNever ==
    ASSUME NEW T, NEW s \in Seq(T), s # <<>>, NEW A, NEW B, Never(s, A, B)
    PROVE  Never(Tail(s), A, B) /\ (Head(s) \in A => ~Has(Tail(s), B))
<1> DEFINE t == Tail(s)
<1>1. /\ 1 \in DOMAIN s /\ s[1] = Head(s)
      /\ \A i \in DOMAIN t : i \in Nat /\ i + 1 \in DOMAIN s /\ t[i] = s[i + 1] /\ 1 < i + 1
  BY TailIs
<1> HIDE DEF t
<1>2. ASSUME Head(s) \in A, NEW i \in DOMAIN t, t[i] \in B PROVE FALSE
  <2>1. i + 1 \in DOMAIN s /\ s[i + 1] \in B /\ 1 < i + 1
    BY <1>1, <1>2
  <2> QED  BY <1>1, <1>2, <2>1 DEF Never
<1>3. ASSUME NEW i \in DOMAIN t, NEW l \in DOMAIN t, t[i] \in A, t[l] \in B, i < l PROVE FALSE
  <2>1. /\ i \in Nat /\ i + 1 \in DOMAIN s /\ s[i + 1] \in A
        /\ l \in Nat /\ l + 1 \in DOMAIN s /\ s[l + 1] \in B /\ i + 1 < l + 1
    BY <1>1, <1>3
  <2> QED  BY <2>1 DEF Never
<1>4. Never(t, A, B) /\ (Head(s) \in A => ~Has(t, B))
  BY <1>2, <1>3 DEF Never, Has
<1> QED  BY <1>4 DEF t

-----------------------------------------------------------------------------
(* Loading and sorting.                                                     *)

Loading == {s \in [ok : BOOLEAN, depends : [Components -> SUBSET Components]] :
              \A c \in Components : s.depends[c] \subseteq plan.declared[c] \ {c}}

\* add_depend keeps to the components.
LEMMA AddDependIs ==
    ASSUME NEW s \in Loading, NEW e \in Components \X Components
    PROVE  AddDepend(s, e) \in Loading
<1>1. e[1] \in Components /\ e[2] \in Components
  OBVIOUS
<1>2. [s EXCEPT !.ok = FALSE] \in Loading
  BY DEF Loading
<1>3. ASSUME e[1] # e[2], e[2] \in plan.declared[e[1]]
      PROVE  [s EXCEPT !.depends[e[1]] = @ \cup {e[2]}] \in Loading
  <2> DEFINE f == [s.depends EXCEPT ![e[1]] = @ \cup {e[2]}]
  <2>1. f \in [Components -> SUBSET Components]
    BY <1>1 DEF Loading
  <2>2. ASSUME NEW c \in Components PROVE f[c] \subseteq plan.declared[c] \ {c}
    BY <1>1, <1>3 DEF Loading
  <2>3. s \in [ok : BOOLEAN, depends : [Components -> SUBSET Components]]
    BY DEF Loading
  <2> HIDE DEF f
  <2>4. [s EXCEPT !.depends = f] \in Loading
    BY <2>1, <2>2, <2>3 DEF Loading
  <2> QED  BY <2>3, <2>4 DEF f
<1> QED  BY <1>2, <1>3 DEF AddDepend

\* The components are those of the list of config.yaml (_deploy.py:1300).
LEMMA ComponentsListed ==
    ASSUME plan \in Plans
    PROVE  plan.order \in Seq(Components) /\ IsInjective(plan.order) /\ ToSet(plan.order) = Components
<1>1. plan.order \in Seq(Kinds) /\ IsInjective(plan.order)
  BY ScheduleAssumption
<1>2. /\ Len(plan.order) \in Nat /\ DOMAIN plan.order = 1..Len(plan.order)
      /\ plan.order = [i \in 1..Len(plan.order) |-> plan.order[i]]
  BY <1>1
<1>3. \A i \in 1..Len(plan.order) : plan.order[i] \in Components
  BY <1>2 DEF Components, ToSet
<1>4. plan.order \in Seq(Components)
  BY <1>2, <1>3
<1> QED  BY <1>1, <1>4 DEF Components

\* Whatever names the components declare, only components are depended on (src/_deploy.py:1204).
LEMMA LoadedIs ==
    ASSUME plan \in Plans
    PROVE  /\ LoadDepends \in [Components -> SUBSET Components]
           /\ \A c \in Components : LoadDepends[c] \subseteq plan.declared[c] \ {c}
<1> DEFINE Edge == Components \X Components
           of(c) == [i \in DOMAIN plan.order |-> <<c, plan.order[i]>>]
           rows == [i \in DOMAIN plan.order |-> of(plan.order[i])]
           edges == FlattenSeq(rows)
           none == [ok |-> TRUE, depends |-> [c \in Components |-> {}]]
           n == Len(edges)
<1>1. edges \in Seq(Edge)
  <2>1. plan.order \in Seq(Components) /\ DOMAIN plan.order = 1..Len(plan.order) /\ Len(plan.order) \in Nat
    BY ComponentsListed
  <2>2. \A i \in DOMAIN plan.order : plan.order[i] \in Components
    BY <2>1
  <2>3. \A c \in Components : of(c) \in Seq(Edge)
    BY <2>1, <2>2
  <2>4. rows \in Seq(Seq(Edge))
    <3> HIDE DEF of, Edge
    <3> QED  BY <2>1, <2>2, <2>3
  <2> HIDE DEF rows
  <2> QED  BY <2>4, FlatIsLaid
<1>2. n \in Nat /\ \A i \in 1..n : edges[i] \in Edge
  <2> HIDE DEF edges, Edge
  <2> QED  BY <1>1
<1>3. none \in Loading
  BY DEF Loading
<1> HIDE DEF edges
<1> DEFINE Step(f, m) == IF m = 0 THEN none ELSE AddDepend(f[m - 1], edges[m])
           Built(m) == \E f \in [0..m -> Loading] : f = [k \in 0..m |-> Step(f, k)]
           Good == {m \in 0..n : Built(m)}
<1>4. 0 \in Good
  <2> DEFINE g == [k \in 0..0 |-> none]
  <2>1. g \in [0..0 -> Loading]
    BY <1>3
  <2>2. g = [k \in 0..0 |-> Step(g, k)]
    OBVIOUS
  <2>3. Built(0)
    <3> HIDE DEF g, Step
    <3> QED  BY <2>1, <2>2
  <2> HIDE DEF Built, n
  <2> QED  BY <1>2, <2>3
<1>5. ASSUME NEW m \in 0..(n - 1), m \in Good PROVE m + 1 \in Good
  <2>1. PICK f \in [0..m -> Loading] : f = [k \in 0..m |-> Step(f, k)]
    BY <1>5
  <2> DEFINE g == [k \in 0..(m + 1) |-> IF k = m + 1 THEN AddDepend(f[m], edges[m + 1]) ELSE f[k]]
  <2>2. AddDepend(f[m], edges[m + 1]) \in Loading
    <3>0. m \in 0..m /\ m + 1 \in 1..n
      BY <1>2
    <3>1. f[m] \in Loading /\ m + 1 \in 1..n
      <4> HIDE DEF n, Step, none
      <4> QED  BY <2>1, <3>0
    <3>2. edges[m + 1] \in Components \X Components
      BY <1>2, <3>1
    <3> HIDE DEF n, Edge, none, Step, Good, Built
    <3> QED  BY <3>1, <3>2, AddDependIs
  <2>3. g \in [0..(m + 1) -> Loading]
    <3>1. \A k \in 0..(m + 1) : k # m + 1 => k \in 0..m
      BY <1>2
    <3> HIDE DEF n, Step, none
    <3> QED  BY <2>1, <2>2, <3>1
  <2>4. \A k \in 0..(m + 1) : g[k] = Step(g, k)
    <3> TAKE k \in 0..(m + 1)
    <3>1. CASE k = m + 1
      <4>1. k # 0 /\ k - 1 \in 0..(m + 1) /\ k - 1 # m + 1 /\ k - 1 = m
        BY <1>2, <3>1
      <4>2. g[k - 1] = f[m] /\ g[k] = AddDepend(f[m], edges[k])
        BY <3>1, <4>1
      <4> QED  BY <4>1, <4>2
    <3>2. CASE k # m + 1
      <4>1. k \in 0..m /\ g[k] = f[k]
        BY <1>2, <3>2
      <4>2. f[k] = Step(f, k)
        <5> DEFINE h == [j \in 0..m |-> Step(f, j)]
        <5>1. h[k] = Step(f, k)
          BY <4>1
        <5>2. f = h
          BY <2>1
        <5> QED  BY <5>1, <5>2
      <4>3. k # 0 => k - 1 \in 0..(m + 1) /\ k - 1 # m + 1 /\ g[k - 1] = f[k - 1]
        BY <1>2, <4>1
      <4> QED  BY <4>1, <4>2, <4>3
    <3> QED  BY <3>1, <3>2
  <2>5. g = [k \in 0..(m + 1) |-> Step(g, k)]
    BY <2>4
  <2>6. Built(m + 1)
    <3> HIDE DEF g, Step
    <3> QED  BY <2>3, <2>5
  <2>7. m + 1 \in 0..n
    BY <1>2
  <2> HIDE DEF Built, n
  <2> QED  BY <2>6, <2>7
<1>6. n \in Good
  <2> HIDE DEF Good, n
  <2> QED  BY <1>2, <1>4, <1>5, UpTo
<1>7. PICK g \in [0..n -> Loading] : g = [k \in 0..n |-> Step(g, k)]
  BY <1>2, <1>6
<1>8. \A f : f = [k \in 0..n |-> Step(f, k)] => f[n] \in Loading
  <2> SUFFICES ASSUME NEW f, f = [k \in 0..n |-> Step(f, k)] PROVE f[n] \in Loading
    OBVIOUS
  <2>1. \A k \in 0..n : f[k] = Step(f, k)
    <3> DEFINE h == [k \in 0..n |-> Step(f, k)]
    <3>1. \A k \in 0..n : h[k] = Step(f, k)
      OBVIOUS
    <3>2. f = h
      OBVIOUS
    <3> QED  BY <3>1, <3>2
  <2> DEFINE Typed == {k \in 0..n : f[k] \in Loading}
  <2>2. 0 \in Typed
    <3>1. f[0] = none
      BY <1>2, <2>1
    <3> HIDE DEF none, n, Step
    <3> QED  BY <1>2, <1>3, <3>1
  <2>3. ASSUME NEW k \in 0..(n - 1), k \in Typed PROVE k + 1 \in Typed
    <3>1. k + 1 \in 0..n /\ k + 1 \in 1..n /\ k + 1 # 0 /\ (k + 1) - 1 = k
      BY <1>2
    <3>2. f[k + 1] = AddDepend(f[k], edges[k + 1])
      BY <2>1, <3>1
    <3>3. edges[k + 1] \in Components \X Components /\ f[k] \in Loading
      BY <1>2, <2>3, <3>1
    <3>4. AddDepend(f[k], edges[k + 1]) \in Loading
      <4> HIDE DEF n, Edge, none, Step, Good, Built, Typed
      <4> QED  BY <3>3, AddDependIs
    <3> HIDE DEF n, Edge, none, Step, Good, Built
    <3> QED  BY <3>1, <3>2, <3>4
  <2>4. n \in Typed
    <3> HIDE DEF Typed, n
    <3> QED  BY <1>2, <2>2, <2>3, UpTo
  <2> QED  BY <2>4
<1>9. PICK f : LoadDepends = f[n].depends /\ f = [k \in 0..n |-> Step(f, k)]
  <2> DEFINE after[k \in 0..n] == IF k = 0 THEN none ELSE AddDepend(after[k - 1], edges[k])
  <2>1. after = [k \in 0..n |-> Step(after, k)]
    <3> HIDE DEF n, none
    <3> QED  BY <1>7
  <2>2. LoadDepends = after[n].depends
    BY DEF LoadDepends, edges
  <2> HIDE DEF after
  <2> QED  BY <2>1, <2>2
<1>10. f[n] \in Loading
  <2> HIDE DEF n, Step
  <2> QED  BY <1>8, <1>9
<1> QED  BY <1>9, <1>10 DEF Loading

\* Each component is in one of the three lists, once.
Split ==
    /\ ToSet(todo) \cup ToSet(again) \cup ToSet(sorted) = Components
    /\ ToSet(todo) \cap ToSet(again) = {} /\ ToSet(todo) \cap ToSet(sorted) = {}
    /\ ToSet(again) \cap ToSet(sorted) = {}
    /\ IsInjective(todo) /\ IsInjective(again) /\ IsInjective(sorted)

ListsOK ==
    /\ todo \in Seq(Components) /\ again \in Seq(Components) /\ sorted \in Seq(Components)
    /\ depends \in [Components -> SUBSET Components] /\ DependsDeclared
    /\ pc = "load" => todo = <<>> /\ again = <<>> /\ sorted = <<>>
    /\ pc # "load" => Split

SortInv == plan \in Plans /\ ListsOK /\ DependenciesSorted

\* What every step but those of the loading and sorting loop leaves alone.
KeepsSort == UNCHANGED <<plan, depends, todo, again, sorted>> /\ (pc' = "load" <=> pc = "load")

\* What appending and taking do to the elements of a list without repetition.
LEMMA AppendIs ==
    ASSUME NEW T, NEW s \in Seq(T), NEW e \in T
    PROVE  /\ ToSet(Append(s, e)) = ToSet(s) \cup {e}
           /\ IsInjective(s) /\ e \notin ToSet(s) => IsInjective(Append(s, e))
<1> DEFINE u == Append(s, e)
<1>1. /\ Len(s) \in Nat /\ DOMAIN s = 1..Len(s) /\ DOMAIN u = 1..(Len(s) + 1)
      /\ u[Len(s) + 1] = e /\ \A i \in 1..Len(s) : u[i] = s[i]
  OBVIOUS
<1> HIDE DEF u
<1>2. \A i \in DOMAIN u : i \in DOMAIN s \/ i = Len(s) + 1
  BY <1>1
<1>3. ToSet(u) = ToSet(s) \cup {e}
  BY <1>1, <1>2 DEF ToSet
<1>4. ASSUME IsInjective(s), e \notin ToSet(s), NEW i \in DOMAIN u, NEW j \in DOMAIN u, u[i] = u[j]
      PROVE  i = j
  BY <1>1, <1>2, <1>4 DEF IsInjective, ToSet
<1> QED  BY <1>3, <1>4 DEF IsInjective, u

\* What the tail of a list without repetition leaves out.
LEMMA TailLeaves ==
    ASSUME NEW T, NEW s \in Seq(T), s # <<>>
    PROVE  /\ ToSet(s) = {Head(s)} \cup ToSet(Tail(s))
           /\ IsInjective(s) => IsInjective(Tail(s)) /\ Head(s) \notin ToSet(Tail(s))
<1> DEFINE t == Tail(s)
<1>1. /\ 1 \in DOMAIN s /\ s[1] = Head(s)
      /\ \A i \in DOMAIN t : i \in Nat /\ i + 1 \in DOMAIN s /\ t[i] = s[i + 1] /\ 1 < i + 1
      /\ \A i \in DOMAIN s : i # 1 => i \in Nat /\ i - 1 \in DOMAIN t /\ t[i - 1] = s[i] /\ 1 < i
  BY TailIs
<1> HIDE DEF t
<1>2. ToSet(s) = {Head(s)} \cup ToSet(t)
  BY <1>1 DEF ToSet
<1>3. ASSUME IsInjective(s), NEW i \in DOMAIN t, NEW j \in DOMAIN t, t[i] = t[j]
      PROVE  i = j
  <2>1. i \in Nat /\ j \in Nat /\ i + 1 = j + 1
    BY <1>1, <1>3 DEF IsInjective
  <2> QED  BY <2>1
<1>4. ASSUME IsInjective(s), Head(s) \in ToSet(t) PROVE FALSE
  <2>1. PICK i \in DOMAIN t : t[i] = Head(s)
    BY <1>4 DEF ToSet
  <2>2. s[i + 1] = s[1] /\ i + 1 \in DOMAIN s /\ 1 < i + 1 /\ i \in Nat
    BY <1>1, <2>1
  <2>3. i + 1 = 1
    BY <1>1, <1>4, <2>2 DEF IsInjective
  <2> QED  BY <2>2, <2>3
<1> QED  BY <1>2, <1>3, <1>4 DEF IsInjective, t

\* At first the lists are empty.
LEMMA SortInit == Init => SortInv
<1> SUFFICES ASSUME Init PROVE SortInv
  OBVIOUS
<1>1. depends \in [Components -> SUBSET Components]
  BY DEF Init
<1> QED  BY <1>1 DEF Init, SortInv, ListsOK, DependenciesSorted, DependsDeclared

\* A component is appended only when what it depends on is in the list (src/_deploy.py:1190).
LEMMA SortedAppend ==
    ASSUME SortInv, NEW c \in Components, Ripe(c), sorted' = Append(sorted, c),
           UNCHANGED <<plan, depends>>
    PROVE  sorted' \in Seq(Components) /\ DependenciesSorted'
<1> DEFINE n == Len(sorted)
<1>1. sorted \in Seq(Components) /\ n \in Nat
  BY DEF SortInv, ListsOK
<1>2. /\ sorted' \in Seq(Components) /\ DOMAIN sorted' = 1..(n + 1)
      /\ \A i \in 1..n : sorted'[i] = sorted[i]
      /\ sorted'[n + 1] = c
  BY <1>1
<1>3. Components' = Components
  BY DEF Components
<1>4. ASSUME NEW i \in 1..n, NEW d \in depends[sorted[i]] \cap Components
      PROVE  \E j \in 1..(i - 1) : sorted'[j] = d
  <2>1. PICK j \in 1..(i - 1) : sorted[j] = d
    BY <1>1 DEF SortInv, DependenciesSorted
  <2> QED  BY <1>1, <1>2, <2>1
<1>5. ASSUME NEW d \in depends[c] \cap Components
      PROVE  \E j \in 1..n : sorted'[j] = d
  <2>1. PICK j \in DOMAIN sorted : sorted[j] = d
    BY DEF Ripe, ToSet
  <2> QED  BY <1>1, <1>2, <2>1
<1>6. ASSUME NEW i \in DOMAIN sorted', NEW d \in depends'[sorted'[i]] \cap Components'
      PROVE  \E j \in 1..(i - 1) : sorted'[j] = d
  <2>1. CASE i \in 1..n
    BY <1>2, <1>3, <1>4, <2>1
  <2>2. CASE i = n + 1
    BY <1>1, <1>2, <1>3, <1>5, <2>2
  <2> QED  BY <1>1, <1>2, <2>1, <2>2
<1> QED  BY <1>2, <1>6 DEF DependenciesSorted

\* The steps of the loading and sorting loop keep the invariant: loading,
LEMMA LoadKeeps == SortInv /\ Load => SortInv'
<1> SUFFICES ASSUME SortInv, Load PROVE SortInv'
  OBVIOUS
<1>1. /\ plan' = plan /\ sorted' = <<>> /\ again' = <<>> /\ todo' = plan.order /\ pc' = "sort"
      /\ depends' = LoadDepends
  BY DEF SortInv, ListsOK, Load
<1>2. Components' = Components
  BY <1>1 DEF Components
<1>3. plan.order \in Seq(Components) /\ IsInjective(plan.order) /\ ToSet(plan.order) = Components
  BY ComponentsListed DEF SortInv
<1>4. depends' \in [Components -> SUBSET Components] /\ DependsDeclared'
  BY <1>1, <1>2, LoadedIs DEF SortInv, DependsDeclared
<1>5. ToSet(<<>>) = {} /\ IsInjective(<<>>)
  BY DEF ToSet, IsInjective
<1>6. Split'
  BY <1>1, <1>2, <1>3, <1>5 DEF Split
<1> QED  BY <1>1, <1>2, <1>3, <1>4, <1>6 DEF SortInv, ListsOK, DependenciesSorted

\* Taking one component of the list,
LEMMA SortOneKeeps == SortInv /\ SortOne => SortInv'
<1> SUFFICES ASSUME SortInv, SortOne PROVE SortInv'
  OBVIOUS
<1> DEFINE c == Head(todo)
           rest == Tail(todo)
<1>1. Components' = Components
  BY DEF SortOne, Components
<1>2. c \in Components /\ rest \in Seq(Components)
  BY DEF SortInv, ListsOK, SortOne
<1>3. /\ ToSet(todo) = {c} \cup ToSet(rest)
      /\ IsInjective(todo) => IsInjective(rest) /\ c \notin ToSet(rest)
  BY TailLeaves DEF SortInv, ListsOK, SortOne
<1>4. /\ plan' = plan /\ depends' = depends /\ pc' = pc /\ pc # "load" /\ todo' = rest
      /\ IF Ripe(c) THEN sorted' = Append(sorted, c) /\ again' = again
                    ELSE again' = Append(again, c) /\ sorted' = sorted
  BY DEF SortOne
<1>5. /\ Split /\ sorted \in Seq(Components) /\ again \in Seq(Components)
      /\ depends \in [Components -> SUBSET Components] /\ plan \in Plans
      /\ DependsDeclared'
  BY <1>1, <1>4 DEF SortInv, ListsOK, DependsDeclared
<1> HIDE DEF c, rest
<1>6. CASE Ripe(c)
  <2>1. sorted' \in Seq(Components) /\ DependenciesSorted'
    BY <1>2, <1>4, <1>6, SortedAppend
  <2>2. /\ ToSet(sorted') = ToSet(sorted) \cup {c}
        /\ IsInjective(sorted) /\ c \notin ToSet(sorted) => IsInjective(sorted')
    <3>1. sorted' = Append(sorted, c)
      BY <1>4, <1>6
    <3> QED  BY <1>2, <1>5, <3>1, AppendIs
  <2>3. Split'
    BY <1>1, <1>3, <1>4, <1>5, <1>6, <2>2 DEF Split
  <2> QED  BY <1>1, <1>2, <1>4, <1>5, <1>6, <2>1, <2>3 DEF SortInv, ListsOK
<1>7. CASE ~Ripe(c)
  <2>1. sorted' = sorted /\ DependenciesSorted'
    BY <1>1, <1>4, <1>7 DEF SortInv, DependenciesSorted
  <2>2. /\ ToSet(again') = ToSet(again) \cup {c}
        /\ IsInjective(again) /\ c \notin ToSet(again) => IsInjective(again')
    <3>1. again' = Append(again, c)
      BY <1>4, <1>7
    <3> QED  BY <1>2, <1>5, <3>1, AppendIs
  <2>3. Split'
    BY <1>1, <1>3, <1>4, <1>5, <1>7, <2>2 DEF Split
  <2>4. again' \in Seq(Components)
    <3>1. again' = Append(again, c)
      BY <1>4, <1>7
    <3> QED  BY <1>2, <1>5, <3>1
  <2> QED  BY <1>1, <1>2, <1>4, <1>5, <1>7, <2>1, <2>3, <2>4 DEF SortInv, ListsOK
<1> QED  BY <1>6, <1>7

\* and taking the list of those that were not ripe.
LEMMA SortAgainKeeps == SortInv /\ SortAgain => SortInv'
<1> SUFFICES ASSUME SortInv, SortAgain PROVE SortInv'
  OBVIOUS
<1>1. /\ Components' = Components /\ pc # "load" /\ pc' = pc /\ todo = <<>> /\ todo' = again /\ again' = <<>>
      /\ UNCHANGED <<plan, depends, sorted>>
  BY DEF SortAgain, Components
<1>2. Split'
  BY <1>1 DEF Split, SortInv, ListsOK
<1> QED  BY <1>1, <1>2 DEF SortInv, ListsOK, DependenciesSorted, DependsDeclared

\* So do those that leave it alone.
LEMMA OthersKeep == SortInv /\ KeepsSort => SortInv'
<1> SUFFICES ASSUME SortInv, KeepsSort PROVE SortInv'
  OBVIOUS
<1>1. Components' = Components
  BY DEF KeepsSort, Components
<1> QED  BY <1>1 DEF SortInv, ListsOK, KeepsSort, DependenciesSorted, DependsDeclared, Split

\* Every other action is one that the loop's variables do not notice.
LEMMA NextSplit == Next => Load \/ SortOne \/ SortAgain \/ KeepsSort
<1> SUFFICES ASSUME Next PROVE Load \/ SortOne \/ SortAgain \/ KeepsSort
  OBVIOUS
<1>1. ASSUME NEW cmd, Begin(cmd) PROVE KeepsSort
  BY <1>1 DEF Begin, KeepsSort, sorting
<1>2. CASE NextWorkflow \/ Succeed
  BY <1>2 DEF NextWorkflow, Succeed, EndWith, KeepsSort, sorting
<1>3. CASE StartProcess \/ HealthCheck \/ StopProcess
  BY <1>3 DEF StartProcess, HealthCheck, StopProcess, KeepsSort, sorting
<1>4. CASE StartInstances \/ StopInstances
  BY <1>4 DEF StartInstances, StopInstances, KeepsSort, sorting
<1>5. CASE RestartPre \/ StartZone \/ StopZone
  BY <1>5 DEF RestartPre, StartZone, StopZone, KeepsSort, sorting
<1>6. CASE OtherPlugin \/ PluginRefuses \/ PluginFails
  <2>1. pc = "run" /\ UNCHANGED <<plan, depends, todo, again, sorted>> /\ pc' \in {"run", "done"}
    BY <1>6 DEF OtherPlugin, Running, PluginRefuses, PluginFails, EndWith, sorting
  <2> QED  BY <2>1 DEF KeepsSort
<1> QED  BY <1>1, <1>2, <1>3, <1>4, <1>5, <1>6 DEF Next

\* The invariant of loading and sorting is inductive.
LEMMA SortStep == SortInv /\ [Next]_vars => SortInv'
<1> SUFFICES ASSUME SortInv, [Next]_vars PROVE SortInv'
  OBVIOUS
<1>1. CASE Next
  BY <1>1, NextSplit, LoadKeeps, SortOneKeeps, SortAgainKeeps, OthersKeep
<1>2. CASE UNCHANGED vars
  <2>1. KeepsSort
    BY <1>2 DEF vars, KeepsSort, sorting
  <2> QED  BY <2>1, OthersKeep
<1> QED  BY <1>1, <1>2

\* However the configuration lists the components, and whatever they declare, none is
\* sorted before one that it depends on (sorted_components, src/_deploy.py:1181).
THEOREM SortedRespectsDependencies == Spec => []DependenciesSorted
<1>1. SortInv => DependenciesSorted
  BY DEF SortInv
<1> QED  BY SortInit, SortStep, <1>1, PTL DEF Spec

-----------------------------------------------------------------------------
(* Running.                                                                 *)

\* All servers of a component run, and it was checked.
Whole(d) == d \in ready /\ AllServers(d) \subseteq up

\* No process of a component is left that the command neither started nor reported stopped.
Accounted(d) == AllServers(d) \cap up \subseteq fresh \cup denied

\* The templates that a workflow of the command may hold.
Fitting ==
    {t \in Template :
        /\ t.of \in Components /\ t.on \in Components
        /\ t.plugin = "stop_zone" => t.zone \in Zones
        /\ t.plugin = "start_instances" => t.on = obbinlog
        /\ t.plugin = "update_prometheus" => t.of = alertmanager
        /\ t.plugin \in DatabaseOnly => t.of = oceanbase
        /\ command = "stop" => t.plugin # "start"}

\* The workflows that may still have to come.
Remaining(cmd) ==
    CASE cmd = "start"   -> {<<"start", "display">>, <<"display">>, <<>>}
      [] cmd = "stop"    -> {<<"stop">>, <<>>}
      [] cmd = "restart" -> {<<"start", "display", "restart_pre", "restart">>,
                             <<"display", "restart_pre", "restart">>,
                             <<"restart_pre", "restart">>, <<"restart">>, <<>>}

Values ==
    /\ servers = Zones /\ zones \in Seq(Zones) /\ stopped \subseteq Zones
    /\ up \subseteq Everything /\ ready \subseteq Components /\ streams \in BOOLEAN
    /\ fresh \subseteq Everything /\ denied \subseteq Everything
    /\ gaveUp \in BOOLEAN /\ faults \in 0..MaxFaults

Phases ==
    /\ pc \in {"load", "sort", "run", "done"}
    /\ queue \in Seq(Fitting)
    /\ pc \in {"load", "sort"} =>
         /\ command = "none" /\ left = <<>> /\ queue = <<>> /\ zones = <<>>
         /\ fresh = {} /\ denied = {}
         /\ ready = {c \in Components : AllServers(c) \subseteq up}
    /\ pc # "done" => result = "none"
    /\ pc \in {"run", "done"} => command \in {"start", "stop", "restart"}
    /\ pc = "run" => AllSorted /\ left \in Remaining(command)
    /\ pc = "done" => result \in {"failed", "succeeded"} /\ left = <<>> /\ queue = <<>>

\* A component is whole or is checked before a plugin talks to it, and is again once killed.
Checked ==
    pc = "run" /\ command # "stop" =>
        \A d \in Components :
            /\ Kept(queue, Asks(d), Check(d), Kill(d))
            /\ Closes(queue, Kill(d), Check(d))
            /\ Whole(d) \/ Behind(queue, Asks(d), Check(d))
            /\ Whole(d) \/ Has(queue, Check(d)) \/ (left # <<>> /\ Head(left) = "start")

\* The processes of a component are accounted for, or their killing is still to come.
Bounced ==
    /\ command = "stop" => fresh = {}
    /\ pc = "run" /\ command \in {"stop", "restart"} =>
         \A d \in Components : Accounted(d) \/ Has(queue, Kill(d)) \/ left # <<>>

\* A zone that is stopped is one that will be started.
ZonesBack ==
    pc = "run" =>
        /\ zones # <<>> => \A z \in stopped : Has(queue, StartsZone(z))
        /\ \A z \in Zones : Closes(queue, StopsZone(z), StartsZone(z))

\* As long as the instances run, and obd did not give up on them, their end comes before
\* that of what they need.
Instances ==
    /\ streams => obbinlog \in up
    /\ pc = "run" /\ obbinlog \in Components =>
         /\ streams /\ ~gaveUp => Behind(queue, Ends, InstancesStop)
         /\ Never(queue, InstancesStart, Ends)

RunInv == Values /\ Phases /\ Checked /\ Bounced /\ ZonesBack /\ Instances /\ SuccessMeansDone

-----------------------------------------------------------------------------
\* The components of a plugin's steps, and that no two components share a server.
LEMMA ServersApart ==
    ASSUME plan \in Plans
    PROVE  /\ \A c, d \in Components : c # d => AllServers(c) \cap AllServers(d) = {}
           /\ \A c \in Components : AllServers(c) \subseteq Everything /\ AllServers(c) # {}
           /\ \A s \in Everything : \E c \in Components : s \in AllServers(c)
           /\ obbinlog \in Everything => obbinlog \in Components
           /\ oceanbase # obbinlog /\ AllServers(obbinlog) = {obbinlog}
           /\ AllServers(oceanbase) = Zones /\ Zones \cap {obbinlog} = {}
<1>1. Components \subseteq Modelled /\ Zones # {} /\ Zones \cap Modelled = {}
  BY ComponentsModelled
<1>2. oceanbase # obbinlog /\ obbinlog \in Modelled
  BY Distinct DEF Modelled
<1>3. \A c, d \in Components : c # d => AllServers(c) \cap AllServers(d) = {}
  BY <1>1 DEF AllServers
<1>4. \A c \in Components : AllServers(c) \subseteq Everything /\ AllServers(c) # {}
  BY <1>1 DEF AllServers, Everything
<1>5. \A s \in Everything : \E c \in Components : s \in AllServers(c)
  BY DEF Everything
<1>6. obbinlog \in Everything => obbinlog \in Components
  BY <1>1, <1>2, <1>5 DEF AllServers
<1>7. AllServers(obbinlog) = {obbinlog} /\ AllServers(oceanbase) = Zones /\ Zones \cap {obbinlog} = {}
  BY <1>1, <1>2 DEF AllServers
<1> QED  BY <1>2, <1>3, <1>4, <1>5, <1>6, <1>7

\* The database's configuration names all its servers whenever a plugin runs.
LEMMA ServersAll ==
    ASSUME Values, NEW c
    PROVE  ServersOf(c) = AllServers(c)
BY DEF Values, ServersOf, AllServers

\* A plugin only needs components that there are, if it declares them.
LEMMA NeedsThere ==
    ASSUME plan \in Plans, depends \in [Components -> SUBSET Components],
           NEW t \in Fitting, NEW d \in Needs(t), Declares(t.of, d)
    PROVE  d \in Components
<1>1. Components \subseteq Modelled
  BY ComponentsModelled
<1>2. /\ t.of \in Components /\ t.on \in Components /\ depends[t.of] \subseteq Components
      /\ t.plugin = "update_prometheus" => t.of = alertmanager
      /\ t.plugin \in DatabaseOnly => t.of = oceanbase
  BY DEF Fitting
<1>3. CASE t.of = obbinlog
  <2>1. t.plugin # "update_prometheus" /\ t.plugin \notin DatabaseOnly
    BY <1>1, <1>2, <1>3, Distinct
  <2> QED  BY <1>2, <1>3, <2>1 DEF Needs, DatabaseOnly
<1>4. CASE t.of # obbinlog
  BY <1>2, <1>4 DEF Declares
<1> QED  BY <1>3, <1>4

-----------------------------------------------------------------------------
(* What the plugins do.                                                    *)

\* A plugin was run and succeeded.
Took ==
    /\ pc = "run" /\ queue # <<>> /\ queue' = Tail(queue)
    /\ UNCHANGED <<plan, depends, pc, todo, again, sorted, command, left, result, servers>>

\* What it has done to the processes,
Processes ==
    LET t == Head(queue)
    IN  /\ up' \subseteq Everything /\ ready' \subseteq Components
        /\ fresh' \subseteq Everything /\ denied' \subseteq Everything /\ faults' \in 0..MaxFaults
        /\ fresh \subseteq fresh' /\ denied \subseteq denied' /\ up' \ up \subseteq fresh'
        /\ t.plugin # "start" => fresh' = fresh
        /\ \A s \in up \ up' : t.plugin = "stop" /\ s \in AllServers(t.on)
        /\ \A d \in Components :
             /\ t \in Kill(d) => AllServers(d) \cap up' \subseteq denied'
             /\ t \in Check(d) => Whole(d)'
             /\ t \notin Kill(d) /\ Whole(d) => Whole(d)'

\* to the zones,
ZonesMove ==
    LET t == Head(queue)
    IN  /\ stopped' \subseteq Zones /\ zones' \in Seq(Zones)
        /\ \/ /\ zones' = zones
              /\ stopped' \subseteq stopped \cup (IF t.plugin = "stop_zone" THEN {t.zone} ELSE {})
              /\ t.plugin = "start_zone" => t.zone \notin stopped'
           \/ zones' # <<>> => stopped' = {}

\* and to the binlog instances.
StreamsMove ==
    LET t == Head(queue)
    IN  /\ streams' \in BOOLEAN
        /\ streams' => obbinlog \in up'
        /\ streams' => streams \/ t.plugin = "start_instances"
        /\ gaveUp' \in BOOLEAN /\ (gaveUp => gaveUp')
        /\ t.plugin = "stop_instances" /\ streams' => gaveUp'

\* The plugin whose turn it is.
LEMMA HeadFits ==
    ASSUME Phases, queue # <<>>
    PROVE  Head(queue) \in Fitting /\ Tail(queue) \in Seq(Fitting)
BY TailIs DEF Phases

\* What each plugin does, by its action: start.
LEMMA StartEffect ==
    ASSUME Values, Phases, Instances, StartProcess
    PROVE  Took /\ Processes /\ ZonesMove /\ StreamsMove
<1> DEFINE t == Head(queue)
<1>1. t \in Fitting
  BY HeadFits DEF StartProcess, Running
<1>2. Took /\ plan \in Plans
  BY DEF StartProcess, Running, Took, sorting, Phases, AllSorted
<1>3. /\ t.plugin = "start" /\ t.on \in Components
      /\ up' = up \cup AllServers(t.on) /\ fresh' = fresh \cup (AllServers(t.on) \ up)
      /\ UNCHANGED <<plan, stopped, zones, ready, streams, denied, gaveUp, faults>>
  BY <1>1, ServersAll DEF StartProcess, Running, zoneVars, Fitting
<1>4. AllServers(t.on) \subseteq Everything
  BY <1>2, <1>3, ServersApart
<1> HIDE DEF t
<1>5. ASSUME NEW d \in Components
      PROVE  t \notin Kill(d) /\ t \notin Check(d) /\ (Whole(d) => Whole(d)')
  <2>1. t \notin Kill(d) /\ t \notin Check(d)
    BY <1>3 DEF Kill, Check
  <2>2. AllServers(d)' = AllServers(d)
    BY <1>3 DEF AllServers, Zones
  <2> QED  BY <1>3, <2>1, <2>2 DEF Whole
<1>6. Processes
  BY <1>3, <1>4, <1>5 DEF Processes, Values, t
<1>7. ZonesMove /\ StreamsMove
  BY <1>3 DEF ZonesMove, StreamsMove, Values, Instances, t
<1> QED  BY <1>2, <1>6, <1>7

\* health_check.
LEMMA HealthEffect ==
    ASSUME Values, Phases, Instances, HealthCheck
    PROVE  Took /\ Processes /\ ZonesMove /\ StreamsMove
<1> DEFINE t == Head(queue)
<1>1. t \in Fitting
  BY HeadFits DEF HealthCheck, Running
<1>2. Took
  BY DEF HealthCheck, Running, Took, sorting
<1>3. /\ t.plugin = "health_check" /\ t.on \in Components /\ AllServers(t.on) \subseteq up
      /\ ready' = ready \cup {t.on}
      /\ UNCHANGED <<plan, stopped, zones, up, streams, fresh, denied, gaveUp, faults>>
  BY <1>1, ServersAll DEF HealthCheck, Running, Refuses, zoneVars, history, Fitting
<1> HIDE DEF t
<1>5. ASSUME NEW d \in Components
      PROVE  t \notin Kill(d) /\ (t \in Check(d) => Whole(d)') /\ (Whole(d) => Whole(d)')
  <2>1. t \notin Kill(d) /\ (t \in Check(d) => t.on = d)
    BY <1>3 DEF Kill, Check
  <2>2. AllServers(d)' = AllServers(d)
    BY <1>3 DEF AllServers, Zones
  <2> QED  BY <1>3, <2>1, <2>2 DEF Whole
<1>6. Processes
  BY <1>3, <1>5 DEF Processes, Values, t
<1>7. ZonesMove /\ StreamsMove
  BY <1>3 DEF ZonesMove, StreamsMove, Values, Instances, t
<1> QED  BY <1>2, <1>6, <1>7

\* stop, which may have to leave processes.
LEMMA StopEffect ==
    ASSUME Values, Phases, Instances, StopProcess
    PROVE  Took /\ Processes /\ ZonesMove /\ StreamsMove
<1> DEFINE t == Head(queue)
<1>1. t \in Fitting
  BY HeadFits DEF StopProcess, Running
<1>2. Took /\ plan \in Plans
  BY DEF StopProcess, Running, Took, sorting, Phases, AllSorted
<1>3. /\ t.plugin = "stop" /\ t.on \in Components
      /\ UNCHANGED <<plan, stopped, zones, fresh, gaveUp>>
      /\ streams' = (streams /\ obbinlog \in up')
  BY <1>1 DEF StopProcess, Running, zoneVars, Fitting
<1>4. PICK kept \in SUBSET (AllServers(t.on) \cap up) :
        /\ kept # {} => faults < MaxFaults
        /\ up' = up \ ((AllServers(t.on) \cap up) \ kept)
        /\ denied' = denied \cup kept
        /\ faults' = IF kept # {} THEN faults + 1 ELSE faults
        /\ ready' = IF AllServers(t.on) \cap up' = {} THEN ready \ {t.on} ELSE ready
  BY ServersAll DEF StopProcess
<1>5. MaxFaults \in Nat /\ faults \in 0..MaxFaults
  BY ScheduleAssumption DEF Values
<1>6. kept \subseteq Everything /\ faults' \in 0..MaxFaults
  BY <1>4, <1>5 DEF Values
<1> HIDE DEF t
<1>7. ASSUME NEW d \in Components
      PROVE  /\ t \in Kill(d) => AllServers(d) \cap up' \subseteq denied'
             /\ t \notin Check(d)
             /\ t \notin Kill(d) /\ Whole(d) => Whole(d)'
  <2>1. t \notin Check(d) /\ (t \in Kill(d) <=> t.on = d)
    BY <1>1, <1>3 DEF Kill, Check, t, Fitting
  <2>2. AllServers(d)' = AllServers(d)
    BY <1>3 DEF AllServers, Zones
  <2>3. t.on # d => AllServers(t.on) \cap AllServers(d) = {}
    BY <1>2, <1>3, ServersApart
  <2> QED  BY <1>4, <2>1, <2>2, <2>3 DEF Whole
<1>8. Processes
  BY <1>3, <1>4, <1>6, <1>7 DEF Processes, Values, t
<1>9. ZonesMove /\ StreamsMove
  BY <1>3 DEF ZonesMove, StreamsMove, Values, t
<1> QED  BY <1>2, <1>8, <1>9

\* The plugins that leave the processes alone.
LEMMA StillIs ==
    ASSUME Values, UNCHANGED <<plan, up, ready, fresh, denied>>, faults' \in 0..MaxFaults,
           Head(queue).plugin \notin {"stop", "health_check"}
    PROVE  Processes
<1>1. ASSUME NEW d \in Components
      PROVE  Head(queue) \notin Kill(d) /\ Head(queue) \notin Check(d) /\ (Whole(d) => Whole(d)')
  <2>1. AllServers(d)' = AllServers(d)
    BY DEF AllServers, Zones
  <2> QED  BY <2>1 DEF Kill, Check, Whole
<1> QED  BY <1>1 DEF Processes, Values

\* start_instances and stop_instances.
LEMMA InstancesEffect ==
    ASSUME Values, Phases, Instances, StartInstances \/ StopInstances
    PROVE  Took /\ Processes /\ ZonesMove /\ StreamsMove
<1> DEFINE t == Head(queue)
<1>1. t \in Fitting
  BY HeadFits DEF StartInstances, StopInstances, Running
<1>2. Took /\ UNCHANGED <<plan, stopped, zones, up, ready, fresh, denied>>
  BY DEF StartInstances, StopInstances, Running, Took, sorting, zoneVars
<1>3. t.plugin \in {"start_instances", "stop_instances"}
  BY DEF StartInstances, StopInstances, Running
<1>4. Processes
  <2>1. faults' = faults \/ (faults < MaxFaults /\ faults' = faults + 1)
    BY DEF StartInstances, StopInstances
  <2>2. MaxFaults \in Nat /\ faults \in 0..MaxFaults
    BY ScheduleAssumption DEF Values
  <2>3. faults' \in 0..MaxFaults
    BY ONLY <2>1, <2>2
  <2> QED  BY <1>2, <1>3, <2>3, StillIs
<1>5. ZonesMove
  BY <1>2, <1>3 DEF ZonesMove, Values
<1>6. StreamsMove
  <2>0. plan \in Plans
    BY <1>2 DEF Took, Phases, AllSorted
  <2>1. CASE StartInstances
    <3>1. t.plugin = "start_instances" /\ t.on = obbinlog /\ gaveUp' = gaveUp
      BY <1>1, <2>1 DEF StartInstances, Running, Fitting
    <3>2. Answers(obbinlog)
      BY <2>1, <3>1 DEF StartInstances, Running, Refuses, Needs
    <3>3. obbinlog \in up
      BY <2>0, <3>2, ServersApart DEF Answers, Alive
    <3>4. streams' = TRUE \/ streams' = streams
      BY <2>1 DEF StartInstances
    <3> QED  BY <1>2, <3>1, <3>3, <3>4 DEF StreamsMove, Values
  <2>2. CASE StopInstances
    <3>1. /\ t.plugin = "stop_instances"
          /\ \/ streams' = (IF ~Alive(obbinlog) THEN streams ELSE FALSE) /\ gaveUp' = gaveUp
             \/ streams /\ streams' = streams /\ gaveUp' = TRUE
      BY <2>2 DEF StopInstances, Running, Skips
    <3>2. streams => obbinlog \in up /\ Alive(obbinlog)
      BY <2>0, ServersApart DEF Instances, Alive
    <3>3. CASE streams' = (IF ~Alive(obbinlog) THEN streams ELSE FALSE) /\ gaveUp' = gaveUp
      <4>1. streams' = FALSE
        BY <3>2, <3>3 DEF Values
      <4> QED  BY <3>1, <3>3, <4>1 DEF StreamsMove, Values
    <3>4. CASE streams /\ streams' = streams /\ gaveUp' = TRUE
      BY <1>2, <3>1, <3>2, <3>4 DEF StreamsMove
    <3> QED  BY <3>1, <3>3, <3>4
  <2> QED  BY <2>1, <2>2
<1> QED  BY <1>2, <1>4, <1>5, <1>6

\* restart_pre, start_zone and stop_zone.
LEMMA ZonesEffect ==
    ASSUME Values, Phases, Instances, RestartPre \/ StartZone \/ StopZone
    PROVE  Took /\ Processes /\ ZonesMove /\ StreamsMove
<1> DEFINE t == Head(queue)
<1>1. t \in Fitting
  BY HeadFits DEF RestartPre, StartZone, StopZone, Running
<1>2. Took /\ UNCHANGED <<plan, up, ready, streams, fresh, denied, gaveUp, faults>>
  BY DEF RestartPre, StartZone, StopZone, Running, Took, sorting, zoneVars, history
<1>3. t.plugin \in {"restart_pre", "start_zone", "stop_zone"}
  BY DEF RestartPre, StartZone, StopZone, Running
<1>4. Processes
  <2>1. faults' \in 0..MaxFaults
    BY <1>2 DEF Values
  <2> QED  BY <1>2, <1>3, <2>1, StillIs
<1>5. StreamsMove
  BY <1>2, <1>3 DEF StreamsMove, Values, Instances
<1>6. ZonesMove
  <2>1. CASE RestartPre
    <3>1. /\ stopped' = stopped /\ zones' = IF Zones \subseteq up /\ stopped = {} THEN plan.zones ELSE <<>>
      BY <2>1 DEF RestartPre
    <3>2. plan.zones \in Seq(Zones)
      BY <1>2, ComponentsModelled DEF Took, Phases, AllSorted
    <3> QED  BY <3>1, <3>2 DEF ZonesMove, Values
  <2>2. CASE StartZone
    BY <2>2 DEF StartZone, Running, ZonesMove, Values
  <2>3. CASE StopZone
    <3>1. t.plugin = "stop_zone" /\ t.zone \in Zones /\ zones' = zones /\ stopped' = stopped \cup {t.zone}
      BY <1>1, <2>3 DEF StopZone, Running, Fitting
    <3> QED  BY <3>1 DEF ZonesMove, Values
  <2> QED  BY <2>1, <2>2, <2>3
<1> QED  BY <1>2, <1>4, <1>5, <1>6

\* The passive plugins.
LEMMA OtherEffect ==
    ASSUME Values, Phases, Instances, OtherPlugin
    PROVE  Took /\ Processes /\ ZonesMove /\ StreamsMove
<1>1. Took /\ UNCHANGED <<plan, stopped, zones, up, ready, streams, fresh, denied, gaveUp, faults>>
  BY DEF OtherPlugin, Running, Took, sorting, zoneVars, history
<1>2. Head(queue).plugin \in Passive
  BY DEF OtherPlugin, Running
<1>3. Processes
  <2>1. faults' \in 0..MaxFaults
    BY <1>1 DEF Values
  <2> QED  BY <1>1, <1>2, <2>1, StillIs DEF Passive
<1> QED  BY <1>1, <1>2, <1>3 DEF ZonesMove, StreamsMove, Values, Instances, Passive

Plugged ==
    \/ StartProcess \/ HealthCheck \/ StopProcess
    \/ StartInstances \/ StopInstances
    \/ RestartPre \/ StartZone \/ StopZone
    \/ OtherPlugin

\* Every plugin does no more.
LEMMA PluginEffect ==
    ASSUME Values, Phases, Instances, Plugged
    PROVE  Took /\ Processes /\ ZonesMove /\ StreamsMove
BY StartEffect, HealthEffect, StopEffect, InstancesEffect, ZonesEffect, OtherEffect DEF Plugged

-----------------------------------------------------------------------------
(* The invariant after a plugin.                                           *)

\* The sets in which the invariant is stated stay when a plugin was run.
LEMMA TookSets ==
    ASSUME Took
    PROVE  /\ Components' = Components /\ Zones' = Zones /\ Everything' = Everything
           /\ Fitting' = Fitting /\ Ends' = Ends
           /\ \A d : Asks(d)' = Asks(d)
           /\ \A d : Check(d)' = Check(d) /\ Kill(d)' = Kill(d) /\ AllServers(d)' = AllServers(d)
           /\ \A z : StopsZone(z)' = StopsZone(z) /\ StartsZone(z)' = StartsZone(z)
           /\ InstancesStart' = InstancesStart /\ InstancesStop' = InstancesStop
           /\ queue' = Tail(queue)
<1>1. /\ plan' = plan /\ depends' = depends /\ command' = command /\ queue' = Tail(queue)
  BY DEF Took
<1>2. Components' = Components /\ Zones' = Zones
  BY <1>1 DEF Components, Zones
<1>3. \A d : AllServers(d)' = AllServers(d)
  BY <1>2 DEF AllServers
<1>4. Everything' = Everything
  BY <1>2, <1>3 DEF Everything
<1>5. Fitting' = Fitting /\ Ends' = Ends
  BY <1>1, <1>2 DEF Fitting, Ends
<1>6. \A d : Asks(d)' = Asks(d)
  BY <1>1 DEF Asks, Needs, Declares
<1>7. \A d : Check(d)' = Check(d) /\ Kill(d)' = Kill(d)
  BY DEF Check, Kill
<1>8. /\ \A z : StopsZone(z)' = StopsZone(z) /\ StartsZone(z)' = StartsZone(z)
      /\ InstancesStart' = InstancesStart /\ InstancesStop' = InstancesStop
  BY DEF StopsZone, StartsZone, InstancesStart, InstancesStop
<1> QED  BY <1>1, <1>2, <1>3, <1>4, <1>5, <1>6, <1>7, <1>8

\* Each part of the invariant after a plugin was run.
LEMMA TookPhases ==
    ASSUME Values, Phases, Took, Processes, ZonesMove, StreamsMove
    PROVE  Values' /\ Phases'
<1>1. /\ Components' = Components /\ Zones' = Zones /\ Everything' = Everything
      /\ Fitting' = Fitting /\ queue' = Tail(queue)
  BY TookSets
<1>2. queue' \in Seq(Fitting')
  BY <1>1, HeadFits DEF Took
<1>3. Values'
  BY <1>1 DEF Values, Took, Processes, ZonesMove, StreamsMove
<1>4. AllSorted'
  BY <1>1 DEF AllSorted, Phases, Took, DependenciesSorted, DependsDeclared
<1> QED  BY <1>2, <1>3, <1>4 DEF Phases, Took

\* The components are still checked before they are talked to,
LEMMA TookChecked ==
    ASSUME Phases, Took, Processes, Checked
    PROVE  Checked'
<1> SUFFICES ASSUME command # "stop", NEW d \in Components
             PROVE  /\ Kept(queue', Asks(d), Check(d), Kill(d))
                    /\ Closes(queue', Kill(d), Check(d))
                    /\ Whole(d)' \/ Behind(queue', Asks(d), Check(d))
                    /\ Whole(d)' \/ Has(queue', Check(d)) \/ (left # <<>> /\ Head(left) = "start")
  <2>1. /\ Components' = Components /\ command' = command /\ queue' = Tail(queue) /\ left' = left
        /\ \A e : Asks(e)' = Asks(e) /\ Check(e)' = Check(e) /\ Kill(e)' = Kill(e)
    BY TookSets DEF Took
  <2>2. pc' = "run" /\ command' # "stop" => command # "stop"
    BY <2>1
  <2> QED  BY <2>1, <2>2 DEF Checked
<1> DEFINE t == Head(queue)
           s == Tail(queue)
           A == Asks(d)
           B == Check(d)
           C == Kill(d)
<1>1. queue \in Seq(Fitting) /\ queue # <<>> /\ queue' = s
  BY DEF Took, Phases
<1>2. /\ Kept(queue, A, B, C) /\ Closes(queue, C, B)
      /\ Whole(d) \/ Behind(queue, A, B)
      /\ Whole(d) \/ Has(queue, B) \/ (left # <<>> /\ Head(left) = "start")
  BY DEF Checked, Took
<1>3. t \in B => Whole(d)'
  BY DEF Processes
<1>4. t \notin C /\ Whole(d) => Whole(d)'
  BY DEF Processes
<1> HIDE DEF t, s, A, B, C
<1>5. Kept(s, A, B, C) /\ (t \in C => Behind(s, A, B))
  BY <1>1, <1>2, TailKept DEF t, s
<1>6. Closes(s, C, B) /\ (t \in C => Has(s, B))
  BY <1>1, <1>2, TailCloses DEF t, s
<1>7. Behind(queue, A, B) => t \in B \/ Behind(s, A, B)
  BY <1>1, TailBehind DEF t, s
<1>8. Has(queue, B) => t \in B \/ Has(s, B)
  BY <1>1, TailHas DEF t, s
<1> QED  BY <1>1, <1>2, <1>3, <1>4, <1>5, <1>6, <1>7, <1>8 DEF A, B, C

\* still accounted for,
LEMMA TookBounced ==
    ASSUME plan \in Plans, Values, Phases, Took, Processes, Bounced
    PROVE  Bounced'
<1> DEFINE t == Head(queue)
           s == Tail(queue)
<1>1. /\ queue \in Seq(Fitting) /\ queue # <<>> /\ queue' = s /\ t \in Fitting
      /\ Components' = Components /\ command' = command /\ left' = left
      /\ \A d : Kill(d)' = Kill(d) /\ AllServers(d)' = AllServers(d)
  BY TookSets, HeadFits DEF Took, Phases
<1>2. command = "stop" => fresh' = {}
  <2>1. command = "stop" => t.plugin # "start" /\ fresh = {}
    BY <1>1 DEF Fitting, Bounced
  <2> QED  BY <2>1 DEF Processes
<1>3. ASSUME command \in {"stop", "restart"}, NEW d \in Components
      PROVE  Accounted(d)' \/ Has(s, Kill(d)) \/ left # <<>>
  <2>1. Accounted(d) \/ Has(queue, Kill(d)) \/ left # <<>>
    BY <1>3 DEF Bounced, Took
  <2>2. Accounted(d) => Accounted(d)'
    BY <1>1 DEF Accounted, Processes
  <2>3. t \in Kill(d) => Accounted(d)'
    BY <1>1 DEF Accounted, Processes
  <2> HIDE DEF t, s
  <2>4. Has(queue, Kill(d)) => t \in Kill(d) \/ Has(s, Kill(d))
    BY <1>1, TailHas DEF t, s
  <2> QED  BY <2>1, <2>2, <2>3, <2>4
<1>4. \A d : Has(queue', Kill(d)') <=> Has(s, Kill(d))
  BY <1>1
<1> QED  BY <1>1, <1>2, <1>3, <1>4 DEF Bounced

\* the zones still come back,
LEMMA TookZonesBack ==
    ASSUME Values, Phases, Took, ZonesMove, ZonesBack
    PROVE  ZonesBack'
<1> DEFINE t == Head(queue)
           s == Tail(queue)
<1>1. /\ queue \in Seq(Fitting) /\ queue # <<>> /\ queue' = s /\ t \in Fitting
      /\ Zones' = Zones /\ pc = "run"
      /\ \A z : StopsZone(z)' = StopsZone(z) /\ StartsZone(z)' = StartsZone(z)
  BY TookSets, HeadFits DEF Took, Phases
<1>2. ASSUME NEW z \in Zones
      PROVE  Closes(s, StopsZone(z), StartsZone(z)) /\ (t \in StopsZone(z) => Has(s, StartsZone(z)))
  <2>1. Closes(queue, StopsZone(z), StartsZone(z))
    BY <1>1 DEF ZonesBack
  <2> DEFINE A == StopsZone(z)
             B == StartsZone(z)
  <2> HIDE DEF t, s, A, B
  <2>2. Closes(s, A, B) /\ (t \in A => Has(s, B))
    BY <1>1, <2>1, TailCloses DEF t, s, A, B
  <2> QED  BY <2>2 DEF A, B
<1>3. ASSUME zones' # <<>>, NEW z \in stopped'
      PROVE  Has(s, StartsZone(z))
  <2>1. /\ zones' = zones /\ stopped' \subseteq stopped \cup (IF t.plugin = "stop_zone" THEN {t.zone} ELSE {})
        /\ t.plugin = "start_zone" => t.zone \notin stopped'
        /\ z \in Zones
    BY <1>1, <1>3 DEF ZonesMove
  <2>2. CASE z \in stopped
    <3>1. Has(queue, StartsZone(z)) /\ t \notin StartsZone(z)
      BY <1>1, <1>3, <2>1, <2>2 DEF ZonesBack, StartsZone
    <3> HIDE DEF t, s
    <3>2. t \in StartsZone(z) \/ Has(s, StartsZone(z))
      BY <1>1, <3>1, TailHas DEF t, s
    <3> QED  BY <3>1, <3>2
  <2>3. CASE z \notin stopped
    <3>1. t \in StopsZone(z)
      BY <1>1, <1>3, <2>1, <2>3 DEF StopsZone, Fitting
    <3> QED  BY <1>2, <2>1, <3>1
  <2> QED  BY <2>2, <2>3
<1> QED  BY <1>1, <1>2, <1>3 DEF ZonesBack

\* and the instances still end first.
LEMMA TookInstances ==
    ASSUME Phases, Took, StreamsMove, Instances
    PROVE  Instances'
<1> DEFINE t == Head(queue)
           s == Tail(queue)
<1>1. /\ queue \in Seq(Fitting) /\ queue # <<>> /\ queue' = s /\ t \in Fitting
      /\ Components' = Components /\ pc = "run"
      /\ Ends' = Ends /\ InstancesStart' = InstancesStart /\ InstancesStop' = InstancesStop
  BY TookSets, HeadFits DEF Took, Phases
<1>2. streams' => obbinlog \in up'
  BY DEF StreamsMove
<1>3. ASSUME obbinlog \in Components
      PROVE  Never(s, InstancesStart, Ends) /\ (streams' /\ ~gaveUp' => Behind(s, Ends, InstancesStop))
  <2>1. Never(queue, InstancesStart, Ends) /\ (streams /\ ~gaveUp => Behind(queue, Ends, InstancesStop))
    BY <1>1, <1>3 DEF Instances
  <2>2. streams' /\ ~streams => t \in InstancesStart
    BY <1>1 DEF StreamsMove, InstancesStart, Fitting
  <2>3. streams' /\ ~gaveUp' => t \notin InstancesStop /\ ~gaveUp
    BY DEF StreamsMove, InstancesStop
  <2> HIDE DEF t, s
  <2>4. Never(s, InstancesStart, Ends) /\ (t \in InstancesStart => ~Has(s, Ends))
    BY <1>1, <2>1, TailNever DEF t, s
  <2>5. streams /\ ~gaveUp => t \in InstancesStop \/ Behind(s, Ends, InstancesStop)
    BY <1>1, <2>1, TailBehind DEF t, s
  <2>6. ~Has(s, Ends) => Behind(s, Ends, InstancesStop)
    BY DEF Has, Behind
  <2>7. streams' /\ ~gaveUp' => t \notin InstancesStop /\ ~gaveUp /\ (streams \/ t \in InstancesStart)
    BY <2>2, <2>3
  <2> QED  BY <2>4, <2>5, <2>6, <2>7
<1> QED  BY <1>1, <1>2, <1>3 DEF Instances

\* A plugin keeps the invariant.
LEMMA TookKeeps ==
    ASSUME plan \in Plans, RunInv, Took, Processes, ZonesMove, StreamsMove
    PROVE  RunInv'
<1>1. SuccessMeansDone'
  BY DEF RunInv, Phases, Took, SuccessMeansDone
<1> QED  BY <1>1, TookPhases, TookChecked, TookBounced, TookZonesBack, TookInstances DEF RunInv

-----------------------------------------------------------------------------
(* The invariant after the other steps of a command.                       *)

\* A list of plugins that kills nothing.
Harmless(m) == \A i \in DOMAIN m : m[i].plugin \notin {"stop", "stop_zone"}

\* Such a list satisfies what is asked of those that kill.
LEMMA HarmlessIs ==
    ASSUME NEW m, Harmless(m)
    PROVE  /\ \A d : Kept(m, Asks(d), Check(d), Kill(d)) /\ Closes(m, Kill(d), Check(d))
           /\ \A z : Closes(m, StopsZone(z), StartsZone(z))
           /\ Behind(m, Ends, InstancesStop) /\ Never(m, InstancesStart, Ends)
BY DEF Harmless, Kept, Closes, Behind, Never, Kill, StopsZone, Ends

\* Lists of names of workflows, written out.
LEMMA TailTo ==
    ASSUME NEW T, NEW s \in Seq(T), NEW t \in Seq(T),
           Len(s) = Len(t) + 1, \A i \in 1..Len(t) : s[i + 1] = t[i]
    PROVE  s # <<>> /\ Head(s) = s[1] /\ Tail(s) = t
<1>1. s # <<>> /\ Len(t) \in Nat /\ Head(s) = s[1]
  OBVIOUS
<1>2. /\ Tail(s) \in Seq(T) /\ Len(Tail(s)) = Len(t)
      /\ \A i \in 1..Len(Tail(s)) : Tail(s)[i] = t[i]
  BY <1>1, HeadTailProperties
<1> QED  BY <1>1, <1>2, SeqEqual

\* The tail of a list of up to four names.
LEMMA TailsAre ==
    ASSUME NEW T, NEW a \in T, NEW b \in T, NEW c \in T, NEW d \in T
    PROVE  /\ Tail(<<a>>) = <<>> /\ Tail(<<a, b>>) = <<b>>
           /\ Tail(<<a, b, c>>) = <<b, c>> /\ Tail(<<a, b, c, d>>) = <<b, c, d>>
           /\ <<a>> # <<>> /\ <<a, b>> # <<>> /\ <<a, b, c>> # <<>> /\ <<a, b, c, d>> # <<>>
           /\ Head(<<a>>) = a /\ Head(<<a, b>>) = a /\ Head(<<a, b, c>>) = a /\ Head(<<a, b, c, d>>) = a
<1>1. Tail(<<a>>) = <<>> /\ <<a>> # <<>> /\ Head(<<a>>) = a
  OBVIOUS
<1>2. Tail(<<a, b>>) = <<b>> /\ <<a, b>> # <<>> /\ Head(<<a, b>>) = a
  <2> DEFINE s == <<a, b>>
             t == <<b>>
  <2>1. s \in Seq(T) /\ t \in Seq(T) /\ Len(s) = 2 /\ Len(t) = 1 /\ s[1] = a
    OBVIOUS
  <2>2. \A i \in 1..1 : s[i + 1] = t[i]
    OBVIOUS
  <2> HIDE DEF s, t
  <2>3. s # <<>> /\ Head(s) = s[1] /\ Tail(s) = t
    <3>1. Len(s) = Len(t) + 1 /\ \A i \in 1..Len(t) : s[i + 1] = t[i]
      BY <2>1, <2>2
    <3> QED  BY <2>1, <3>1, TailTo
  <2> QED  BY <2>1, <2>3 DEF s, t
<1>3. Tail(<<a, b, c>>) = <<b, c>> /\ <<a, b, c>> # <<>> /\ Head(<<a, b, c>>) = a
  <2> DEFINE s == <<a, b, c>>
             t == <<b, c>>
  <2>1. s \in Seq(T) /\ t \in Seq(T) /\ Len(s) = 3 /\ Len(t) = 2 /\ s[1] = a
    OBVIOUS
  <2>2. \A i \in 1..2 : s[i + 1] = t[i]
    OBVIOUS
  <2> HIDE DEF s, t
  <2>3. s # <<>> /\ Head(s) = s[1] /\ Tail(s) = t
    <3>1. Len(s) = Len(t) + 1 /\ \A i \in 1..Len(t) : s[i + 1] = t[i]
      BY <2>1, <2>2
    <3> QED  BY <2>1, <3>1, TailTo
  <2> QED  BY <2>1, <2>3 DEF s, t
<1>4. Tail(<<a, b, c, d>>) = <<b, c, d>> /\ <<a, b, c, d>> # <<>> /\ Head(<<a, b, c, d>>) = a
  <2> DEFINE s == <<a, b, c, d>>
             t == <<b, c, d>>
  <2>1. s \in Seq(T) /\ t \in Seq(T) /\ Len(s) = 4 /\ Len(t) = 3 /\ s[1] = a
    OBVIOUS
  <2>2. \A i \in 1..3 : s[i + 1] = t[i]
    OBVIOUS
  <2> HIDE DEF s, t
  <2>3. s # <<>> /\ Head(s) = s[1] /\ Tail(s) = t
    <3>1. Len(s) = Len(t) + 1 /\ \A i \in 1..Len(t) : s[i + 1] = t[i]
      BY <2>1, <2>2
    <3> QED  BY <2>1, <3>1, TailTo
  <2> QED  BY <2>1, <2>3 DEF s, t
<1> QED  BY <1>1, <1>2, <1>3, <1>4

\* Which workflow comes next, and what is then left.
LEMMA RemainingNext ==
    ASSUME command \in {"start", "stop", "restart"}, left \in Remaining(command), left # <<>>
    PROVE  /\ Tail(left) \in Remaining(command)
           /\ Head(left) \in {"start", "display", "stop", "restart_pre", "restart"}
           /\ Head(left) = "stop" => command = "stop"
           /\ Head(left) = "restart" => command = "restart"
           /\ command = "stop" => Head(left) = "stop"
           /\ Tail(left) = <<>> => command = "start" \/ Head(left) = command
<1> DEFINE W == {"start", "display", "stop", "restart_pre", "restart"}
<1>1. CASE command = "start"
  <2>1. left \in {<<"start", "display">>, <<"display">>}
    BY <1>1 DEF Remaining
  <2>2. CASE left = <<"start", "display">>
    <3>1. Tail(left) = <<"display">> /\ Head(left) = "start"
      BY <2>2, TailsAre
    <3> QED  BY <1>1, <3>1 DEF Remaining
  <2>3. CASE left = <<"display">>
    <3>1. Tail(left) = <<>> /\ Head(left) = "display"
      BY <2>3, TailsAre
    <3> QED  BY <1>1, <3>1 DEF Remaining
  <2> QED  BY <2>1, <2>2, <2>3
<1>2. CASE command = "stop"
  <2>1. left = <<"stop">>
    BY <1>2 DEF Remaining
  <2>2. Tail(left) = <<>> /\ Head(left) = "stop"
    BY <2>1, TailsAre
  <2> QED  BY <1>2, <2>2 DEF Remaining
<1>3. CASE command = "restart"
  <2>0. /\ "start" \in W /\ "display" \in W /\ "restart_pre" \in W /\ "restart" \in W
    OBVIOUS
  <2> HIDE DEF W
  <2>1. left \in {<<"start", "display", "restart_pre", "restart">>, <<"display", "restart_pre", "restart">>,
                  <<"restart_pre", "restart">>, <<"restart">>}
    BY <1>3 DEF Remaining
  <2>2. CASE left = <<"start", "display", "restart_pre", "restart">>
    <3>1. Tail(left) = <<"display", "restart_pre", "restart">> /\ Head(left) = "start"
      BY <2>0, <2>2, TailsAre
    <3>2. Tail(left) # <<>>
      BY <2>0, <3>1, TailsAre
    <3> QED  BY <1>3, <3>1, <3>2 DEF Remaining
  <2>3. CASE left = <<"display", "restart_pre", "restart">>
    <3>1. Tail(left) = <<"restart_pre", "restart">> /\ Head(left) = "display"
      BY <2>0, <2>3, TailsAre
    <3>2. Tail(left) # <<>>
      BY <2>0, <3>1, TailsAre
    <3> QED  BY <1>3, <3>1, <3>2 DEF Remaining
  <2>4. CASE left = <<"restart_pre", "restart">>
    <3>1. Tail(left) = <<"restart">> /\ Head(left) = "restart_pre"
      BY <2>0, <2>4, TailsAre
    <3>2. Tail(left) # <<>>
      BY <2>0, <3>1, TailsAre
    <3> QED  BY <1>3, <3>1, <3>2 DEF Remaining
  <2>5. CASE left = <<"restart">>
    <3>1. Tail(left) = <<>> /\ Head(left) = "restart"
      BY <2>0, <2>5, TailsAre
    <3> QED  BY <1>3, <3>1 DEF Remaining
  <2> QED  BY <2>1, <2>2, <2>3, <2>4, <2>5
<1> QED  BY <1>1, <1>2, <1>3

\* The plugins of the next workflow.
LEMMA NextQueue ==
    ASSUME RunInv, NextWorkflow
    PROVE  LET m == queue'
           IN  /\ m \in Seq(Fitting)
               /\ Head(left) # "stop" =>
                    \A d \in Components : Kept(m, Asks(d), Check(d), Kill(d)) /\ Closes(m, Kill(d), Check(d))
               /\ Head(left) = "start" =>
                    \A d \in Components : Behind(m, Asks(d), Check(d)) /\ Has(m, Check(d))
               /\ Head(left) \in {"stop", "restart"} => \A d \in Components : Has(m, Kill(d))
               /\ \A z \in Zones : Closes(m, StopsZone(z), StartsZone(z))
               /\ obbinlog \in Components => Behind(m, Ends, InstancesStop) /\ Never(m, InstancesStart, Ends)
<1> DEFINE m == queue'
           name == Head(left)
<1>1. /\ AllSorted /\ left \in Remaining(command) /\ left # <<>> /\ command \in {"start", "stop", "restart"}
      /\ m = Merged([c \in Components |-> TemplateOf(name, c)], sorted) /\ zones \in Seq(Zones)
  BY DEF NextWorkflow, RunInv, Phases, Values
<1>2. /\ name \in {"start", "display", "stop", "restart_pre", "restart"}
      /\ name = "stop" => command = "stop"
      /\ name = "restart" => command = "restart"
      /\ command = "stop" => name = "stop"
  BY <1>1, RemainingNext
<1> HIDE DEF m, name
<1>3. ASSUME m \in Seq(Template),
             \A i \in DOMAIN m : /\ m[i].of \in Components /\ m[i].on \in Components
                                 /\ m[i].plugin = "stop_zone" => m[i].zone \in Zones
                                 /\ m[i].plugin = "start_instances" => m[i].on = obbinlog
                                 /\ m[i].plugin = "update_prometheus" => m[i].of = alertmanager
                                 /\ m[i].plugin \in DatabaseOnly => m[i].of = oceanbase
                                 /\ command = "stop" => m[i].plugin # "start"
      PROVE  m \in Seq(Fitting)
  <2>1. DOMAIN m = 1..Len(m) /\ Len(m) \in Nat /\ m = [i \in 1..Len(m) |-> m[i]]
    BY <1>3
  <2>2. \A i \in DOMAIN m : m[i] \in Template
    BY <1>3
  <2>3. \A i \in 1..Len(m) : m[i] \in Fitting
    BY <1>3, <2>1, <2>2 DEF Fitting
  <2> QED  BY <2>1, <2>3
<1>4. CASE name = "start"
  <2>1. m = Merged(Starting, sorted)
    BY <1>1, <1>4 DEF TemplateOf, Starting
  <2>2. /\ m \in Seq(Template)
        /\ \A i \in DOMAIN m : /\ m[i].of \in Components /\ m[i].on \in Components
                               /\ m[i].plugin \in {"start", "health_check", "start_instances"} \cup Passive
                               /\ m[i].plugin = "start_instances" => m[i].of = obbinlog /\ m[i].on = obbinlog
                               /\ m[i].plugin = "update_prometheus" => m[i].of = alertmanager
                               /\ m[i].plugin \notin DatabaseOnly
        /\ \A d \in Components : Behind(m, Asks(d), Check(d)) /\ Has(m, Check(d))
    BY <1>1, <2>1, StartMerged
  <2>3. Harmless(m)
    BY <2>2 DEF Harmless, Passive
  <2>4. m \in Seq(Fitting)
    BY <1>2, <1>3, <1>4, <2>2, <2>3 DEF Harmless
  <2> QED  BY <1>4, <2>2, <2>3, <2>4, HarmlessIs DEF m, name
<1>5. CASE name \in {"display", "restart_pre"}
  <2> DEFINE wf == [c \in Components |-> TemplateOf(name, c)]
  <2>1. \A c \in Components : QuietWorkflow(c, wf[c])
    <3>1. Components \subseteq Modelled
      BY <1>1, ComponentsModelled DEF AllSorted
    <3>2. ASSUME NEW c \in Components PROVE QuietWorkflow(c, TemplateOf(name, c))
      <4>1. CASE name = "display"
        BY <3>1, <4>1, DisplayIs DEF TemplateOf
      <4>2. CASE name = "restart_pre"
        BY <3>1, <4>2, RestartPreIs DEF TemplateOf
      <4> QED  BY <1>5, <4>1, <4>2
    <3> QED  BY <3>2
  <2>2. wf \in Workflows
    <3>1. \A c \in Components : TemplateOf(name, c) \in [ToSet(Stages) -> Seq(Plugin)]
      BY <2>1 DEF QuietWorkflow
    <3> QED  BY <3>1 DEF Workflows
  <2>3. m = Merged(wf, sorted)
    BY <1>1
  <2> HIDE DEF wf
  <2>4. /\ m \in Seq(Template)
        /\ \A i \in DOMAIN m : /\ m[i].of \in Components /\ m[i].on \in Components
                               /\ m[i].plugin \in {"status_check", "connect", "restart_pre"}
                               /\ m[i].plugin = "restart_pre" => m[i].of = oceanbase
    BY <1>1, <2>1, <2>2, <2>3, QuietMerged
  <2>5. Harmless(m) /\ m \in Seq(Fitting)
    BY <1>3, <2>4 DEF Harmless, DatabaseOnly
  <2> QED  BY <1>5, <2>5, HarmlessIs DEF m, name
<1>6. CASE name = "stop"
  <2>1. m = Merged(Stopping, sorted)
    BY <1>1, <1>6 DEF TemplateOf, Stopping
  <2>2. /\ m \in Seq(Template)
        /\ \A i \in DOMAIN m : /\ m[i].of \in Components /\ m[i].on \in Components
                               /\ m[i].plugin \in {"connect", "stop", "stop_instances"}
        /\ \A d \in Components : Has(m, Kill(d))
        /\ obbinlog \in Components => Behind(m, Ends, InstancesStop)
    BY <1>1, <2>1, StopMerged
  <2>3. m \in Seq(Fitting)
    BY <1>3, <2>2 DEF DatabaseOnly
  <2>4. \A z : Closes(m, StopsZone(z), StartsZone(z))
    BY <2>2 DEF Closes, StopsZone
  <2>5. Never(m, InstancesStart, Ends)
    BY <2>2 DEF Never, InstancesStart
  <2> QED  BY <1>6, <2>2, <2>3, <2>4, <2>5 DEF m, name
<1>7. CASE name = "restart"
  <2>1. m = Merged(Restarting, sorted) /\ command = "restart"
    BY <1>1, <1>2, <1>7 DEF TemplateOf, Restarting
  <2>2. /\ m \in Seq(Template)
        /\ \A i \in DOMAIN m : /\ m[i].of \in Components /\ m[i].on \in Components
                               /\ m[i].plugin # "restart_pre"
                               /\ m[i].plugin = "stop_zone" => m[i].zone \in Zones
                               /\ m[i].plugin = "start_instances" => m[i].on = obbinlog
                               /\ m[i].plugin = "update_prometheus" => m[i].of = alertmanager
                               /\ m[i].plugin \in DatabaseOnly => m[i].of = oceanbase
        /\ \A d \in Components : /\ Kept(m, Asks(d), Check(d), Kill(d))
                                 /\ Closes(m, Kill(d), Check(d)) /\ Has(m, Kill(d))
        /\ \A z \in Zones : Closes(m, StopsZone(z), StartsZone(z))
        /\ obbinlog \in Components => Behind(m, Ends, InstancesStop) /\ Never(m, InstancesStart, Ends)
    BY <1>1, <2>1, RestartMerged
  <2>3. m \in Seq(Fitting)
    BY <1>3, <2>1, <2>2
  <2> QED  BY <1>7, <2>2, <2>3 DEF m, name
<1> QED  BY <1>2, <1>4, <1>5, <1>6, <1>7

\* The next workflow keeps the invariant.
LEMMA WorkflowKeeps ==
    ASSUME RunInv, NextWorkflow
    PROVE  RunInv'
<1> DEFINE m == queue'
<1>1. /\ pc = "run" /\ queue = <<>> /\ left # <<>> /\ left' = Tail(left) /\ servers' = Zones
      /\ UNCHANGED <<plan, depends, pc, todo, again, sorted, command, result, zones, stopped, up, ready,
                     streams, fresh, denied, gaveUp, faults>>
  BY DEF NextWorkflow, sorting, zoneVars, history
<1>2. /\ Components' = Components /\ Zones' = Zones /\ Everything' = Everything
      /\ Fitting' = Fitting /\ Ends' = Ends
      /\ \A d : Asks(d)' = Asks(d)
      /\ \A d : Check(d)' = Check(d) /\ Kill(d)' = Kill(d) /\ AllServers(d)' = AllServers(d)
      /\ \A z : StopsZone(z)' = StopsZone(z) /\ StartsZone(z)' = StartsZone(z)
      /\ InstancesStart' = InstancesStart /\ InstancesStop' = InstancesStop
  <2>1. Components' = Components /\ Zones' = Zones
    BY <1>1 DEF Components, Zones
  <2>2. \A d : AllServers(d)' = AllServers(d)
    BY <2>1 DEF AllServers
  <2>3. Everything' = Everything
    BY <2>1, <2>2 DEF Everything
  <2>4. Fitting' = Fitting /\ Ends' = Ends
    BY <1>1, <2>1 DEF Fitting, Ends
  <2>5. \A d : Asks(d)' = Asks(d)
    BY <1>1 DEF Asks, Needs, Declares
  <2>6. \A d : Check(d)' = Check(d) /\ Kill(d)' = Kill(d)
    BY DEF Check, Kill
  <2>7. /\ \A z : StopsZone(z)' = StopsZone(z) /\ StartsZone(z)' = StartsZone(z)
        /\ InstancesStart' = InstancesStart /\ InstancesStop' = InstancesStop
    BY DEF StopsZone, StartsZone, InstancesStart, InstancesStop
  <2> QED  BY <2>1, <2>2, <2>3, <2>4, <2>5, <2>6, <2>7
<1>3. /\ AllSorted /\ left \in Remaining(command) /\ command \in {"start", "stop", "restart"}
      /\ result = "none" /\ Values
  BY <1>1 DEF RunInv, Phases
<1>4. /\ left' \in Remaining(command)
      /\ command = "stop" => Head(left) = "stop"
      /\ Head(left) = "stop" => command = "stop"
      /\ left' = <<>> => command = "start" \/ Head(left) = command
  BY <1>1, <1>3, RemainingNext
<1>5. /\ m \in Seq(Fitting)
      /\ Head(left) # "stop" =>
           \A d \in Components : Kept(m, Asks(d), Check(d), Kill(d)) /\ Closes(m, Kill(d), Check(d))
      /\ Head(left) = "start" =>
           \A d \in Components : Behind(m, Asks(d), Check(d)) /\ Has(m, Check(d))
      /\ Head(left) \in {"stop", "restart"} => \A d \in Components : Has(m, Kill(d))
      /\ \A z \in Zones : Closes(m, StopsZone(z), StartsZone(z))
      /\ obbinlog \in Components => Behind(m, Ends, InstancesStop) /\ Never(m, InstancesStart, Ends)
  BY NextQueue
<1>6. ~\E d : Has(queue, Check(d)) \/ Has(queue, Kill(d)) \/ Has(queue, StartsZone(d))
  BY <1>1 DEF Has
<1>7. Values'
  BY <1>1, <1>2, <1>3 DEF Values
<1>8. Phases'
  <2>1. AllSorted'
    BY <1>1, <1>2, <1>3 DEF AllSorted, DependenciesSorted, DependsDeclared
  <2>2. Remaining(command)' = Remaining(command)
    BY <1>1
  <2> QED  BY <1>1, <1>2, <1>3, <1>4, <1>5, <2>1, <2>2 DEF Phases
<1>9. Checked'
  <2> SUFFICES ASSUME command # "stop", NEW d \in Components
               PROVE  /\ Kept(m, Asks(d), Check(d), Kill(d)) /\ Closes(m, Kill(d), Check(d))
                      /\ Whole(d)' \/ Behind(m, Asks(d), Check(d))
                      /\ Whole(d)' \/ Has(m, Check(d))
    BY <1>1, <1>2 DEF Checked
  <2>1. Head(left) # "stop"
    BY <1>4
  <2>2. Whole(d) \/ Has(queue, Check(d)) \/ Head(left) = "start"
    BY <1>1 DEF RunInv, Checked
  <2>3. Whole(d) => Whole(d)'
    BY <1>1, <1>2 DEF Whole
  <2> HIDE DEF m
  <2> QED  BY <1>5, <1>6, <2>1, <2>2, <2>3
<1>10. Bounced'
  <2>1. command = "stop" => fresh' = {}
    BY <1>1 DEF RunInv, Bounced
  <2>2. ASSUME command \in {"stop", "restart"}, NEW d \in Components
        PROVE  Has(m, Kill(d)) \/ left' # <<>>
    BY <1>4, <1>5, <2>2
  <2> QED  BY <1>1, <1>2, <2>1, <2>2 DEF Bounced
<1>11. ZonesBack'
  <2>1. zones' # <<>> => stopped' = {}
    BY <1>1, <1>6 DEF RunInv, ZonesBack
  <2> QED  BY <1>2, <1>5, <2>1 DEF ZonesBack
<1>12. Instances'
  BY <1>1, <1>2, <1>5 DEF RunInv, Instances
<1>13. SuccessMeansDone'
  BY <1>1, <1>3 DEF SuccessMeansDone
<1> QED  BY <1>7, <1>8, <1>9, <1>10, <1>11, <1>12, <1>13 DEF RunInv

\* At first no command runs.
LEMMA RunInit == Init => RunInv
<1> SUFFICES ASSUME Init PROVE RunInv
  OBVIOUS
<1>1. plan \in Plans /\ MaxFaults \in Nat
  BY ScheduleAssumption DEF Init
<1>2. plan.zones \in Seq(Zones) /\ Zones # {} /\ obbinlog \notin Zones
  BY <1>1, ComponentsModelled DEF Modelled
<1>3. plan.zones[1] \in Zones
  <2>1. plan.zones # <<>>
    BY <1>1, ScheduleAssumption
  <2> QED  BY <1>2, <2>1
<1>4. Values
  <2>1. streams \in BOOLEAN /\ gaveUp \in BOOLEAN
    <3>1. streams \in BOOLEAN
      BY DEF Init
    <3>2. gaveUp = FALSE
      BY DEF Init
    <3>3. gaveUp \in BOOLEAN
      BY ONLY <3>2
    <3> QED  BY <3>1, <3>3
  <2>2. /\ servers = Zones /\ zones = <<>> /\ stopped \in {{}, {plan.zones[1]}}
        /\ up \subseteq Everything /\ ready \subseteq Components
        /\ fresh = {} /\ denied = {} /\ faults = 0
    BY DEF Init, Everything
  <2> QED  BY ONLY <1>1, <1>3, <2>1, <2>2 DEF Values
<1>5. Phases
  BY DEF Init, Phases
<1> QED  BY <1>4, <1>5 DEF Init, RunInv, Checked, Bounced, ZonesBack, Instances, SuccessMeansDone

\* Before a command begins.
LEMMA BeforeKeeps ==
    ASSUME RunInv, Load \/ SortOne \/ SortAgain
    PROVE  RunInv'
<1>1. /\ pc \in {"load", "sort"} /\ pc' = "sort"
      /\ UNCHANGED <<plan, command, left, queue, result, servers, zones, stopped, up, ready, streams,
                     fresh, denied, faults>>
  BY DEF Load, SortOne, SortAgain, engine, zoneVars, history
<1>0. UNCHANGED <<gaveUp, streams>>
  BY DEF Load, SortOne, SortAgain, history
<1>2. Components' = Components /\ Zones' = Zones
  BY <1>1 DEF Components, Zones
<1>3. \A c : AllServers(c)' = AllServers(c)
  BY <1>2 DEF AllServers
<1>4. Everything' = Everything
  BY <1>2, <1>3 DEF Everything
<1>5. Values'
  <2>1. gaveUp' \in BOOLEAN /\ streams' \in BOOLEAN
    <3>1. gaveUp \in BOOLEAN /\ streams \in BOOLEAN
      BY DEF RunInv, Values
    <3> QED  BY ONLY <3>1, <1>0
  <2>2. UNCHANGED <<servers, zones, stopped, up, ready, fresh, denied, faults>> /\ Values
    BY <1>1 DEF RunInv
  <2> QED  BY ONLY <1>2, <1>4, <2>1, <2>2 DEF Values
<1>6. /\ command = "none" /\ left = <<>> /\ queue = <<>> /\ zones = <<>> /\ result = "none"
      /\ fresh = {} /\ denied = {}
      /\ ready = {c \in Components : AllServers(c) \subseteq up}
  BY <1>1 DEF RunInv, Phases
<1>7. Phases'
  BY <1>1, <1>2, <1>3, <1>6 DEF Phases
<1>8. Instances'
  BY <1>1, <1>2 DEF RunInv, Instances
<1> QED  BY <1>1, <1>5, <1>6, <1>7, <1>8 DEF RunInv, Checked, Bounced, ZonesBack, SuccessMeansDone

\* A command's workflows, of which a start of what does not run comes first.
LEMMA NamesAre ==
    ASSUME NEW cmd \in {"start", "stop", "restart"}
    PROVE  /\ WorkflowNames(cmd) \in Remaining(cmd) /\ WorkflowNames(cmd) # <<>>
           /\ cmd = "start" \/ (cmd = "restart" /\ up # Everything) => Head(WorkflowNames(cmd)) = "start"
<1> DEFINE W == {"start", "display", "stop", "restart_pre", "restart"}
<1>0. "start" \in W /\ "display" \in W /\ "restart_pre" \in W /\ "restart" \in W /\ "stop" \in W
  OBVIOUS
<1> HIDE DEF W
<1>1. CASE cmd = "start"
  <2>1. WorkflowNames(cmd) = <<"start", "display">>
    BY <1>1 DEF WorkflowNames
  <2>2. WorkflowNames(cmd) # <<>> /\ Head(WorkflowNames(cmd)) = "start"
    BY <1>0, <2>1, TailsAre
  <2> QED  BY <1>1, <2>1, <2>2 DEF Remaining
<1>2. CASE cmd = "stop"
  <2>1. WorkflowNames(cmd) = <<"stop">>
    BY <1>2 DEF WorkflowNames
  <2>2. WorkflowNames(cmd) # <<>>
    BY <1>0, <2>1, TailsAre
  <2> QED  BY <1>2, <2>1, <2>2 DEF Remaining
<1>3. CASE cmd = "restart" /\ up = Everything
  <2>1. WorkflowNames(cmd) = <<>> \o <<"restart_pre", "restart">>
    BY <1>3 DEF WorkflowNames
  <2>2. <<>> \o <<"restart_pre", "restart">> = <<"restart_pre", "restart">>
    <3> DEFINE s == <<"restart_pre", "restart">>
    <3>1. s \in Seq(W)
      BY <1>0
    <3> HIDE DEF s
    <3>2. <<>> \o s = s
      BY <3>1, ConcatEmptySeq
    <3> QED  BY <3>2 DEF s
  <2>3. WorkflowNames(cmd) # <<>>
    BY <1>0, <2>1, <2>2, TailsAre
  <2> QED  BY <1>3, <2>1, <2>2, <2>3 DEF Remaining
<1>4. CASE cmd = "restart" /\ up # Everything
  <2>1. WorkflowNames(cmd) = <<"start", "display">> \o <<"restart_pre", "restart">>
    BY <1>4 DEF WorkflowNames
  <2>2. <<"start", "display">> \o <<"restart_pre", "restart">> = <<"start", "display", "restart_pre", "restart">>
    <3> DEFINE x == <<"start", "display">>
               y == <<"restart_pre", "restart">>
               z == <<"start", "display", "restart_pre", "restart">>
    <3>1. /\ x \in Seq(W) /\ y \in Seq(W) /\ z \in Seq(W)
          /\ Len(x) = 2 /\ Len(y) = 2 /\ Len(z) = 4
      BY <1>0
    <3>2. (\A i \in 1..2 : z[i] = x[i]) /\ \A i \in 1..2 : z[2 + i] = y[i]
      OBVIOUS
    <3>3. x \o y = z
      <4> HIDE DEF x, y, z
      <4>1. Len(z) = Len(x) + Len(y)
        BY <3>1
      <4>2. (\A i \in 1..Len(x) : z[i] = x[i]) /\ \A i \in 1..Len(y) : z[Len(x) + i] = y[i]
        BY <3>1, <3>2
      <4> QED  BY <3>1, <4>1, <4>2, Joined
    <3> QED  BY <3>3
  <2>3. WorkflowNames(cmd) # <<>> /\ Head(WorkflowNames(cmd)) = "start"
    BY <1>0, <2>1, <2>2, TailsAre
  <2> QED  BY <1>4, <2>1, <2>2, <2>3 DEF Remaining
<1> QED  BY <1>1, <1>2, <1>3, <1>4

\* A command begins.
LEMMA BeginKeeps ==
    ASSUME SortInv, RunInv, NEW cmd \in {"start", "stop", "restart"}, Begin(cmd)
    PROVE  RunInv'
<1>1. /\ pc = "sort" /\ pc' = "run" /\ command' = cmd /\ left' = WorkflowNames(cmd)
      /\ todo = <<>> /\ again = <<>>
      /\ UNCHANGED <<plan, depends, todo, again, sorted, queue, result, servers, zones, stopped, up, ready,
                     streams, fresh, denied, gaveUp, faults>>
  BY DEF Begin, sorting, zoneVars, history
<1>2. Components' = Components /\ Zones' = Zones
  BY <1>1 DEF Components, Zones
<1>3. \A c : AllServers(c)' = AllServers(c)
  BY <1>2 DEF AllServers
<1>4. Everything' = Everything
  BY <1>2, <1>3 DEF Everything
<1>5. Values'
  BY <1>1, <1>2, <1>4 DEF RunInv, Values
<1>6. /\ queue = <<>> /\ zones = <<>> /\ result = "none" /\ fresh = {} /\ denied = {}
      /\ ready = {c \in Components : AllServers(c) \subseteq up}
  BY <1>1 DEF RunInv, Phases
<1>7. AllSorted
  <2>1. ToSet(<<>>) = {}
    BY DEF ToSet
  <2> QED  BY <1>1, <2>1 DEF SortInv, ListsOK, Split, AllSorted
<1>8. AllSorted'
  BY <1>1, <1>2, <1>7 DEF AllSorted, DependenciesSorted, DependsDeclared
<1>9. /\ left' \in Remaining(cmd) /\ left' # <<>>
      /\ cmd = "start" \/ (cmd = "restart" /\ up # Everything) => Head(left') = "start"
  BY <1>1, NamesAre
<1>10. Phases'
  <2>1. Remaining(command)' = Remaining(cmd)
    BY <1>1
  <2> QED  BY <1>1, <1>6, <1>8, <1>9, <2>1 DEF Phases
<1>11. Checked'
  <2>1. \A d : Behind(<<>>, Asks(d)', Check(d)') /\ Kept(<<>>, Asks(d)', Check(d)', Kill(d)')
               /\ Closes(<<>>, Kill(d)', Check(d)')
    BY DEF Behind, Kept, Closes
  <2>2. ASSUME cmd = "restart", up = Everything, NEW d \in Components PROVE Whole(d)'
    <3>1. AllServers(d) \subseteq Everything
      BY DEF Everything
    <3> QED  BY <1>1, <1>3, <1>6, <2>2, <3>1 DEF Whole
  <2>3. cmd # "stop" => (left' # <<>> /\ Head(left') = "start") \/ (cmd = "restart" /\ up = Everything)
    BY <1>9
  <2> QED  BY <1>1, <1>2, <1>6, <2>1, <2>2, <2>3 DEF Checked
<1>12. Bounced'
  BY <1>1, <1>6, <1>9 DEF Bounced
<1>13. ZonesBack'
  BY <1>1, <1>6 DEF ZonesBack, Closes
<1>14. Instances'
  BY <1>1, <1>2, <1>6 DEF RunInv, Instances, Behind, Never
<1> QED  BY <1>1, <1>5, <1>6, <1>10, <1>11, <1>12, <1>13, <1>14 DEF RunInv, SuccessMeansDone

\* A command ends with every component whole, or accounted for.
LEMMA SucceedKeeps ==
    ASSUME RunInv, Succeed
    PROVE  RunInv'
<1>1. /\ pc = "run" /\ queue = <<>> /\ left = <<>> /\ pc' = "done" /\ result' = "succeeded"
      /\ queue' = <<>> /\ left' = <<>>
      /\ UNCHANGED <<plan, depends, todo, again, sorted, command, servers, zones, stopped, up, ready,
                     streams, fresh, denied, gaveUp, faults>>
  BY DEF Succeed, EndWith, sorting, zoneVars, history
<1>2. Components' = Components /\ Zones' = Zones
  BY <1>1 DEF Components, Zones
<1>3. \A c : AllServers(c)' = AllServers(c)
  BY <1>2 DEF AllServers
<1>4. Everything' = Everything
  BY <1>2, <1>3 DEF Everything
<1>5. Values' /\ Phases'
  BY <1>1, <1>2, <1>4 DEF RunInv, Values, Phases
<1>6. ~\E A : Has(queue, A)
  BY <1>1 DEF Has
<1>7. command # "stop" => up = Everything /\ ready = Components
  <2> SUFFICES ASSUME command # "stop" PROVE up = Everything /\ ready = Components
    OBVIOUS
  <2>1. \A d \in Components : Whole(d)
    BY <1>1, <1>6 DEF RunInv, Checked
  <2>2. Components \subseteq ready /\ Everything \subseteq up
    BY <2>1 DEF Whole, Everything
  <2> QED  BY <2>2 DEF RunInv, Values
<1>8. command \in {"stop", "restart"} => up \subseteq fresh \cup denied
  <2> SUFFICES ASSUME command \in {"stop", "restart"} PROVE up \subseteq fresh \cup denied
    OBVIOUS
  <2>1. \A d \in Components : Accounted(d)
    BY <1>1, <1>6 DEF RunInv, Bounced
  <2> QED  BY <2>1 DEF Accounted, RunInv, Values, Everything
<1>9. command = "stop" => fresh = {}
  BY DEF RunInv, Bounced
<1>10. zones # <<>> => stopped = {}
  BY <1>1, <1>6 DEF RunInv, ZonesBack
<1>11. SuccessMeansDone'
  BY <1>1, <1>2, <1>4, <1>7, <1>8, <1>9, <1>10 DEF SuccessMeansDone
<1> QED  BY <1>1, <1>5, <1>11 DEF RunInv, Checked, Bounced, ZonesBack, Instances

\* While the instances run and obd did not give up on them, the next plugin does not
\* kill what they need.
LEMMA InstancesSafe ==
    ASSUME RunInv, pc = "run", queue # <<>>, streams, ~gaveUp,
           \A s \in up \ up' : Head(queue).plugin = "stop" /\ s \in AllServers(Head(queue).on)
    PROVE  /\ obbinlog \in up'
           /\ command = "stop" \/ oceanbase \in depends[obbinlog] => Zones \cap up \subseteq up'
<1> DEFINE t == Head(queue)
<1>1. plan \in Plans /\ obbinlog \in up /\ up \subseteq Everything /\ queue \in Seq(Fitting)
  BY DEF RunInv, Phases, AllSorted, Instances, Values
<1>2. obbinlog \in Components
  BY <1>1, ServersApart
<1>3. Behind(queue, Ends, InstancesStop)
  BY <1>2 DEF RunInv, Instances
<1>4. t \notin Ends
  BY <1>1, <1>3, TailBehind
<1>5. t \in Template /\ t.on \in Components
  BY <1>1, TailIs DEF Fitting
<1>6. /\ AllServers(obbinlog) = {obbinlog} /\ AllServers(oceanbase) = Zones
      /\ t.on # obbinlog => AllServers(t.on) \cap {obbinlog} = {}
      /\ t.on # oceanbase => AllServers(t.on) \cap Zones = {}
  <2> HIDE DEF t
  <2>1. /\ \A c, d \in Components : c # d => AllServers(c) \cap AllServers(d) = {}
        /\ AllServers(obbinlog) = {obbinlog} /\ AllServers(oceanbase) = Zones
    BY <1>1, ServersApart
  <2>2. Components \subseteq Modelled /\ Zones \cap Modelled = {}
    BY <1>1, ComponentsModelled
  <2>3. t.on # oceanbase => AllServers(t.on) = {t.on}
    BY DEF AllServers
  <2> QED  BY <1>2, <1>5, <2>1, <2>2, <2>3
<1>8. t.plugin = "stop" => /\ t.on # obbinlog
                           /\ command = "stop" \/ oceanbase \in depends[obbinlog] => t.on # oceanbase
  BY <1>4, <1>5 DEF Ends
<1> QED  BY <1>1, <1>6, <1>8

\* A command that ends with a failure.
FailsWith ==
    /\ pc = "run" /\ queue # <<>> /\ pc' = "done" /\ result' = "failed" /\ queue' = <<>> /\ left' = <<>>
    /\ up' \subseteq Everything /\ faults' \in 0..MaxFaults
    /\ \A s \in up \ up' : Head(queue).plugin = "stop" /\ s \in AllServers(Head(queue).on)
    /\ streams' = (streams /\ obbinlog \in up')
    /\ UNCHANGED <<plan, depends, todo, again, sorted, command, servers, zones, stopped, ready,
                   fresh, denied, gaveUp>>

\* Both ends of a command that fails are such an end.
LEMMA RefusesOrFails ==
    ASSUME RunInv, PluginRefuses \/ PluginFails
    PROVE  FailsWith
<1>1. CASE PluginRefuses
  <2>1. streams' = (streams /\ obbinlog \in up')
    BY <1>1 DEF PluginRefuses, RunInv, Values, Instances
  <2> QED  BY <1>1, <2>1 DEF PluginRefuses, EndWith, FailsWith, sorting, zoneVars, history, RunInv, Values
<1>2. CASE PluginFails
  <2> DEFINE t == Head(queue)
  <2>1. PICK some \in SUBSET ServersOf(t.on) :
          up' = CASE t.plugin = "start" -> up \cup some
                  [] t.plugin = "stop"  -> up \ some
                  [] OTHER              -> up
    BY <1>2 DEF PluginFails
  <2>2. plan \in Plans /\ t.on \in Components
    <3>1. pc = "run" /\ queue # <<>> /\ Phases
      BY <1>2 DEF PluginFails, RunInv
    <3>2. t \in Fitting
      BY <3>1, HeadFits
    <3> QED  BY <3>1, <3>2 DEF Phases, AllSorted, Fitting
  <2>3. ServersOf(t.on) = AllServers(t.on) /\ AllServers(t.on) \subseteq Everything
    <3>1. \A c \in Components : AllServers(c) \subseteq Everything
      BY <2>2, ServersApart
    <3>2. ServersOf(t.on) = AllServers(t.on)
      BY ServersAll DEF RunInv
    <3> QED  BY <2>2, <3>1, <3>2
  <2>4. up' \subseteq Everything /\ \A s \in up \ up' : t.plugin = "stop" /\ s \in AllServers(t.on)
    <3>1. up \subseteq Everything
      BY DEF RunInv, Values
    <3> QED  BY <2>1, <2>3, <3>1
  <2>5. faults' \in 0..MaxFaults
    BY <1>2, ScheduleAssumption DEF PluginFails, RunInv, Values
  <2> QED  BY <1>2, <2>4, <2>5 DEF PluginFails, EndWith, FailsWith, sorting, zoneVars
<1> QED  BY <1>1, <1>2

\* A failure keeps the invariant.
LEMMA FailureKeeps ==
    ASSUME RunInv, FailsWith
    PROVE  RunInv'
<1>1. Components' = Components /\ Zones' = Zones
  BY DEF FailsWith, Components, Zones
<1>2. \A c : AllServers(c)' = AllServers(c)
  BY <1>1 DEF AllServers
<1>3. Everything' = Everything
  BY <1>1, <1>2 DEF Everything
<1>4. Values' /\ Phases'
  BY <1>1, <1>3 DEF RunInv, Values, Phases, FailsWith
<1>5. streams' => obbinlog \in up'
  BY DEF FailsWith
<1> QED  BY <1>4, <1>5 DEF FailsWith, RunInv, Checked, Bounced, ZonesBack, Instances, SuccessMeansDone

\* So does a step that changes nothing.
LEMMA RunStutters ==
    ASSUME RunInv, UNCHANGED vars
    PROVE  RunInv'
<1>1. UNCHANGED <<plan, depends, pc, todo, again, sorted, command, left, queue, result, servers, zones, stopped,
                  up, ready, streams, fresh, denied, gaveUp, faults>>
  BY DEF vars, sorting, engine, zoneVars, history
<1>2. Components' = Components /\ Zones' = Zones
  BY <1>1 DEF Components, Zones
<1>3. \A c : AllServers(c)' = AllServers(c)
  BY <1>2 DEF AllServers
<1>4. Everything' = Everything
  BY <1>2, <1>3 DEF Everything
<1>5. Fitting' = Fitting /\ Ends' = Ends
  BY <1>1, <1>2 DEF Fitting, Ends
<1>6. \A d : Asks(d)' = Asks(d)
  BY <1>1 DEF Asks, Needs, Declares
<1>7. /\ \A d : Check(d)' = Check(d) /\ Kill(d)' = Kill(d)
      /\ \A z : StopsZone(z)' = StopsZone(z) /\ StartsZone(z)' = StartsZone(z)
      /\ InstancesStart' = InstancesStart /\ InstancesStop' = InstancesStop
  BY DEF Check, Kill, StopsZone, StartsZone, InstancesStart, InstancesStop
<1>8. \A d : (Whole(d)' <=> Whole(d)) /\ (Accounted(d)' <=> Accounted(d))
  BY <1>1, <1>3 DEF Whole, Accounted
<1>9. Values'
  BY <1>1, <1>2, <1>4 DEF RunInv, Values
<1>10. Phases'
  <2>1. AllSorted <=> AllSorted'
    BY <1>1, <1>2 DEF AllSorted, DependenciesSorted, DependsDeclared
  <2>2. {c \in Components' : AllServers(c)' \subseteq up} = {c \in Components : AllServers(c) \subseteq up}
    BY <1>2, <1>3
  <2> QED  BY <1>1, <1>2, <1>5, <2>1, <2>2 DEF RunInv, Phases
<1>11. Checked'
  BY <1>1, <1>2, <1>6, <1>7, <1>8 DEF RunInv, Checked
<1>12. Bounced'
  BY <1>1, <1>2, <1>7, <1>8 DEF RunInv, Bounced
<1>13. ZonesBack' /\ Instances'
  BY <1>1, <1>2, <1>5, <1>7 DEF RunInv, ZonesBack, Instances
<1>14. SuccessMeansDone'
  BY <1>1, <1>2, <1>4 DEF RunInv, SuccessMeansDone
<1> QED  BY <1>9, <1>10, <1>11, <1>12, <1>13, <1>14 DEF RunInv

-----------------------------------------------------------------------------
(* The theorems.                                                           *)

ScheduleInv == SortInv /\ RunInv

\* The invariant is inductive,
LEMMA ScheduleStep == ScheduleInv /\ [Next]_vars => ScheduleInv'
<1> SUFFICES ASSUME SortInv, RunInv, [Next]_vars PROVE SortInv' /\ RunInv'
  BY DEF ScheduleInv
<1>1. SortInv'
  BY SortStep
<1>2. CASE Load \/ SortOne \/ SortAgain
  BY <1>1, <1>2, BeforeKeeps
<1>3. CASE Begin("start") \/ Begin("stop") \/ Begin("restart")
  BY <1>1, <1>3, BeginKeeps
<1>4. CASE NextWorkflow
  BY <1>1, <1>4, WorkflowKeeps
<1>5. CASE Succeed
  BY <1>1, <1>5, SucceedKeeps
<1>6. CASE Plugged
  <2>1. Took /\ Processes /\ ZonesMove /\ StreamsMove
    BY <1>6, PluginEffect DEF RunInv
  <2> QED  BY <1>1, <2>1, TookKeeps DEF SortInv
<1>7. CASE PluginRefuses \/ PluginFails
  BY <1>1, <1>7, RefusesOrFails, FailureKeeps
<1>8. CASE UNCHANGED vars
  BY <1>1, <1>8, RunStutters
<1> QED  BY <1>2, <1>3, <1>4, <1>5, <1>6, <1>7, <1>8 DEF Next, Plugged

\* and holds always.
LEMMA ScheduleAlways == Spec => []ScheduleInv
<1>1. Init => ScheduleInv
  BY SortInit, RunInit DEF ScheduleInv
<1> QED  BY <1>1, ScheduleStep, PTL DEF Spec

\* The lists, the commands and their workflows, the servers and the zones are what they
\* are meant to be, and no plugin is called for a component that the deployment does not
\* have: a template that calls plugins of the database relies on there being one.
THEOREM ScheduleTypeCorrect == Spec => []TypeOK
<1>1. ScheduleInv => TypeOK
  <2> SUFFICES ASSUME ScheduleInv PROVE TypeOK
    OBVIOUS
  <2>1. SortInv /\ Values /\ Phases
    BY DEF ScheduleInv, RunInv
  <2>2. plan.order \in Seq(Kinds)
    BY <2>1, ScheduleAssumption DEF SortInv
  <2>3. command \in {"none", "start", "stop", "restart"} /\ result \in {"none", "failed", "succeeded"}
    BY <2>1 DEF Phases
  <2>4. left \in Seq({"start", "display", "stop", "restart_pre", "restart"})
    <3>1. left = <<>> \/ (command \in {"start", "stop", "restart"} /\ left \in Remaining(command))
      BY <2>1 DEF Phases
    <3> DEFINE W == {"start", "display", "stop", "restart_pre", "restart"}
    <3>2. "start" \in W /\ "display" \in W /\ "stop" \in W /\ "restart_pre" \in W /\ "restart" \in W
      OBVIOUS
    <3> HIDE DEF W
    <3>3. /\ <<>> \in Seq(W) /\ <<"start", "display">> \in Seq(W) /\ <<"display">> \in Seq(W)
          /\ <<"stop">> \in Seq(W) /\ <<"start", "display", "restart_pre", "restart">> \in Seq(W)
          /\ <<"display", "restart_pre", "restart">> \in Seq(W)
          /\ <<"restart_pre", "restart">> \in Seq(W) /\ <<"restart">> \in Seq(W)
      BY <3>2
    <3>4. left \in Seq(W)
      <4>1. CASE left = <<>>
        BY <3>3, <4>1
      <4>2. CASE command = "start" /\ left \in Remaining(command)
        <5>1. left = <<"start", "display">> \/ left = <<"display">> \/ left = <<>>
          BY <4>2 DEF Remaining
        <5> QED  BY ONLY <3>3, <5>1
      <4>3. CASE command = "stop" /\ left \in Remaining(command)
        <5>1. left = <<"stop">> \/ left = <<>>
          BY <4>3 DEF Remaining
        <5> QED  BY ONLY <3>3, <5>1
      <4>4. CASE command = "restart" /\ left \in Remaining(command)
        <5>1. \/ left = <<"start", "display", "restart_pre", "restart">>
              \/ left = <<"display", "restart_pre", "restart">>
              \/ left = <<"restart_pre", "restart">> \/ left = <<"restart">> \/ left = <<>>
          BY <4>4 DEF Remaining
        <5> QED  BY ONLY <3>3, <5>1
      <4> QED  BY <3>1, <4>1, <4>2, <4>3, <4>4
    <3> QED  BY <3>4 DEF W
  <2>5. \A i \in DOMAIN queue : {queue[i].on, queue[i].of} \subseteq Components
    <3>1. queue \in Seq(Fitting)
      BY <2>1 DEF Phases
    <3>2. \A i \in DOMAIN queue : queue[i] \in Fitting
      BY <3>1
    <3> QED  BY <3>2 DEF Fitting
  <2> QED  BY <2>1, <2>2, <2>3, <2>4, <2>5 DEF TypeOK, SortInv, ListsOK, Values, Phases
<1> QED  BY <1>1, ScheduleAlways, PTL

\* Whatever the components declare, wherever the configuration lists them and whatever
\* runs when the command begins, a plugin of a start or a restart finds the components that
\* it talks to and that it declares answering (core.py, _workflow.py, workflows/).
THEOREM PluginsFindTheirNeeds == Spec => []NeedsMet
<1>1. ScheduleInv => NeedsMet
  <2> SUFFICES ASSUME ScheduleInv, pc = "run", queue # <<>>, command # "stop",
                      NEW d \in Needs(Head(queue)), Declares(Head(queue).of, d)
               PROVE  Answers(d)
    BY DEF NeedsMet
  <2> DEFINE t == Head(queue)
  <2>1. RunInv /\ Phases /\ plan \in Plans /\ depends \in [Components -> SUBSET Components]
    BY DEF ScheduleInv, RunInv, SortInv, ListsOK
  <2>2. queue \in Seq(Fitting) /\ t \in Fitting
    BY <2>1, HeadFits DEF Phases
  <2>3. d \in Components
    BY <2>1, <2>2, NeedsThere
  <2>4. t \in Asks(d)
    BY <2>2 DEF Asks, Fitting
  <2> DEFINE A == Asks(d)
             B == Check(d)
  <2>5. Whole(d) \/ Behind(queue, A, B)
    BY <2>1, <2>3 DEF RunInv, Checked
  <2>6. t \in A
    BY <2>4
  <2> HIDE DEF A, B
  <2>7. Behind(queue, A, B) => t \notin A
    BY <2>2, TailBehind
  <2>8. Whole(d)
    BY <2>5, <2>6, <2>7
  <2>9. AllServers(d) # {}
    BY <2>1, <2>3, ServersApart
  <2> QED  BY <2>8, <2>9 DEF Whole, Answers, Alive
<1> QED  BY <1>1, ScheduleAlways, PTL

\* A command that reports success has done what it says, to every server of every
\* component that no stop plugin left running, whatever ran before (core.py:
\* start_cluster, stop_cluster, restart_cluster).
THEOREM CommandKeepsItsWord == Spec => []SuccessMeansDone
<1>1. ScheduleInv => SuccessMeansDone
  BY DEF ScheduleInv, RunInv
<1> QED  BY <1>1, ScheduleAlways, PTL

\* Neither a stop nor a restart, nor one that fails half-way, kills the binlog service
\* or its database under running binlog instances, unless obd gave up on these
\* (workflows/obbinlog-ce/).
THEOREM InstancesEndFirst == Spec => InstancesStoppedFirst
<1> DEFINE Keeps == streams /\ ~gaveUp =>
             /\ obbinlog \in up'
             /\ command = "stop" \/ oceanbase \in depends[obbinlog] => Zones \cap up \subseteq up'
<1>1. ScheduleInv /\ [Next]_vars => [Keeps]_vars
  <2> SUFFICES ASSUME SortInv, RunInv, Next, streams, ~gaveUp PROVE Keeps
    BY DEF ScheduleInv
  <2>1. obbinlog \in up
    BY DEF RunInv, Instances
  <2>2. CASE Load \/ SortOne \/ SortAgain \/ Begin("start") \/ Begin("stop") \/ Begin("restart")
    BY <2>1, <2>2 DEF Load, SortOne, SortAgain, Begin
  <2>3. CASE NextWorkflow \/ Succeed
    BY <2>1, <2>3 DEF NextWorkflow, Succeed
  <2>4. CASE Plugged
    <3>1. Took /\ Processes
      BY <2>4, PluginEffect DEF RunInv
    <3> QED  BY <3>1, InstancesSafe DEF Took, Processes
  <2>5. CASE PluginRefuses \/ PluginFails
    <3>1. FailsWith
      BY <2>5, RefusesOrFails
    <3> QED  BY <3>1, InstancesSafe DEF FailsWith
  <2> QED  BY <2>2, <2>3, <2>4, <2>5 DEF Next, Plugged
<1> QED  BY <1>1, ScheduleAlways, PTL DEF Spec, InstancesStoppedFirst
==============================================================================
