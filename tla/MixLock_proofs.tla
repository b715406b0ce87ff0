--------------------------- MODULE MixLock_proofs ---------------------------
(***************************************************************************)
(* Theorems about the file locks (module MixLock), for any number of       *)
(* processes, paths, homes and attempts.                                   *)
(*                                                                         *)
(* Types, and a process that counts an exclusive lock holds the kernel's   *)
(* alone (IInv): the kernel's own guarantee (KernelExclusive) and, for the *)
(* conversion back to a shared lock, that the path being converted has no  *)
(* exclusive count left (Converting) and that only a waiting or an undoing *)
(* process converts (NotConverting).                                       *)
(*                                                                         *)
(* Counts suffice for the requests that made them, on every path and for   *)
(* both kinds (AllCounted), so that the lock of an outer home stays.       *)
(*                                                                         *)
(* One home each implements LockPromise: what a process counts on a path   *)
(* is backed by a kernel lock on it (Backing), and a process without a     *)
(* command counts nothing (Fresh).                                         *)
(***************************************************************************)
EXTENDS MixLock, SequenceTheorems, FiniteSetTheorems, TLAPS

KernelExclusive ==
    \A l \in Paths : \A p, q \in Procs :
        p # q /\ kernel[l][p] = "ex" => kernel[l][q] = "none"

CountedIsHeld ==
    \A p \in Procs, l \in Paths : ex[p][l] > 0 => kernel[l][p] = "ex"

Converting ==
    \A p \in Procs : cur[p].path \in Paths => ex[p][cur[p].path] = 0

NotConverting ==
    \A p \in Procs : pc[p] \in {"idle", "run"} => cur[p].path = NoPath

Waiting ==
    \A p \in Procs : pc[p] = "escalate" => cur[p].path \in Paths

Counts == CountedIsHeld /\ Converting

-----------------------------------------------------------------------------
(* Types.                                                                   *)

\* The last request of a home and what is left without it (src/_lock.py:219).
LEMMA LastAndFront ==
    ASSUME NEW s \in Seq(Entry), s # <<>>
    PROVE  Last(s) \in Entry /\ Front(s) \in Seq(Entry)
<1>1. Len(s) \in Nat \ {0} /\ \A i \in 1..Len(s) : s[i] \in Entry
  BY EmptySeq, ElementOfSeq, LenProperties
<1>2. Last(s) \in Entry
  BY <1>1 DEF Last
<1>3. \A i \in 1..(Len(s) - 1) : s[i] \in Entry
  BY <1>1
<1>4. SubSeq(s, 1, Len(s) - 1) \in Seq(Entry)
  BY <1>1, <1>3, SubSeqProperties
<1> QED  BY <1>2, <1>4 DEF Front

\* Updating one entry of a table keeps its type and its other entries.
LEMMA TableUpdate ==
    ASSUME NEW A, NEW B, NEW C, NEW f \in [A -> [B -> C]],
           NEW a \in A, NEW b \in B, NEW c \in C
    PROVE  /\ [f EXCEPT ![a][b] = c] \in [A -> [B -> C]]
           /\ \A x \in A, y \in B :
                [f EXCEPT ![a][b] = c][x][y] = IF x = a /\ y = b THEN c ELSE f[x][y]
OBVIOUS

LEMMA TypeInit == Init => TypeOK
<1> SUFFICES ASSUME Init PROVE TypeOK
  OBVIOUS
<1>1. held \in [Procs -> [Homes -> Seq(Entry)]]
  BY EmptySeq DEF Init
<1>2. cur \in [Procs -> Busy]
  BY LockAssumption DEF Init, Busy
<1> QED  BY <1>1, <1>2, LockAssumption DEF Init, TypeOK

LEMMA TypeTakeShared ==
    ASSUME TypeOK, NEW p \in Procs, NEW h \in Homes, NEW l \in Paths, TakeShared(p, h, l)
    PROVE  /\ kernel' \in [Paths -> [Procs -> {"none", "sh", "ex"}]]
           /\ sh' \in [Procs -> [Paths -> Nat]]
           /\ ex' = ex
           /\ held' \in [Procs -> [Homes -> Seq(Entry)]]
<1>1. kernel' \in [Paths -> [Procs -> {"none", "sh", "ex"}]]
<2>1. CASE UNCHANGED kernel
  BY <2>1 DEF TypeOK
<2>2. CASE Flock(l, p, "sh")
  BY <2>2, TableUpdate DEF TypeOK, Flock
<2> QED  BY <2>1, <2>2 DEF TakeShared
<1>2. sh[p][l] + 1 \in Nat
  BY DEF TypeOK
<1>5. sh' \in [Procs -> [Paths -> Nat]]
  BY <1>2, TableUpdate DEF TypeOK, TakeShared
<1>3. Append(held[p][h], [path |-> l, kind |-> "sh"]) \in Seq(Entry)
<2>1. held[p][h] \in Seq(Entry)
  BY DEF TypeOK
<2>2. [path |-> l, kind |-> "sh"] \in Entry
  BY DEF Entry
<2> QED  BY <2>1, <2>2, AppendProperties
<1>4. held' \in [Procs -> [Homes -> Seq(Entry)]]
  BY <1>3 DEF TypeOK, TakeShared, Remember
<1> QED  BY <1>1, <1>4, <1>5 DEF TakeShared

LEMMA TypeGone ==
    ASSUME TypeOK, NEW p \in Procs, Gone(p)
    PROVE  TypeOK'
<1>1. held' \in [Procs -> [Homes -> Seq(Entry)]]
  BY EmptySeq DEF TypeOK, Gone
<1>2. cur' \in [Procs -> Busy]
  BY LockAssumption DEF TypeOK, Gone, Busy
<1>3. kernel' \in [Paths -> [Procs -> {"none", "sh", "ex"}]]
  BY DEF TypeOK, Gone
<1>4. sh' \in [Procs -> [Paths -> Nat]] /\ ex' \in [Procs -> [Paths -> Nat]]
  BY DEF TypeOK, Gone
<1>5. open' \in [Procs -> SUBSET Homes] /\ tries' \in [Procs -> Nat]
  BY DEF TypeOK, Gone
<1> QED  BY <1>1, <1>2, <1>3, <1>4, <1>5 DEF TypeOK, Gone

LEMMA TypeLaunch ==
    ASSUME TypeOK, NEW p \in Procs, Launch(p)
    PROVE  TypeOK'
<1>1. launched' \in [Procs -> 0..MaxLaunches]
  BY LockAssumption DEF TypeOK, Launch
<1>2. UNCHANGED <<cur, tries, setting>>
  BY DEF Launch
<1>3. pc' \in [Procs -> {"idle", "run", "escalate", "closing", "exit"}]
  BY DEF TypeOK, Launch
<1>4. open' \in [Procs -> SUBSET Homes]
  <2>1. {Main} \in SUBSET Homes
    BY LockAssumption
  <2>2. open' = [open EXCEPT ![p] = {Main}] \/ open' = open
    BY DEF Launch
  <2> QED  BY <2>1, <2>2 DEF TypeOK
<1>5. \/ UNCHANGED <<kernel, sh, ex, held>>
      \/ TakeShared(p, Main, Global)
  BY DEF Launch, TakeGlobal, Refused
<1>6. /\ kernel' \in [Paths -> [Procs -> {"none", "sh", "ex"}]]
      /\ sh' \in [Procs -> [Paths -> Nat]]
      /\ ex' \in [Procs -> [Paths -> Nat]]
      /\ held' \in [Procs -> [Homes -> Seq(Entry)]]
  BY <1>5, TypeTakeShared, LockAssumption DEF TypeOK
<1> QED  BY <1>1, <1>2, <1>3, <1>4, <1>6 DEF TypeOK

LEMMA TypeOpenHome ==
    ASSUME TypeOK, NEW p \in Procs, NEW h \in Homes, OpenHome(p, h)
    PROVE  TypeOK'
<1>1. open' \in [Procs -> SUBSET Homes]
  BY DEF TypeOK, OpenHome
<1>2. UNCHANGED <<pc, cur, tries, setting, launched>>
  BY DEF OpenHome
<1>3. \/ UNCHANGED <<kernel, sh, ex, held>>
      \/ TakeShared(p, h, Global)
  BY DEF OpenHome, TakeGlobal
<1>4. /\ kernel' \in [Paths -> [Procs -> {"none", "sh", "ex"}]]
      /\ sh' \in [Procs -> [Paths -> Nat]]
      /\ ex' \in [Procs -> [Paths -> Nat]]
      /\ held' \in [Procs -> [Homes -> Seq(Entry)]]
  BY <1>3, TypeTakeShared, LockAssumption DEF TypeOK
<1> QED  BY <1>1, <1>2, <1>4 DEF TypeOK

LEMMA TypeShLock ==
    ASSUME TypeOK, NEW p \in Procs, NEW h \in Homes, NEW l \in Paths, ShLock(p, h, l)
    PROVE  TypeOK'
<1>1. UNCHANGED <<open, cur, tries, setting, launched>>
  BY DEF ShLock
<1>2. pc' \in [Procs -> {"idle", "run", "escalate", "closing", "exit"}]
  BY DEF TypeOK, ShLock, Fail
<1>3. \/ UNCHANGED <<kernel, sh, ex, held>>
      \/ TakeShared(p, h, l)
  BY DEF ShLock, Refused
<1>4. /\ kernel' \in [Paths -> [Procs -> {"none", "sh", "ex"}]]
      /\ sh' \in [Procs -> [Paths -> Nat]]
      /\ ex' \in [Procs -> [Paths -> Nat]]
      /\ held' \in [Procs -> [Homes -> Seq(Entry)]]
  BY <1>3, TypeTakeShared DEF TypeOK
<1> QED  BY <1>1, <1>2, <1>4 DEF TypeOK

\* One more exclusive request counted and remembered.
LEMMA TypeCountExclusive ==
    ASSUME TypeOK, NEW p \in Procs, NEW h \in Homes, NEW l \in Paths,
           ex' = [ex EXCEPT ![p][l] = @ + 1], Remember(p, h, l, "ex")
    PROVE  /\ ex' \in [Procs -> [Paths -> Nat]]
           /\ held' \in [Procs -> [Homes -> Seq(Entry)]]
<1>1. ex[p][l] + 1 \in Nat
  BY DEF TypeOK
<1>2. ex' \in [Procs -> [Paths -> Nat]]
  BY <1>1, TableUpdate DEF TypeOK
<1>3. held[p][h] \in Seq(Entry)
  BY DEF TypeOK
<1>4. [path |-> l, kind |-> "ex"] \in Entry
  BY DEF Entry
<1>5. Append(held[p][h], [path |-> l, kind |-> "ex"]) \in Seq(Entry)
  BY <1>3, <1>4, AppendProperties
<1>6. held' \in [Procs -> [Homes -> Seq(Entry)]]
  BY <1>5 DEF TypeOK, Remember
<1> QED  BY <1>2, <1>6

LEMMA TypeFlock ==
    ASSUME TypeOK, NEW p \in Procs, NEW l \in Paths, NEW kind \in {"none", "sh", "ex"},
           Flock(l, p, kind) \/ UNCHANGED kernel
    PROVE  kernel' \in [Paths -> [Procs -> {"none", "sh", "ex"}]]
<1>1. CASE UNCHANGED kernel
  BY <1>1 DEF TypeOK
<1>2. CASE Flock(l, p, kind)
  BY <1>2, TableUpdate DEF TypeOK, Flock
<1> QED  BY <1>1, <1>2

LEMMA TypeExLock ==
    ASSUME TypeOK, NEW p \in Procs, NEW h \in Homes, NEW l \in Paths, ExLock(p, h, l)
    PROVE  TypeOK'
<1>1. UNCHANGED <<sh, open, cur, tries, setting, launched>>
  BY DEF ExLock, Refused
<1>2. pc' \in [Procs -> {"idle", "run", "escalate", "closing", "exit"}]
  BY DEF TypeOK, ExLock, Fail
<1>3. kernel' \in [Paths -> [Procs -> {"none", "sh", "ex"}]]
  <2>1. Flock(l, p, "ex") \/ UNCHANGED kernel
    BY DEF ExLock, Refused
  <2> QED  BY <2>1, TypeFlock
<1>4. \/ UNCHANGED <<ex, held>>
      \/ ex' = [ex EXCEPT ![p][l] = @ + 1] /\ Remember(p, h, l, "ex")
  BY DEF ExLock, Refused
<1>5. /\ ex' \in [Procs -> [Paths -> Nat]]
      /\ held' \in [Procs -> [Homes -> Seq(Entry)]]
  BY <1>4, TypeCountExclusive DEF TypeOK
<1> QED  BY <1>1, <1>2, <1>3, <1>5 DEF TypeOK

LEMMA TypeEscalate ==
    ASSUME TypeOK, NEW p \in Procs, NEW h \in Homes, NEW l \in Paths, Escalate(p, h, l)
    PROVE  TypeOK'
<1>1. UNCHANGED <<sh, ex, held, open, setting, launched>>
  BY DEF Escalate
<1>2. pc' \in [Procs -> {"idle", "run", "escalate", "closing", "exit"}]
  BY DEF TypeOK, Escalate
<1>3. kernel' \in [Paths -> [Procs -> {"none", "sh", "ex"}]]
  BY TypeFlock DEF Escalate
<1>4. cur' \in [Procs -> Busy]
  BY DEF TypeOK, Escalate, Busy
<1>5. tries' \in [Procs -> Nat]
  BY LockAssumption DEF TypeOK, Escalate
<1> QED  BY <1>1, <1>2, <1>3, <1>4, <1>5 DEF TypeOK

\* The end of an attempt: the process waits for no path any more.
LEMMA TypeNoPath ==
    ASSUME TypeOK, NEW p \in Procs, cur' = [cur EXCEPT ![p].path = NoPath]
    PROVE  cur' \in [Procs -> Busy]
<1>1. cur[p] \in Busy
  BY DEF TypeOK
<1>2. [cur[p] EXCEPT !.path = NoPath] \in Busy
  BY <1>1 DEF Busy
<1> QED  BY <1>2 DEF TypeOK

LEMMA TypeAttemptSucceeds ==
    ASSUME TypeOK, Waiting, NEW p \in Procs, AttemptSucceeds(p)
    PROVE  TypeOK'
<1>1. cur[p].path \in Paths /\ cur[p].home \in Homes
  BY DEF TypeOK, Waiting, AttemptSucceeds, Busy
<1>2. UNCHANGED <<sh, open, tries, setting, launched>>
  BY DEF AttemptSucceeds
<1>3. pc' \in [Procs -> {"idle", "run", "escalate", "closing", "exit"}]
  BY DEF TypeOK, AttemptSucceeds
<1>4. kernel' \in [Paths -> [Procs -> {"none", "sh", "ex"}]]
  BY <1>1, TypeFlock DEF AttemptSucceeds
<1>5. /\ ex' \in [Procs -> [Paths -> Nat]]
      /\ held' \in [Procs -> [Homes -> Seq(Entry)]]
  BY <1>1, TypeCountExclusive DEF AttemptSucceeds
<1>6. cur' \in [Procs -> Busy]
  BY TypeNoPath DEF AttemptSucceeds
<1> QED  BY <1>2, <1>3, <1>4, <1>5, <1>6 DEF TypeOK

LEMMA TypeAttemptFails ==
    ASSUME TypeOK, NEW p \in Procs, AttemptFails(p)
    PROVE  TypeOK'
<1>1. UNCHANGED <<kernel, sh, ex, held, open, setting, launched>>
  BY DEF AttemptFails
<1>2. pc' \in [Procs -> {"idle", "run", "escalate", "closing", "exit"}]
  BY DEF TypeOK, AttemptFails, Fail
<1>3. tries' \in [Procs -> Nat]
  BY DEF TypeOK, AttemptFails
<1>4. cur' \in [Procs -> Busy]
  <2>1. cur' = cur \/ cur' = [cur EXCEPT ![p].path = NoPath]
    BY DEF AttemptFails
  <2> QED  BY <2>1, TypeNoPath DEF TypeOK
<1> QED  BY <1>1, <1>2, <1>3, <1>4 DEF TypeOK

LEMMA TypeInterrupt ==
    ASSUME TypeOK, NEW p \in Procs, Interrupt(p)
    PROVE  TypeOK'
<1>1. pc' \in [Procs -> {"idle", "run", "escalate", "closing", "exit"}]
  BY DEF TypeOK, Interrupt, Fail
<1>2. cur' \in [Procs -> Busy]
  BY TypeNoPath DEF Interrupt
<1> QED  BY <1>1, <1>2 DEF TypeOK, Interrupt

LEMMA TypeCloseHome ==
    ASSUME TypeOK, NEW p \in Procs, NEW h \in Homes, CloseHome(p, h)
    PROVE  TypeOK'
<1>1. pc' \in [Procs -> {"idle", "run", "escalate", "closing", "exit"}]
  BY DEF TypeOK, CloseHome
<1>2. [cur[p] EXCEPT !.home = h] \in Busy
  <2>1. cur[p] \in Busy
    BY DEF TypeOK
  <2> QED  BY <2>1 DEF Busy
<1>3. cur' \in [Procs -> Busy]
  BY <1>2 DEF TypeOK, CloseHome
<1> QED  BY <1>1, <1>3 DEF TypeOK, CloseHome

LEMMA TypeEndCommand ==
    ASSUME TypeOK, NEW p \in Procs, EndCommand(p)
    PROVE  TypeOK'
<1>1. pc' \in [Procs -> {"idle", "run", "escalate", "closing", "exit"}]
  BY DEF TypeOK, EndCommand, Fail
<1> QED  BY <1>1 DEF TypeOK, EndCommand

\* Undoing the last request of a home.
LEMMA TypeUndo ==
    ASSUME TypeOK, NEW p \in Procs, NEW h \in Homes, Undoing(p, h),
           held' = [held EXCEPT ![p][h] = Front(@)]
    PROVE  /\ Last(held[p][h]).path \in Paths
           /\ held' \in [Procs -> [Homes -> Seq(Entry)]]
<1>1. held[p][h] \in Seq(Entry) /\ held[p][h] # <<>>
  BY DEF TypeOK, Undoing
<1>2. Last(held[p][h]) \in Entry /\ Front(held[p][h]) \in Seq(Entry)
  BY <1>1, LastAndFront
<1>3. Last(held[p][h]).path \in Paths
  BY <1>2 DEF Entry
<1>4. held' \in [Procs -> [Homes -> Seq(Entry)]]
  BY <1>2, TableUpdate DEF TypeOK
<1> QED  BY <1>3, <1>4

LEMMA TypeShUnlock ==
    ASSUME TypeOK, NEW p \in Procs, NEW h \in Homes, ShUnlock(p, h)
    PROVE  TypeOK'
<1> DEFINE l == Last(held[p][h]).path
<1>1. l \in Paths /\ held' \in [Procs -> [Homes -> Seq(Entry)]]
  BY TypeUndo DEF ShUnlock
<1>2. sh' \in [Procs -> [Paths -> Nat]]
  <2>1. (IF sh[p][l] > 0 THEN sh[p][l] - 1 ELSE sh[p][l]) \in Nat
    BY <1>1 DEF TypeOK
  <2>2. sh' = [sh EXCEPT ![p][l] = IF sh[p][l] > 0 THEN sh[p][l] - 1 ELSE sh[p][l]]
    BY DEF ShUnlock
  <2> QED  BY <1>1, <2>1, <2>2, TableUpdate DEF TypeOK
<1>3. kernel' \in [Paths -> [Procs -> {"none", "sh", "ex"}]]
  <2>1. Flock(l, p, "none") \/ UNCHANGED kernel
    BY DEF ShUnlock
  <2> QED  BY <1>1, <2>1, TypeFlock
<1>4. UNCHANGED <<ex, open, pc, cur, tries, setting, launched>>
  BY DEF ShUnlock
<1> QED  BY <1>1, <1>2, <1>3, <1>4 DEF TypeOK

LEMMA TypeExUnlock ==
    ASSUME TypeOK, NEW p \in Procs, NEW h \in Homes, ExUnlock(p, h)
    PROVE  TypeOK'
<1> DEFINE l == Last(held[p][h]).path
<1>1. l \in Paths /\ held' \in [Procs -> [Homes -> Seq(Entry)]]
  BY TypeUndo DEF ExUnlock
<1>2. ex' \in [Procs -> [Paths -> Nat]]
  <2>1. (IF ex[p][l] > 0 THEN ex[p][l] - 1 ELSE ex[p][l]) \in Nat
    BY <1>1 DEF TypeOK
  <2>2. ex' = [ex EXCEPT ![p][l] = IF ex[p][l] > 0 THEN ex[p][l] - 1 ELSE ex[p][l]]
    BY DEF ExUnlock
  <2> QED  BY <1>1, <2>1, <2>2, TableUpdate DEF TypeOK
<1>3. kernel' \in [Paths -> [Procs -> {"none", "sh", "ex"}]]
  <2>1. Flock(l, p, "none") \/ UNCHANGED kernel
    BY DEF ExUnlock
  <2> QED  BY <1>1, <2>1, TypeFlock
<1>4. cur' \in [Procs -> Busy]
  <2>1. [home |-> h, path |-> l] \in Busy
    BY <1>1 DEF Busy
  <2>2. cur' = [cur EXCEPT ![p] = [home |-> h, path |-> l]] \/ cur' = cur
    BY DEF ExUnlock
  <2> QED  BY <2>1, <2>2 DEF TypeOK
<1>5. UNCHANGED <<sh, open, pc, tries, setting, launched>>
  BY DEF ExUnlock
<1> QED  BY <1>1, <1>2, <1>3, <1>4, <1>5 DEF TypeOK

LEMMA TypeDowngrade ==
    ASSUME TypeOK, NEW p \in Procs, Downgrade(p)
    PROVE  TypeOK'
<1>1. cur[p].path \in Paths /\ cur[p].home \in Homes
  BY DEF TypeOK, Downgrade, Busy
<1>2. kernel' \in [Paths -> [Procs -> {"none", "sh", "ex"}]]
  <2>1. Flock(cur[p].path, p, "sh") \/ UNCHANGED kernel
    BY DEF Downgrade
  <2> QED  BY <1>1, <2>1, TypeFlock
<1>3. held' \in [Procs -> [Homes -> Seq(Entry)]]
  <2>1. held' = held \/ held' = [held EXCEPT ![p][cur[p].home] = <<>>]
    BY DEF Downgrade
  <2>2. <<>> \in Seq(Entry)
    BY EmptySeq
  <2>3. held \in [Procs -> [Homes -> Seq(Entry)]]
    BY DEF TypeOK
  <2>4. [held EXCEPT ![p][cur[p].home] = <<>>] \in [Procs -> [Homes -> Seq(Entry)]]
    BY <1>1, <2>2, <2>3, TableUpdate
  <2> QED  BY <2>1, <2>3, <2>4
<1>4. cur' \in [Procs -> Busy]
  BY TypeNoPath DEF Downgrade
<1>5. UNCHANGED <<sh, ex, open, pc, tries, setting, launched>>
  BY DEF Downgrade
<1> QED  BY <1>2, <1>3, <1>4, <1>5 DEF TypeOK

LEMMA TypeHomeClosed ==
    ASSUME TypeOK, NEW p \in Procs, HomeClosed(p)
    PROVE  TypeOK'
<1>1. pc' \in [Procs -> {"idle", "run", "escalate", "closing", "exit"}]
  BY DEF TypeOK, HomeClosed
<1>2. open' \in [Procs -> SUBSET Homes]
  BY DEF TypeOK, HomeClosed
<1>3. [cur[p] EXCEPT !.home = Main] \in Busy
  <2>1. cur[p] \in Busy /\ Main \in Homes
    BY LockAssumption DEF TypeOK
  <2> QED  BY <2>1 DEF Busy
<1>4. cur' \in [Procs -> Busy]
  BY <1>3 DEF TypeOK, HomeClosed
<1> QED  BY <1>1, <1>2, <1>4 DEF TypeOK, HomeClosed

LEMMA TypeNext == TypeOK /\ Waiting /\ [Next]_vars => TypeOK'
<1> SUFFICES ASSUME TypeOK, Waiting, [Next]_vars PROVE TypeOK'
  OBVIOUS
<1>1. CASE UNCHANGED vars
  BY <1>1 DEF TypeOK, vars
<1>2. ASSUME NEW p \in Procs, Launch(p) \/ EndCommand(p) \/ Interrupt(p) PROVE TypeOK'
  BY <1>2, TypeLaunch, TypeEndCommand, TypeInterrupt
<1>3. ASSUME NEW p \in Procs, Request(p) PROVE TypeOK'
  <2> PICK h \in Homes : OpenHome(p, h) \/ CloseHome(p, h)
        \/ \E l \in Paths : ShLock(p, h, l) \/ ExLock(p, h, l) \/ Escalate(p, h, l)
    BY <1>3 DEF Request
  <2> QED  BY TypeOpenHome, TypeCloseHome, TypeShLock, TypeExLock, TypeEscalate
<1>4. ASSUME NEW p \in Procs, Attempt(p) PROVE TypeOK'
  BY <1>4, TypeAttemptSucceeds, TypeAttemptFails DEF Attempt
<1>5. ASSUME NEW p \in Procs, Release(p) PROVE TypeOK'
  BY <1>5, TypeShUnlock, TypeExUnlock, TypeDowngrade, TypeHomeClosed, TypeGone
     DEF Release, Shutdown
<1>6. ASSUME NEW p \in Procs, Crash(p) PROVE TypeOK'
  BY <1>6, TypeGone DEF Crash
<1> QED  BY <1>1, <1>2, <1>3, <1>4, <1>5, <1>6 DEF Next
-----------------------------------------------------------------------------
(* Who waits and who converts.                                              *)

Control == NotConverting /\ Waiting

LEMMA ControlInit == Init => Control
BY DEF Init, Control, NotConverting, Waiting

LEMMA ControlNext == TypeOK /\ Control /\ [Next]_vars => Control'
<1> SUFFICES ASSUME TypeOK, Control, [Next]_vars PROVE Control'
  OBVIOUS
<1> USE DEF Control, NotConverting, Waiting
<1>1. CASE UNCHANGED vars
  BY <1>1 DEF vars
<1>2. ASSUME NEW p \in Procs, Launch(p) \/ EndCommand(p) \/ Interrupt(p) PROVE Control'
  <2>1. CASE Launch(p)
    BY <2>1 DEF TypeOK, Launch
  <2>2. CASE EndCommand(p)
    BY <2>2 DEF TypeOK, EndCommand, Fail
  <2>3. CASE Interrupt(p)
    BY <2>3 DEF TypeOK, Interrupt, Fail, Busy
  <2> QED  BY <1>2, <2>1, <2>2, <2>3
<1>3. ASSUME NEW p \in Procs, Request(p) PROVE Control'
  <2> PICK h \in Homes : OpenHome(p, h) \/ CloseHome(p, h)
        \/ \E l \in Paths : ShLock(p, h, l) \/ ExLock(p, h, l) \/ Escalate(p, h, l)
    BY <1>3 DEF Request
  <2>1. CASE OpenHome(p, h)
    BY <2>1 DEF TypeOK, OpenHome
  <2>2. CASE CloseHome(p, h)
    BY <2>2 DEF TypeOK, CloseHome, Busy
  <2>3. ASSUME NEW l \in Paths, ShLock(p, h, l) PROVE Control'
    BY <2>3 DEF TypeOK, ShLock, Fail, MayRequest
  <2>4. ASSUME NEW l \in Paths, ExLock(p, h, l) PROVE Control'
    BY <2>4 DEF TypeOK, ExLock, Fail, MayRequest
  <2>5. ASSUME NEW l \in Paths, Escalate(p, h, l) PROVE Control'
    BY <2>5 DEF TypeOK, Escalate, Busy
  <2> QED  BY <2>1, <2>2, <2>3, <2>4, <2>5
<1>4. ASSUME NEW p \in Procs, Attempt(p) PROVE Control'
  <2>1. CASE AttemptSucceeds(p)
    BY <2>1 DEF TypeOK, AttemptSucceeds, Busy
  <2>2. CASE AttemptFails(p)
    BY <2>2 DEF TypeOK, AttemptFails, Fail, Busy
  <2> QED  BY <1>4, <2>1, <2>2 DEF Attempt
<1>5. ASSUME NEW p \in Procs, Release(p) PROVE Control'
  <2>1. ASSUME NEW h \in Homes, ShUnlock(p, h) PROVE Control'
    BY <2>1 DEF TypeOK, ShUnlock
  <2>2. ASSUME NEW h \in Homes, ExUnlock(p, h) PROVE Control'
    BY <2>2 DEF TypeOK, ExUnlock, Undoing
  <2>3. CASE Downgrade(p)
    BY <2>3 DEF TypeOK, Downgrade, Busy
  <2>4. CASE HomeClosed(p)
    BY <2>4 DEF TypeOK, HomeClosed, Busy
  <2>5. CASE Shutdown(p)
    BY <2>5 DEF TypeOK, Shutdown, Gone
  <2> QED  BY <1>5, <2>1, <2>2, <2>3, <2>4, <2>5 DEF Release
<1>6. ASSUME NEW p \in Procs, Crash(p) PROVE Control'
  BY <1>6 DEF TypeOK, Crash, Gone
<1> QED  BY <1>1, <1>2, <1>3, <1>4, <1>5, <1>6 DEF Next

\* Every variable has its type (src/_lock.py:36).
THEOREM TypeCorrect == Spec => []TypeOK
<1>1. Init => TypeOK /\ Control
  BY TypeInit, ControlInit
<1>2. TypeOK /\ Control /\ [Next]_vars => (TypeOK /\ Control)'
  BY TypeNext, ControlNext DEF Control
<1> QED  BY <1>1, <1>2, PTL DEF Spec
-----------------------------------------------------------------------------
(* The kernel's table.                                                      *)

LEMMA FlockExclusive ==
    ASSUME TypeOK, KernelExclusive, NEW p \in Procs, NEW l \in Paths,
           NEW kind \in {"none", "sh", "ex"},
           kind = "none" \/ Grants(l, p, kind),
           Flock(l, p, kind)
    PROVE  KernelExclusive'
<1> SUFFICES ASSUME NEW m \in Paths, NEW q \in Procs, NEW r \in Procs,
                    q # r, kernel'[m][q] = "ex"
             PROVE  kernel'[m][r] = "none"
  BY DEF KernelExclusive
<1>1. \A x \in Paths, y \in Procs :
        kernel'[x][y] = IF x = l /\ y = p THEN kind ELSE kernel[x][y]
  <2>1. kernel \in [Paths -> [Procs -> {"none", "sh", "ex"}]]
    BY DEF TypeOK
  <2> QED  BY <2>1, TableUpdate DEF Flock
<1>2. CASE m # l
  BY <1>1, <1>2 DEF KernelExclusive
<1>3. CASE m = l /\ q = p
  BY <1>1, <1>3 DEF Grants
<1>4. CASE m = l /\ r = p
  BY <1>1, <1>4 DEF Grants, KernelExclusive
<1>5. CASE m = l /\ q # p /\ r # p
  BY <1>1, <1>5 DEF KernelExclusive
<1> QED  BY <1>2, <1>3, <1>4, <1>5

LEMMA KernelExclusiveNext ==
    TypeOK /\ Control /\ KernelExclusive /\ [Next]_vars => KernelExclusive'
<1> SUFFICES ASSUME TypeOK, Control, KernelExclusive, [Next]_vars PROVE KernelExclusive'
  OBVIOUS
<1>1. ASSUME UNCHANGED kernel PROVE KernelExclusive'
  BY <1>1 DEF KernelExclusive
<1>2. ASSUME NEW p \in Procs, NEW h \in Homes, NEW l \in Paths, TakeShared(p, h, l)
      PROVE  KernelExclusive'
  BY <1>1, <1>2, FlockExclusive DEF TakeShared
<1>3. ASSUME NEW p \in Procs, Gone(p) PROVE KernelExclusive'
  BY <1>3 DEF TypeOK, KernelExclusive, Gone
<1>4. CASE UNCHANGED vars
  BY <1>1, <1>4 DEF vars
<1>5. ASSUME NEW p \in Procs, Launch(p) PROVE KernelExclusive'
  BY <1>1, <1>2, <1>5, LockAssumption DEF Launch, TakeGlobal, Refused
<1>6. ASSUME NEW p \in Procs, Request(p) PROVE KernelExclusive'
  <2> PICK h \in Homes : OpenHome(p, h) \/ CloseHome(p, h)
        \/ \E l \in Paths : ShLock(p, h, l) \/ ExLock(p, h, l) \/ Escalate(p, h, l)
    BY <1>6 DEF Request
  <2>1. CASE OpenHome(p, h)
    BY <1>1, <1>2, <2>1, LockAssumption DEF OpenHome, TakeGlobal
  <2>2. CASE CloseHome(p, h)
    BY <1>1, <2>2 DEF CloseHome
  <2>3. ASSUME NEW l \in Paths, ShLock(p, h, l) PROVE KernelExclusive'
    BY <1>1, <1>2, <2>3 DEF ShLock, Refused
  <2>4. ASSUME NEW l \in Paths, ExLock(p, h, l) PROVE KernelExclusive'
    BY <1>1, <2>4, FlockExclusive DEF ExLock, Refused
  <2>5. ASSUME NEW l \in Paths, Escalate(p, h, l) PROVE KernelExclusive'
    BY <2>5, FlockExclusive DEF Escalate
  <2> QED  BY <2>1, <2>2, <2>3, <2>4, <2>5
<1>7. ASSUME NEW p \in Procs, Attempt(p) PROVE KernelExclusive'
  <2>1. CASE AttemptSucceeds(p)
    BY <2>1, FlockExclusive DEF AttemptSucceeds, Control, Waiting
  <2>2. CASE AttemptFails(p)
    BY <1>1, <2>2 DEF AttemptFails
  <2> QED  BY <1>7, <2>1, <2>2 DEF Attempt
<1>8. ASSUME NEW p \in Procs, Release(p) PROVE KernelExclusive'
  <2>1. ASSUME NEW h \in Homes, ShUnlock(p, h) PROVE KernelExclusive'
    <3>1. Last(held[p][h]).path \in Paths
      BY <2>1, TypeUndo DEF ShUnlock
    <3> QED  BY <1>1, <2>1, <3>1, FlockExclusive DEF ShUnlock
  <2>2. ASSUME NEW h \in Homes, ExUnlock(p, h) PROVE KernelExclusive'
    <3>1. Last(held[p][h]).path \in Paths
      BY <2>2, TypeUndo DEF ExUnlock
    <3> QED  BY <1>1, <2>2, <3>1, FlockExclusive DEF ExUnlock
  <2>3. CASE Downgrade(p)
    <3>1. cur[p].path \in Paths
      BY <2>3 DEF TypeOK, Downgrade, Busy
    <3> QED  BY <1>1, <2>3, <3>1, FlockExclusive DEF Downgrade
  <2>4. CASE HomeClosed(p)
    BY <1>1, <2>4 DEF HomeClosed
  <2>5. CASE Shutdown(p)
    BY <1>3, <2>5 DEF Shutdown
  <2> QED  BY <1>8, <2>1, <2>2, <2>3, <2>4, <2>5 DEF Release
<1>9. ASSUME NEW p \in Procs, EndCommand(p) \/ Interrupt(p) PROVE KernelExclusive'
  BY <1>1, <1>9 DEF EndCommand, Interrupt
<1>10. ASSUME NEW p \in Procs, Crash(p) PROVE KernelExclusive'
  BY <1>3, <1>10 DEF Crash
<1> QED  BY <1>4, <1>5, <1>6, <1>7, <1>8, <1>9, <1>10 DEF Next

-----------------------------------------------------------------------------
(* The counters against the kernel's table.                                 *)


\* No counter changes, and a process whose lock changes does not count it.
LEMMA FlockCounted ==
    ASSUME TypeOK, Counts, NEW p \in Procs, NEW l \in Paths,
           NEW kind \in {"none", "sh", "ex"},
           ex' = ex, UNCHANGED kernel \/ (Flock(l, p, kind) /\ ex[p][l] = 0)
    PROVE  CountedIsHeld'
<1>1. CASE UNCHANGED kernel
  BY <1>1 DEF Counts, CountedIsHeld
<1>2. CASE Flock(l, p, kind) /\ ex[p][l] = 0
  <2>1. kernel \in [Paths -> [Procs -> {"none", "sh", "ex"}]]
    BY DEF TypeOK
  <2>2. \A x \in Paths, y \in Procs :
          kernel'[x][y] = IF x = l /\ y = p THEN kind ELSE kernel[x][y]
    BY <1>2, <2>1, TableUpdate DEF Flock
  <2> QED  BY <1>2, <2>2 DEF Counts, CountedIsHeld
<1> QED  BY <1>1, <1>2

\* No counter changes, and a process converts what it converted, or nothing.
LEMMA ConvertingKept ==
    ASSUME Counts, ex' = ex,
           \A q \in Procs : cur'[q].path = cur[q].path \/ cur'[q].path = NoPath
    PROVE  Converting'
BY LockAssumption DEF Counts, Converting

\* One more exclusive count, of a process that has the kernel's lock and
\* converts nothing when the step ends.
LEMMA CountsTaken ==
    ASSUME TypeOK, Counts, NEW p \in Procs, NEW l \in Paths,
           ex' = [ex EXCEPT ![p][l] = @ + 1],
           Flock(l, p, "ex") \/ (UNCHANGED kernel /\ ex[p][l] > 0),
           cur'[p].path = NoPath,
           \A q \in Procs \ {p} : cur'[q].path = cur[q].path
    PROVE  Counts'
<1>1. kernel \in [Paths -> [Procs -> {"none", "sh", "ex"}]] /\ ex \in [Procs -> [Paths -> Nat]]
  BY DEF TypeOK
<1>2. ex[p][l] + 1 \in Nat
  BY <1>1
<1>3. \A y \in Procs, x \in Paths :
        ex'[y][x] = IF y = p /\ x = l THEN ex[p][l] + 1 ELSE ex[y][x]
  BY <1>1, <1>2, TableUpdate
<1>4. CountedIsHeld'
  <2>1. CASE Flock(l, p, "ex")
    <3>1. \A x \in Paths, y \in Procs :
            kernel'[x][y] = IF x = l /\ y = p THEN "ex" ELSE kernel[x][y]
      BY <1>1, <2>1, TableUpdate DEF Flock
    <3> QED  BY <1>3, <3>1 DEF Counts, CountedIsHeld
  <2>2. CASE UNCHANGED kernel /\ ex[p][l] > 0
    BY <1>3, <2>2 DEF Counts, CountedIsHeld
  <2> QED  BY <2>1, <2>2
<1>5. Converting'
  BY <1>3, LockAssumption DEF Counts, Converting
<1> QED  BY <1>4, <1>5 DEF Counts

LEMMA CountsGone ==
    ASSUME TypeOK, Counts, NEW p \in Procs, Gone(p)
    PROVE  Counts'
<1>1. /\ ex \in [Procs -> [Paths -> Nat]] /\ cur \in [Procs -> Busy]
      /\ kernel \in [Paths -> [Procs -> {"none", "sh", "ex"}]]
  BY DEF TypeOK
<1>2. \A q \in Procs, x \in Paths : ex'[q][x] = IF q = p THEN 0 ELSE ex[q][x]
  BY <1>1 DEF Gone
<1>3. \A q \in Procs : cur'[q].path = IF q = p THEN NoPath ELSE cur[q].path
  BY <1>1 DEF Gone
<1>4. \A q \in Procs \ {p}, x \in Paths : kernel'[x][q] = kernel[x][q]
  BY <1>1 DEF Gone
<1>5. CountedIsHeld'
  BY <1>2, <1>4 DEF Counts, CountedIsHeld
<1>6. Converting'
  BY <1>2, <1>3, LockAssumption DEF Counts, Converting
<1> QED  BY <1>5, <1>6 DEF Counts

LEMMA CountsExUnlock ==
    ASSUME TypeOK, Counts, NEW p \in Procs, NEW h \in Homes, ExUnlock(p, h)
    PROVE  Counts'
<1> DEFINE l == Last(held[p][h]).path
<1>1. l \in Paths /\ cur[p].path = NoPath
  BY TypeUndo DEF ExUnlock, Undoing
<1>2. kernel \in [Paths -> [Procs -> {"none", "sh", "ex"}]] /\ ex \in [Procs -> [Paths -> Nat]]
  BY DEF TypeOK
<1>3. ex' = [ex EXCEPT ![p][l] = IF ex[p][l] > 0 THEN ex[p][l] - 1 ELSE ex[p][l]]
  BY DEF ExUnlock
<1>4. (IF ex[p][l] > 0 THEN ex[p][l] - 1 ELSE ex[p][l]) \in Nat
  BY <1>1, <1>2
<1>5. \A y \in Procs, x \in Paths :
        ex'[y][x] = IF y = p /\ x = l
                    THEN (IF ex[p][l] > 0 THEN ex[p][l] - 1 ELSE ex[p][l]) ELSE ex[y][x]
  BY <1>1, <1>2, <1>3, <1>4, TableUpdate
<1>6. IF ex[p][l] = 1 THEN Flock(l, p, "none") ELSE UNCHANGED kernel
  BY DEF ExUnlock
<1>7. CountedIsHeld'
  <2>1. CASE ex[p][l] = 1
    <3>1. \A x \in Paths, y \in Procs :
            kernel'[x][y] = IF x = l /\ y = p THEN "none" ELSE kernel[x][y]
      BY <1>1, <1>2, <1>6, <2>1, TableUpdate DEF Flock
    <3> QED  BY <1>5, <2>1, <3>1 DEF Counts, CountedIsHeld
  <2>2. CASE ex[p][l] # 1
    <3>1. \A y \in Procs, x \in Paths : ex'[y][x] > 0 => ex[y][x] > 0
      BY <1>1, <1>2, <1>5, <2>2
    <3> QED  BY <1>6, <2>2, <3>1 DEF Counts, CountedIsHeld
  <2> QED  BY <2>1, <2>2
<1>8. Converting'
  <2>1. cur \in [Procs -> Busy]
    BY DEF TypeOK
  <2>2. cur' = IF ex[p][l] = 1 /\ sh[p][l] > 0
               THEN [cur EXCEPT ![p] = [home |-> h, path |-> l]] ELSE cur
    BY DEF ExUnlock
  <2>3. \A q \in Procs : cur'[q].path = IF q = p /\ ex[p][l] = 1 /\ sh[p][l] > 0 THEN l ELSE cur[q].path
    BY <2>1, <2>2
  <2>4. ASSUME NEW q \in Procs, cur'[q].path \in Paths PROVE ex'[q][cur'[q].path] = 0
    <3>1. CASE q = p
      BY <1>1, <1>5, <2>3, <2>4, <3>1, LockAssumption
    <3>2. CASE q # p
      BY <1>5, <2>3, <2>4, <3>2 DEF Counts, Converting
    <3> QED  BY <3>1, <3>2
  <2> QED  BY <2>4 DEF Converting
<1> QED  BY <1>7, <1>8 DEF Counts

LEMMA CountsNext == TypeOK /\ Control /\ Counts /\ [Next]_vars => Counts'
<1> SUFFICES ASSUME TypeOK, Control, Counts, [Next]_vars PROVE Counts'
  OBVIOUS
<1>0. cur \in [Procs -> Busy]
  BY DEF TypeOK
<1>1. ASSUME UNCHANGED <<kernel, ex>>,
             \A q \in Procs : cur'[q].path = cur[q].path \/ cur'[q].path = NoPath
      PROVE  Counts'
  <2>1. CountedIsHeld'
    BY <1>1 DEF Counts, CountedIsHeld
  <2> QED  BY <1>1, <2>1, ConvertingKept DEF Counts
<1>2. ASSUME NEW p \in Procs, NEW h \in Homes, NEW l \in Paths, TakeShared(p, h, l), UNCHANGED cur
      PROVE  Counts'
  <2>1. UNCHANGED kernel \/ (Flock(l, p, "sh") /\ ex[p][l] = 0)
    BY <1>2 DEF TakeShared, Locked, TypeOK
  <2>2. CountedIsHeld' /\ Converting'
    BY <1>2, <2>1, FlockCounted, ConvertingKept DEF TakeShared
  <2> QED  BY <2>2 DEF Counts
<1>4. CASE UNCHANGED vars
  BY <1>1, <1>4 DEF vars
<1>5. ASSUME NEW p \in Procs, Launch(p) PROVE Counts'
  BY <1>1, <1>2, <1>5, LockAssumption DEF Launch, TakeGlobal, Refused
<1>6. ASSUME NEW p \in Procs, Request(p) PROVE Counts'
  <2> PICK h \in Homes : OpenHome(p, h) \/ CloseHome(p, h)
        \/ \E l \in Paths : ShLock(p, h, l) \/ ExLock(p, h, l) \/ Escalate(p, h, l)
    BY <1>6 DEF Request
  <2>1. CASE OpenHome(p, h)
    BY <1>1, <1>2, <2>1, LockAssumption DEF OpenHome, TakeGlobal
  <2>2. CASE CloseHome(p, h)
    <3>1. cur' = [cur EXCEPT ![p].home = h]
      BY <2>2 DEF CloseHome
    <3>2. \A q \in Procs : cur'[q].path = cur[q].path
      BY <1>0, <3>1 DEF Busy
    <3> QED  BY <1>1, <2>2, <3>2 DEF CloseHome
  <2>3. ASSUME NEW l \in Paths, ShLock(p, h, l) PROVE Counts'
    BY <1>1, <1>2, <2>3 DEF ShLock, Refused
  <2>4. ASSUME NEW l \in Paths, ExLock(p, h, l) PROVE Counts'
    <3>1. CASE Refused(p, l, "ex")
      BY <1>1, <2>4, <3>1 DEF ExLock, Refused
    <3>2. CASE ~Refused(p, l, "ex")
      <4>1. /\ ex' = [ex EXCEPT ![p][l] = @ + 1]
            /\ Flock(l, p, "ex") \/ (UNCHANGED kernel /\ ex[p][l] > 0)
        BY <2>4, <3>2 DEF ExLock
      <4>2. UNCHANGED cur /\ cur[p].path = NoPath
        BY <2>4 DEF ExLock, MayRequest, Control, NotConverting
      <4> QED  BY <4>1, <4>2, CountsTaken
    <3> QED  BY <3>1, <3>2
  <2>5. ASSUME NEW l \in Paths, Escalate(p, h, l) PROVE Counts'
    <3>1. CountedIsHeld'
      BY <2>5, FlockCounted DEF Escalate
    <3>2. \A q \in Procs : cur'[q].path = IF q = p THEN l ELSE cur[q].path
      BY <1>0, <2>5 DEF Escalate
    <3>3. Converting'
      BY <2>5, <3>2 DEF Escalate, Counts, Converting
    <3> QED  BY <3>1, <3>3 DEF Counts
  <2> QED  BY <2>1, <2>2, <2>3, <2>4, <2>5
<1>7. ASSUME NEW p \in Procs, cur' = [cur EXCEPT ![p].path = NoPath]
      PROVE  \A q \in Procs : cur'[q].path = IF q = p THEN NoPath ELSE cur[q].path
  BY <1>0, <1>7 DEF Busy
<1>8. ASSUME NEW p \in Procs, Attempt(p) PROVE Counts'
  <2>1. CASE AttemptSucceeds(p)
    <3>1. cur[p].path \in Paths
      BY <2>1 DEF AttemptSucceeds, Control, Waiting
    <3>2. \A q \in Procs : cur'[q].path = IF q = p THEN NoPath ELSE cur[q].path
      BY <1>7, <2>1 DEF AttemptSucceeds
    <3> QED  BY <2>1, <3>1, <3>2, CountsTaken DEF AttemptSucceeds
  <2>2. CASE AttemptFails(p)
    <3>1. UNCHANGED cur \/ cur' = [cur EXCEPT ![p].path = NoPath]
      BY <2>2 DEF AttemptFails
    <3> QED  BY <1>1, <1>7, <2>2, <3>1 DEF AttemptFails
  <2> QED  BY <1>8, <2>1, <2>2 DEF Attempt
<1>9. ASSUME NEW p \in Procs, Release(p) PROVE Counts'
  <2>1. ASSUME NEW h \in Homes, ShUnlock(p, h) PROVE Counts'
    <3> DEFINE l == Last(held[p][h]).path
    <3>1. l \in Paths /\ UNCHANGED <<ex, cur>>
      BY <2>1, TypeUndo DEF ShUnlock
    <3>2. UNCHANGED kernel \/ (Flock(l, p, "none") /\ ex[p][l] = 0)
      BY <2>1 DEF ShUnlock
    <3>3. CountedIsHeld' /\ Converting'
      BY <3>1, <3>2, FlockCounted, ConvertingKept
    <3> QED  BY <3>3 DEF Counts
  <2>2. ASSUME NEW h \in Homes, ExUnlock(p, h) PROVE Counts'
    BY <2>2, CountsExUnlock
  <2>3. CASE Downgrade(p)
    <3>1. cur[p].path \in Paths
      BY <2>3 DEF TypeOK, Downgrade, Busy
    <3>2. ex[p][cur[p].path] = 0
      BY <3>1 DEF Counts, Converting
    <3>3. \A q \in Procs : cur'[q].path = IF q = p THEN NoPath ELSE cur[q].path
      BY <1>7, <2>3 DEF Downgrade
    <3>4. UNCHANGED kernel \/ Flock(cur[p].path, p, "sh")
      BY <2>3 DEF Downgrade
    <3>5. CountedIsHeld' /\ Converting'
      BY <2>3, <3>1, <3>2, <3>3, <3>4, FlockCounted, ConvertingKept DEF Downgrade
    <3> QED  BY <3>5 DEF Counts
  <2>4. CASE HomeClosed(p)
    <3>1. cur' = [cur EXCEPT ![p].home = Main]
      BY <2>4 DEF HomeClosed
    <3>2. \A q \in Procs : cur'[q].path = cur[q].path
      BY <1>0, <3>1 DEF Busy
    <3> QED  BY <1>1, <2>4, <3>2 DEF HomeClosed
  <2>5. CASE Shutdown(p)
    BY <2>5, CountsGone DEF Shutdown
  <2> QED  BY <1>9, <2>1, <2>2, <2>3, <2>4, <2>5 DEF Release
<1>10. ASSUME NEW p \in Procs, EndCommand(p) \/ Interrupt(p) PROVE Counts'
  BY <1>1, <1>7, <1>10 DEF EndCommand, Interrupt
<1>11. ASSUME NEW p \in Procs, Crash(p) PROVE Counts'
  BY <1>11, CountsGone DEF Crash
<1> QED  BY <1>4, <1>5, <1>6, <1>8, <1>9, <1>10, <1>11 DEF Next

-----------------------------------------------------------------------------
\* The inductive invariant.
IInv == TypeOK /\ Control /\ KernelExclusive /\ Counts

LEMMA InvInit == Init => IInv
<1> SUFFICES ASSUME Init PROVE IInv
  OBVIOUS
<1>1. KernelExclusive /\ Counts
  BY LockAssumption DEF Init, KernelExclusive, Counts, CountedIsHeld, Converting
<1> QED  BY <1>1, TypeInit, ControlInit DEF IInv

LEMMA InvNext == IInv /\ [Next]_vars => IInv'
BY TypeNext, ControlNext, KernelExclusiveNext, CountsNext DEF IInv, Control

LEMMA InvSafe == IInv => ExclusiveHeld
<1> SUFFICES ASSUME IInv, NEW p \in Procs, NEW l \in Paths, ex[p][l] > 0
             PROVE  /\ kernel[l][p] = "ex"
                    /\ \A q \in Procs \ {p} : kernel[l][q] = "none" /\ ex[q][l] = 0
  BY DEF ExclusiveHeld
<1>1. kernel[l][p] = "ex"
  BY DEF IInv, Counts, CountedIsHeld
<1>2. ASSUME NEW q \in Procs \ {p} PROVE kernel[l][q] = "none" /\ ex[q][l] = 0
  <2>1. kernel[l][q] = "none"
    BY <1>1 DEF IInv, KernelExclusive
  <2>2. ex[q][l] \in Nat /\ ~(ex[q][l] > 0)
    BY <2>1 DEF IInv, TypeOK, Counts, CountedIsHeld
  <2> QED  BY <2>1, <2>2
<1> QED  BY <1>1, <1>2

\* Whatever the number of processes, paths, homes and attempts: a process
\* that counts an exclusive lock on a path is the only one with a lock on it
\* (src/_lock.py:84, the counting of ex_lock over flock).
THEOREM ExclusiveSafe == Spec => []ExclusiveHeld
BY InvInit, InvNext, InvSafe, PTL DEF Spec

-----------------------------------------------------------------------------
(* The requests that homes remember.                                        *)

Asks(locks, l, kind, x, i) ==
    x \in Homes /\ i \in DOMAIN locks[x] /\ locks[x][i] = [path |-> l, kind |-> kind]

LEMMA RequestsAre ==
    ASSUME NEW locks, NEW l, NEW kind
    PROVE  /\ \A r \in Requests(locks, l, kind) : \E x, i : r = <<x, i>> /\ Asks(locks, l, kind, x, i)
           /\ \A x, i : Asks(locks, l, kind, x, i) <=> <<x, i>> \in Requests(locks, l, kind)
BY DEF Requests, Asks

\* Two memories of which one asks for one more request than the other.
LEMMA OneMore ==
    ASSUME NEW locks, NEW more, NEW h, NEW n, NEW l, NEW kind,
           \A x, i : Asks(more, l, kind, x, i) <=> Asks(locks, l, kind, x, i) \/ (x = h /\ i = n),
           ~Asks(locks, l, kind, h, n)
    PROVE  /\ Requests(more, l, kind) = Requests(locks, l, kind) \cup {<<h, n>>}
           /\ Requests(locks, l, kind) = Requests(more, l, kind) \ {<<h, n>>}
           /\ <<h, n>> \in Requests(more, l, kind) /\ <<h, n>> \notin Requests(locks, l, kind)
<1>1. ASSUME NEW r \in Requests(more, l, kind)
      PROVE  r \in Requests(locks, l, kind) \/ r = <<h, n>>
  <2>1. \E x, i : r = <<x, i>> /\ Asks(more, l, kind, x, i)
    BY RequestsAre
  <2>2. PICK x, i : r = <<x, i>> /\ Asks(more, l, kind, x, i)
    BY <2>1
  <2> QED  BY <2>2, RequestsAre, Zenon
<1>2. ASSUME NEW r \in Requests(locks, l, kind) PROVE r \in Requests(more, l, kind)
  <2>1. \E x, i : r = <<x, i>> /\ Asks(locks, l, kind, x, i)
    BY RequestsAre
  <2>2. PICK x, i : r = <<x, i>> /\ Asks(locks, l, kind, x, i)
    BY <2>1
  <2> QED  BY <2>2, RequestsAre, Zenon
<1>3. <<h, n>> \in Requests(more, l, kind) /\ <<h, n>> \notin Requests(locks, l, kind)
  BY RequestsAre, Zenon
<1> HIDE DEF Asks
<1> QED  BY <1>1, <1>2, <1>3

LEMMA FewerAsked ==
    ASSUME NEW few, NEW locks, NEW l, NEW kind,
           \A x, i : Asks(few, l, kind, x, i) => Asks(locks, l, kind, x, i)
    PROVE  Requests(few, l, kind) \subseteq Requests(locks, l, kind)
<1> SUFFICES ASSUME NEW r \in Requests(few, l, kind) PROVE r \in Requests(locks, l, kind)
  OBVIOUS
<1>1. PICK x, i : r = <<x, i>> /\ Asks(few, l, kind, x, i)
  BY RequestsAre, Zenon
<1> QED  BY <1>1, RequestsAre, Zenon

\* A request more at the end of one home's list, or one less.
Appended(locks, more, h, n, entry) ==
    /\ h \in Homes /\ n \in Nat /\ entry \in Entry
    /\ DOMAIN locks[h] = 1..n /\ DOMAIN more[h] = 1..(n + 1)
    /\ \A i \in 1..n : more[h][i] = locks[h][i]
    /\ more[h][n + 1] = entry
    /\ \A x \in Homes \ {h} : more[x] = locks[x]

Asked(locks, more, r, entry) ==
    /\ Requests(more, entry.path, entry.kind) = Requests(locks, entry.path, entry.kind) \cup {r}
    /\ Requests(locks, entry.path, entry.kind) = Requests(more, entry.path, entry.kind) \ {r}
    /\ r \in Requests(more, entry.path, entry.kind)
    /\ r \notin Requests(locks, entry.path, entry.kind)
    /\ \A l, kind : entry # [path |-> l, kind |-> kind] =>
         Requests(more, l, kind) = Requests(locks, l, kind)

LEMMA AppendedAsks ==
    ASSUME NEW locks, NEW more, NEW h, NEW n, NEW entry, Appended(locks, more, h, n, entry)
    PROVE  Asked(locks, more, <<h, n + 1>>, entry)
<1>1. ASSUME NEW l, NEW kind, NEW x, NEW i
      PROVE  Asks(more, l, kind, x, i) <=>
                \/ Asks(locks, l, kind, x, i)
                \/ x = h /\ i = n + 1 /\ entry = [path |-> l, kind |-> kind]
  <2>1. CASE x # h
    BY <2>1 DEF Asks, Appended
  <2>2. CASE x = h /\ i = n + 1
    BY <2>2 DEF Asks, Appended
  <2>3. CASE x = h /\ i # n + 1
    <3>1. i \in 1..(n + 1) <=> i \in 1..n
      BY <2>3 DEF Appended
    <3> QED  BY <2>3, <3>1 DEF Asks, Appended
  <2> QED  BY <2>1, <2>2, <2>3
<1>2. entry = [path |-> entry.path, kind |-> entry.kind]
  BY DEF Entry, Appended
<1>3. ~Asks(locks, entry.path, entry.kind, h, n + 1)
  BY DEF Asks, Appended
<1>4. \A x, i : Asks(more, entry.path, entry.kind, x, i) <=>
                    Asks(locks, entry.path, entry.kind, x, i) \/ (x = h /\ i = n + 1)
  BY <1>1, <1>2
<1>5. /\ Requests(more, entry.path, entry.kind)
            = Requests(locks, entry.path, entry.kind) \cup {<<h, n + 1>>}
      /\ Requests(locks, entry.path, entry.kind)
            = Requests(more, entry.path, entry.kind) \ {<<h, n + 1>>}
      /\ <<h, n + 1>> \in Requests(more, entry.path, entry.kind)
      /\ <<h, n + 1>> \notin Requests(locks, entry.path, entry.kind)
  BY <1>3, <1>4, OneMore
<1>6. ASSUME NEW l, NEW kind, entry # [path |-> l, kind |-> kind]
      PROVE  Requests(more, l, kind) = Requests(locks, l, kind)
  <2>1. Requests(more, l, kind) \subseteq Requests(locks, l, kind)
    BY <1>1, <1>6, FewerAsked, Zenon
  <2>2. Requests(locks, l, kind) \subseteq Requests(more, l, kind)
    BY <1>1, FewerAsked, Zenon
  <2> QED  BY <2>1, <2>2
<1> QED  BY <1>5, <1>6, Zenon DEF Asked

\* A request that is remembered is one more, of its path and kind.
LEMMA RequestAdded ==
    ASSUME NEW locks \in [Homes -> Seq(Entry)], NEW h \in Homes, NEW entry \in Entry,
           NEW new, new = [locks EXCEPT ![h] = Append(@, entry)], NEW n, n = Len(locks[h])
    PROVE  Appended(locks, new, h, n, entry)
<1>1. locks[h] \in Seq(Entry)
  OBVIOUS
<1>2. /\ n \in Nat /\ DOMAIN locks[h] = 1..n
      /\ DOMAIN Append(locks[h], entry) = 1..(n + 1) /\ Append(locks[h], entry)[n + 1] = entry
      /\ \A i \in 1..n : Append(locks[h], entry)[i] = locks[h][i]
  BY <1>1, LenProperties
<1>3. new[h] = Append(locks[h], entry) /\ \A x \in Homes \ {h} : new[x] = locks[x]
  OBVIOUS
<1> QED  BY <1>2, <1>3 DEF Appended

\* Undoing the last request of a home removes one, of its path and kind.
LEMMA RequestRemoved ==
    ASSUME NEW locks \in [Homes -> Seq(Entry)], NEW h \in Homes, locks[h] # <<>>,
           NEW new, new = [locks EXCEPT ![h] = Front(@)]
    PROVE  \E n \in Nat : Appended(new, locks, h, n, Last(locks[h]))
<1> DEFINE s == locks[h]
           n == Len(s)
<1>1. s \in Seq(Entry) /\ s # <<>>
  OBVIOUS
<1>2. new[h] = Front(s) /\ \A x \in Homes \ {h} : locks[x] = new[x]
  OBVIOUS
<1> HIDE DEF s
<1>3. n \in Nat /\ n # 0 /\ DOMAIN s = 1..n
  BY <1>1, EmptySeq, LenProperties
<1>4. Last(s) \in Entry /\ s[n] = Last(s)
  BY <1>1, LastAndFront DEF Last
<1>5. Front(s) = SubSeq(s, 1, n - 1)
  BY DEF Front
<1>6. DOMAIN Front(s) = 1..(n - 1) /\ \A i \in 1..(n - 1) : Front(s)[i] = s[i]
  BY <1>1, <1>3, <1>5, SubSeqProperties
<1> HIDE DEF n
<1>7. n - 1 \in Nat /\ (n - 1) + 1 = n
  BY <1>3
<1>8. Appended(new, locks, h, n - 1, Last(s))
  BY <1>2, <1>3, <1>4, <1>6, <1>7 DEF Appended, s
<1> QED  BY <1>7, <1>8 DEF s

\* A home that forgets its requests.
LEMMA RequestsForgotten ==
    ASSUME NEW locks \in [Homes -> Seq(Entry)], NEW h \in Homes, NEW l, NEW kind
    PROVE  Requests([locks EXCEPT ![h] = <<>>], l, kind) \subseteq Requests(locks, l, kind)
<1> DEFINE new == [locks EXCEPT ![h] = <<>>]
<1>1. DOMAIN new[h] = {} /\ \A x \in Homes \ {h} : new[x] = locks[x]
  BY EmptySeq
<1> HIDE DEF new
<1>2. \A x, i : Asks(new, l, kind, x, i) => Asks(locks, l, kind, x, i)
  BY <1>1 DEF Asks
<1>3. Requests(new, l, kind) \subseteq Requests(locks, l, kind)
  BY <1>2, FewerAsked, Zenon
<1> QED  BY <1>3 DEF new

LEMMA NothingAsked ==
    ASSUME NEW locks, NEW l, NEW kind, \A x \in Homes : locks[x] = <<>>
    PROVE  Requests(locks, l, kind) = {}
<1>1. \A x, i : ~Asks(locks, l, kind, x, i)
  BY EmptySeq DEF Asks
<1>2. \A r : r \notin Requests(locks, l, kind)
  BY <1>1, RequestsAre, Zenon
<1> QED  BY <1>2

-----------------------------------------------------------------------------
(* The counters against the requests.                                       *)

Count(p, l, kind) == IF kind = "sh" THEN sh[p][l] ELSE ex[p][l]

Within(locks, l, kind, count) ==
    IsFiniteSet(Requests(locks, l, kind)) /\ Cardinality(Requests(locks, l, kind)) <= count

\* The inductive form of RequestsCounted.
AllCounted ==
    \A p \in Procs, l \in Paths, kind \in {"sh", "ex"} : Within(held[p], l, kind, Count(p, l, kind))

LEMMA CountIs ==
    ASSUME TypeOK, NEW p \in Procs, NEW l \in Paths, NEW kind \in {"sh", "ex"}
    PROVE  Count(p, l, kind) \in Nat
BY DEF TypeOK, Count

LEMMA AllCountedInit == Init => AllCounted
<1> SUFFICES ASSUME Init, NEW p \in Procs, NEW l \in Paths, NEW kind \in {"sh", "ex"}
             PROVE  Within(held[p], l, kind, Count(p, l, kind))
  BY DEF AllCounted
<1>1. \A h \in Homes : held[p][h] = <<>>
  BY DEF Init
<1>2. Requests(held[p], l, kind) = {}
  BY <1>1, NothingAsked
<1>3. Count(p, l, kind) = 0
  BY DEF Init, Count
<1> QED  BY <1>2, <1>3, FS_EmptySet DEF Within

\* Nothing is counted or remembered that was not, or things are forgotten.
LEMMA CountedKept ==
    ASSUME AllCounted, UNCHANGED <<held, sh, ex>> PROVE AllCounted'
BY DEF AllCounted, Count

\* A request that is granted is counted and remembered.
LEMMA CountedTaken ==
    ASSUME TypeOK, AllCounted, NEW p \in Procs, NEW h \in Homes, NEW l \in Paths,
           NEW kind \in {"sh", "ex"}, Remember(p, h, l, kind),
           \/ kind = "sh" /\ sh' = [sh EXCEPT ![p][l] = @ + 1] /\ UNCHANGED ex
           \/ kind = "ex" /\ ex' = [ex EXCEPT ![p][l] = @ + 1] /\ UNCHANGED sh
    PROVE  AllCounted'
<1> DEFINE entry == [path |-> l, kind |-> kind]
<1>1. /\ sh \in [Procs -> [Paths -> Nat]] /\ ex \in [Procs -> [Paths -> Nat]]
      /\ held \in [Procs -> [Homes -> Seq(Entry)]]
  BY DEF TypeOK
<1>2. entry \in Entry
  BY DEF Entry
<1>3. held'[p] = [held[p] EXCEPT ![h] = Append(@, entry)] /\ \A q \in Procs \ {p} : held'[q] = held[q]
  BY <1>1 DEF Remember
<1>4. /\ Appended(held[p], held'[p], h, Len(held[p][h]), entry)
      /\ entry.path = l /\ entry.kind = kind
  <2>1. held[p] \in [Homes -> Seq(Entry)]
    BY <1>1
  <2> HIDE DEF entry
  <2>2. Appended(held[p], held'[p], h, Len(held[p][h]), entry)
    BY <1>2, <1>3, <2>1, RequestAdded
  <2> QED  BY <2>2 DEF entry
<1> HIDE DEF entry
<1>5. Asked(held[p], held'[p], <<h, Len(held[p][h]) + 1>>, entry)
  BY <1>4, AppendedAsks
<1>6. ASSUME NEW q \in Procs, NEW m \in Paths, NEW k \in {"sh", "ex"}
      PROVE  Count(q, m, k)' = IF q = p /\ m = l /\ k = kind THEN Count(q, m, k) + 1 ELSE Count(q, m, k)
  BY <1>1 DEF Count
<1>7. ASSUME NEW q \in Procs, NEW m \in Paths, NEW k \in {"sh", "ex"}
      PROVE  Within(held'[q], m, k, Count(q, m, k)')
  <2>1. Within(held[q], m, k, Count(q, m, k)) /\ Count(q, m, k) \in Nat
    BY CountIs DEF AllCounted
  <2>2. CASE q = p /\ m = l /\ k = kind
    <3>1. PICK r : /\ Requests(held'[p], l, kind) = Requests(held[p], l, kind) \cup {r}
                   /\ r \notin Requests(held[p], l, kind)
      BY <1>4, <1>5, Zenon DEF Asked
    <3>2. /\ IsFiniteSet(Requests(held'[p], l, kind))
          /\ Cardinality(Requests(held'[p], l, kind)) = Cardinality(Requests(held[p], l, kind)) + 1
      BY <2>1, <2>2, <3>1, FS_AddElement DEF Within
    <3>3. Cardinality(Requests(held[p], l, kind)) \in Nat
      BY <2>1, <2>2, FS_CardinalityType DEF Within
    <3>4. Count(q, m, k)' = Count(q, m, k) + 1
      BY <1>6, <2>2
    <3> QED  BY <2>1, <2>2, <3>2, <3>3, <3>4 DEF Within
  <2>3. CASE q # p
    BY <1>3, <1>6, <2>1, <2>3
  <2>4. CASE q = p /\ ~(m = l /\ k = kind)
    <3>1. entry # [path |-> m, kind |-> k]
      BY <2>4 DEF entry
    <3>2. Requests(held'[p], m, k) = Requests(held[p], m, k)
      BY <1>5, <3>1, Zenon DEF Asked
    <3> QED  BY <1>6, <2>1, <2>4, <3>2 DEF Within
  <2> QED  BY <2>2, <2>3, <2>4
<1> QED  BY <1>7 DEF AllCounted

\* Undoing a request takes one from its count.
LEMMA CountedUndone ==
    ASSUME TypeOK, AllCounted, NEW p \in Procs, NEW h \in Homes, held[p][h] # <<>>,
           held' = [held EXCEPT ![p][h] = Front(@)],
           NEW l, l = Last(held[p][h]).path, NEW kind, kind = Last(held[p][h]).kind,
           \/ kind = "sh" /\ sh' = [sh EXCEPT ![p][l] = IF @ > 0 THEN @ - 1 ELSE @] /\ UNCHANGED ex
           \/ kind = "ex" /\ ex' = [ex EXCEPT ![p][l] = IF @ > 0 THEN @ - 1 ELSE @] /\ UNCHANGED sh
    PROVE  AllCounted'
<1> DEFINE entry == Last(held[p][h])
<1>1. /\ sh \in [Procs -> [Paths -> Nat]] /\ ex \in [Procs -> [Paths -> Nat]]
      /\ held \in [Procs -> [Homes -> Seq(Entry)]]
  BY DEF TypeOK
<1>2. entry \in Entry /\ l \in Paths /\ kind \in {"sh", "ex"} /\ entry = [path |-> l, kind |-> kind]
  <2>1. held[p][h] \in Seq(Entry)
    BY <1>1
  <2>2. entry \in Entry
    BY <2>1, LastAndFront
  <2> QED  BY <2>2 DEF Entry
<1>3. held'[p] = [held[p] EXCEPT ![h] = Front(@)] /\ \A q \in Procs \ {p} : held'[q] = held[q]
  BY <1>1
<1>4. PICK n \in Nat : Appended(held'[p], held[p], h, n, entry)
  <2>1. held[p] \in [Homes -> Seq(Entry)]
    BY <1>1
  <2> QED  BY <1>3, <2>1, RequestRemoved
<1>5. entry.path = l /\ entry.kind = kind
  OBVIOUS
<1> HIDE DEF entry
<1>6. Asked(held'[p], held[p], <<h, n + 1>>, entry)
  BY <1>4, AppendedAsks
<1>7. ASSUME NEW q \in Procs, NEW m \in Paths, NEW k \in {"sh", "ex"}
      PROVE  /\ Count(q, m, k)' \in Nat
             /\ q = p /\ m = l /\ k = kind => Count(q, m, k)' >= Count(q, m, k) - 1
             /\ ~(q = p /\ m = l /\ k = kind) => Count(q, m, k)' = Count(q, m, k)
  BY <1>1, <1>2 DEF Count
<1>8. ASSUME NEW q \in Procs, NEW m \in Paths, NEW k \in {"sh", "ex"}
      PROVE  Within(held'[q], m, k, Count(q, m, k)')
  <2>1. Within(held[q], m, k, Count(q, m, k)) /\ Count(q, m, k) \in Nat
    BY CountIs DEF AllCounted
  <2>2. CASE q = p /\ m = l /\ k = kind
    <3>1. PICK r : /\ Requests(held'[p], l, kind) = Requests(held[p], l, kind) \ {r}
                   /\ r \in Requests(held[p], l, kind)
      BY <1>5, <1>6, Zenon DEF Asked
    <3>2. /\ IsFiniteSet(Requests(held'[p], l, kind))
          /\ Cardinality(Requests(held'[p], l, kind)) = Cardinality(Requests(held[p], l, kind)) - 1
      <4>1. IsFiniteSet(Requests(held[p], l, kind))
        BY <2>1, <2>2 DEF Within
      <4>2. /\ IsFiniteSet(Requests(held[p], l, kind) \ {r})
            /\ Cardinality(Requests(held[p], l, kind) \ {r}) =
                  IF r \in Requests(held[p], l, kind)
                  THEN Cardinality(Requests(held[p], l, kind)) - 1
                  ELSE Cardinality(Requests(held[p], l, kind))
        BY <4>1, FS_RemoveElement
      <4> QED  BY <3>1, <4>2
    <3>3. Cardinality(Requests(held[p], l, kind)) \in Nat
      BY <2>1, <2>2, FS_CardinalityType DEF Within
    <3>4. Count(q, m, k)' >= Count(q, m, k) - 1 /\ Count(q, m, k)' \in Nat
      BY <1>7, <2>2
    <3> QED  BY <2>1, <2>2, <3>2, <3>3, <3>4 DEF Within
  <2>3. CASE q # p
    BY <1>3, <1>7, <2>1, <2>3
  <2>4. CASE q = p /\ ~(m = l /\ k = kind)
    <3>1. entry # [path |-> m, kind |-> k]
      BY <1>2, <2>4
    <3>2. Requests(held'[p], m, k) = Requests(held[p], m, k)
      BY <1>6, <3>1, Zenon DEF Asked
    <3> QED  BY <1>7, <2>1, <2>4, <3>2 DEF Within
  <2> QED  BY <2>2, <2>3, <2>4
<1> QED  BY <1>8 DEF AllCounted

LEMMA CountedForgotten ==
    ASSUME TypeOK, AllCounted, NEW p \in Procs, NEW h \in Homes,
           held' = [held EXCEPT ![p][h] = <<>>], UNCHANGED <<sh, ex>>
    PROVE  AllCounted'
<1>1. held \in [Procs -> [Homes -> Seq(Entry)]]
  BY DEF TypeOK
<1>2. held'[p] = [held[p] EXCEPT ![h] = <<>>] /\ \A q \in Procs \ {p} : held'[q] = held[q]
  BY <1>1
<1>3. ASSUME NEW q \in Procs, NEW m \in Paths, NEW k \in {"sh", "ex"}
      PROVE  Within(held'[q], m, k, Count(q, m, k))
  <2>1. Within(held[q], m, k, Count(q, m, k)) /\ Count(q, m, k) \in Nat
    BY CountIs DEF AllCounted
  <2>2. Requests(held'[q], m, k) \in SUBSET Requests(held[q], m, k)
    BY <1>1, <1>2, RequestsForgotten
  <2>3. /\ IsFiniteSet(Requests(held'[q], m, k))
        /\ Cardinality(Requests(held'[q], m, k)) <= Cardinality(Requests(held[q], m, k))
    BY <2>1, <2>2, FS_Subset DEF Within
  <2>4. Cardinality(Requests(held'[q], m, k)) \in Nat /\ Cardinality(Requests(held[q], m, k)) \in Nat
    BY <2>1, <2>3, FS_CardinalityType DEF Within
  <2> QED  BY <2>1, <2>3, <2>4 DEF Within
<1>4. \A q, m, k : Count(q, m, k)' = Count(q, m, k)
  BY DEF Count
<1> QED  BY <1>3, <1>4 DEF AllCounted

LEMMA CountedGone ==
    ASSUME TypeOK, AllCounted, NEW p \in Procs, Gone(p) PROVE AllCounted'
<1>1. /\ sh \in [Procs -> [Paths -> Nat]] /\ ex \in [Procs -> [Paths -> Nat]]
      /\ held \in [Procs -> [Homes -> Seq(Entry)]]
  BY DEF TypeOK
<1>2. ASSUME NEW q \in Procs, NEW m \in Paths, NEW k \in {"sh", "ex"}
      PROVE  Within(held'[q], m, k, Count(q, m, k)')
  <2>1. CASE q = p
    <3>1. \A x \in Homes : held'[p][x] = <<>>
      BY <1>1 DEF Gone
    <3>2. Requests(held'[p], m, k) = {}
      BY <3>1, NothingAsked
    <3>3. Count(p, m, k)' = 0
      BY <1>1 DEF Gone, Count
    <3> QED  BY <2>1, <3>2, <3>3, FS_EmptySet DEF Within
  <2>2. CASE q # p
    <3>1. held'[q] = held[q] /\ Count(q, m, k)' = Count(q, m, k)
      BY <1>1, <2>2 DEF Gone, Count
    <3> QED  BY <3>1 DEF AllCounted
  <2> QED  BY <2>1, <2>2
<1> QED  BY <1>2 DEF AllCounted

LEMMA AllCountedNext == TypeOK /\ Control /\ AllCounted /\ [Next]_vars => AllCounted'
<1> SUFFICES ASSUME TypeOK, Control, AllCounted, [Next]_vars PROVE AllCounted'
  OBVIOUS
<1>1. ASSUME UNCHANGED <<held, sh, ex>> PROVE AllCounted'
  BY <1>1, CountedKept
<1>2. ASSUME NEW p \in Procs, NEW h \in Homes, NEW l \in Paths, TakeShared(p, h, l) PROVE AllCounted'
  BY <1>2, CountedTaken DEF TakeShared
<1>3. ASSUME NEW p \in Procs, Gone(p) PROVE AllCounted'
  BY <1>3, CountedGone
<1>4. CASE UNCHANGED vars
  BY <1>1, <1>4 DEF vars
<1>5. ASSUME NEW p \in Procs, Launch(p) PROVE AllCounted'
  BY <1>1, <1>2, <1>5, LockAssumption DEF Launch, TakeGlobal, Refused
<1>6. ASSUME NEW p \in Procs, Request(p) PROVE AllCounted'
  <2> PICK h \in Homes : OpenHome(p, h) \/ CloseHome(p, h)
        \/ \E l \in Paths : ShLock(p, h, l) \/ ExLock(p, h, l) \/ Escalate(p, h, l)
    BY <1>6 DEF Request
  <2>1. CASE OpenHome(p, h)
    BY <1>1, <1>2, <2>1, LockAssumption DEF OpenHome, TakeGlobal
  <2>2. CASE CloseHome(p, h)
    BY <1>1, <2>2 DEF CloseHome
  <2>3. ASSUME NEW l \in Paths, ShLock(p, h, l) PROVE AllCounted'
    BY <1>1, <1>2, <2>3 DEF ShLock, Refused
  <2>4. ASSUME NEW l \in Paths, ExLock(p, h, l) PROVE AllCounted'
    BY <1>1, <2>4, CountedTaken DEF ExLock, Refused
  <2>5. ASSUME NEW l \in Paths, Escalate(p, h, l) PROVE AllCounted'
    BY <1>1, <2>5 DEF Escalate
  <2> QED  BY <2>1, <2>2, <2>3, <2>4, <2>5
<1>7. ASSUME NEW p \in Procs, Attempt(p) PROVE AllCounted'
  <2>1. CASE AttemptSucceeds(p)
    <3>1. cur[p].path \in Paths /\ cur[p].home \in Homes
      BY <2>1 DEF AttemptSucceeds, Control, Waiting, TypeOK, Busy
    <3> QED  BY <2>1, <3>1, CountedTaken DEF AttemptSucceeds
  <2>2. CASE AttemptFails(p)
    BY <1>1, <2>2 DEF AttemptFails
  <2> QED  BY <1>7, <2>1, <2>2 DEF Attempt
<1>8. ASSUME NEW p \in Procs, Release(p) PROVE AllCounted'
  <2>1. ASSUME NEW h \in Homes, ShUnlock(p, h) PROVE AllCounted'
    BY <2>1, CountedUndone DEF ShUnlock, Undoing
  <2>2. ASSUME NEW h \in Homes, ExUnlock(p, h) PROVE AllCounted'
    BY <2>2, CountedUndone DEF ExUnlock, Undoing
  <2>3. CASE Downgrade(p)
    <3>1. cur[p].home \in Homes
      BY DEF TypeOK, Busy
    <3> QED  BY <1>1, <2>3, <3>1, CountedForgotten DEF Downgrade
  <2>4. CASE HomeClosed(p)
    BY <1>1, <2>4 DEF HomeClosed
  <2>5. CASE Shutdown(p)
    BY <1>3, <2>5 DEF Shutdown
  <2> QED  BY <1>8, <2>1, <2>2, <2>3, <2>4, <2>5 DEF Release
<1>9. ASSUME NEW p \in Procs, EndCommand(p) \/ Interrupt(p) PROVE AllCounted'
  BY <1>1, <1>9 DEF EndCommand, Interrupt
<1>10. ASSUME NEW p \in Procs, Crash(p) PROVE AllCounted'
  BY <1>3, <1>10 DEF Crash
<1> QED  BY <1>4, <1>5, <1>6, <1>7, <1>8, <1>9, <1>10 DEF Next

\* However many homes a process opens and closes, and however a release fails
\* half-way: undoing the requests of one home (LockManager.__del__,
\* src/_lock.py:219) never takes a count that another request still needs.
THEOREM CountsSuffice == Spec => []RequestsCounted
<1>1. Init => TypeOK /\ Control /\ AllCounted
  BY TypeInit, ControlInit, AllCountedInit
<1>2. TypeOK /\ Control /\ AllCounted /\ [Next]_vars => (TypeOK /\ Control /\ AllCounted)'
  BY TypeNext, ControlNext, AllCountedNext DEF Control
<1>3. AllCounted => RequestsCounted
  BY DEF AllCounted, Within, Count, RequestsCounted, Remembered
<1> QED  BY <1>1, <1>2, <1>3, PTL DEF Spec

\* A command that took a deployment exclusively has the kernel's exclusive lock on
\* it until it releases it itself, whatever the second home that it opens
\* (src/core.py:3918, 4118) locks and unlocks on the same path.
THEOREM OuterLockKept == Spec => []OuterKeepsLock
<1>1. Init => IInv /\ AllCounted
  BY InvInit, AllCountedInit
<1>2. IInv /\ AllCounted /\ [Next]_vars => (IInv /\ AllCounted)'
  BY InvNext, AllCountedNext DEF IInv
<1>3. IInv /\ AllCounted => OuterKeepsLock
  <2> SUFFICES ASSUME IInv, AllCounted, NEW p \in Procs, NEW l \in Paths,
                      NEW i \in DOMAIN held[p][Main],
                      held[p][Main][i] = [path |-> l, kind |-> "ex"]
               PROVE  kernel[l][p] = "ex"
    BY DEF OuterKeepsLock
  <2>1. <<Main, i>> \in Requests(held[p], l, "ex")
    <3>1. Asks(held[p], l, "ex", Main, i)
      BY LockAssumption DEF Asks
    <3> QED  BY <3>1, RequestsAre, Zenon
  <2>2. Within(held[p], l, "ex", ex[p][l]) /\ ex[p][l] \in Nat
    BY DEF AllCounted, Count, IInv, TypeOK
  <2>3. Cardinality(Requests(held[p], l, "ex")) \in Nat \ {0}
    BY <2>1, <2>2, FS_CardinalityType, FS_EmptySet DEF Within
  <2>4. ex[p][l] > 0
    BY <2>2, <2>3 DEF Within
  <2> QED  BY <2>4 DEF IInv, Counts, CountedIsHeld
<1> QED  BY <1>1, <1>2, <1>3, PTL DEF Spec

-----------------------------------------------------------------------------
(* With one home per process the counters keep the promise of LockPromise.  *)

Backing == \A p \in Procs, l \in Paths : Reading(p, l) => kernel[l][p] # "none"

Fresh == \A p \in Procs : pc[p] = "idle" => \A l \in Paths : sh[p][l] = 0

NeverClosing == \A p \in Procs : pc[p] # "closing"

PInv == Backing /\ Fresh /\ NeverClosing

\* A step of p leaves the other processes alone.
OthersKept(p) ==
    \A q \in Procs \ {p} :
        /\ sh'[q] = sh[q] /\ ex'[q] = ex[q] /\ pc'[q] = pc[q] /\ cur'[q] = cur[q]
        /\ \A l \in Paths : kernel'[l][q] = kernel[l][q]

Leaves(p) ==
    \A l \in Paths : (Reading(p, l)' => Reading(p, l)) /\ (ex'[p][l] > 0 => ex[p][l] > 0)

Reads(p, l) ==
    /\ Reading(p, l)' /\ \A m \in Paths \ {l} : Reading(p, m)' <=> Reading(p, m)
    /\ \A m \in Paths : ex'[p][m] = ex[p][m]

Writes(p, l) ==
    /\ ex'[p][l] > 0 /\ \A m \in Paths \ {l} : ex'[p][m] = ex[p][m]
    /\ Reading(p, l) => Reading(p, l)'
    /\ \A m \in Paths \ {l} : Reading(p, m)' <=> Reading(p, m)

\* What a step of p does to the rights of p, and what it keeps of PInv.
Moves(p) ==
    /\ Leaves(p) \/ \E l \in Paths : Reads(p, l) \/ Writes(p, l)
    /\ \A l \in Paths : Reading(p, l)' => kernel'[l][p] # "none"
    /\ pc'[p] = "idle" => \A l \in Paths : sh'[p][l] = 0
    /\ pc'[p] # "closing"

LEMMA PInvInit == Init => PInv
BY DEF Init, PInv, Backing, Fresh, NeverClosing, Reading

\* A step that gives up nothing of the kernel and takes no new right.
LEMMA MovesKept ==
    ASSUME TypeOK, PInv, NEW p \in Procs, OthersKept(p), UNCHANGED <<kernel, sh, ex, pc, cur>>
    PROVE  Moves(p)
BY DEF Moves, Leaves, Reading, PInv, Backing, Fresh, NeverClosing

\* A process that ends its command reads no more.
LEMMA MovesOut ==
    ASSUME TypeOK, NEW p \in Procs, pc'[p] = "exit",
           \A l \in Paths : ex'[p][l] > 0 => ex[p][l] > 0
    PROVE  Moves(p)
BY DEF Moves, Leaves, Reading

LEMMA MovesGone ==
    ASSUME TypeOK, NEW p \in Procs, Gone(p) PROVE Moves(p) /\ OthersKept(p)
<1>1. /\ kernel \in [Paths -> [Procs -> {"none", "sh", "ex"}]]
      /\ sh \in [Procs -> [Paths -> Nat]] /\ ex \in [Procs -> [Paths -> Nat]]
      /\ pc \in [Procs -> {"idle", "run", "escalate", "closing", "exit"}]
      /\ cur \in [Procs -> Busy]
  BY DEF TypeOK
<1>2. \A l \in Paths : sh'[p][l] = 0 /\ ex'[p][l] = 0
  BY <1>1 DEF Gone
<1>3. pc'[p] = "idle"
  BY <1>1 DEF Gone
<1>4. Moves(p)
  BY <1>2, <1>3 DEF Moves, Leaves, Reading
<1>5. ASSUME NEW q \in Procs \ {p}
      PROVE  /\ sh'[q] = sh[q] /\ ex'[q] = ex[q] /\ pc'[q] = pc[q] /\ cur'[q] = cur[q]
             /\ \A l \in Paths : kernel'[l][q] = kernel[l][q]
  BY <1>1 DEF Gone
<1> QED  BY <1>4, <1>5 DEF OthersKept

LEMMA FlockOthers ==
    ASSUME TypeOK, NEW p \in Procs, NEW l \in Paths, NEW kind, Flock(l, p, kind)
    PROVE  /\ kernel'[l][p] = kind
           /\ \A m \in Paths \ {l} : kernel'[m][p] = kernel[m][p]
           /\ \A q \in Procs \ {p}, m \in Paths : kernel'[m][q] = kernel[m][q]
BY DEF TypeOK, Flock

LEMMA MovesShared ==
    ASSUME TypeOK, CountedIsHeld, PInv, NEW p \in Procs, NEW h \in Homes, NEW l \in Paths,
           TakeShared(p, h, l), UNCHANGED cur, pc[p] \in {"idle", "run"},
           pc' = [pc EXCEPT ![p] = "run"]
    PROVE  Moves(p) /\ OthersKept(p)
<1>1. /\ sh \in [Procs -> [Paths -> Nat]] /\ ex \in [Procs -> [Paths -> Nat]]
      /\ pc \in [Procs -> {"idle", "run", "escalate", "closing", "exit"}]
  BY DEF TypeOK
<1>2. /\ sh'[p][l] = sh[p][l] + 1 /\ \A m \in Paths \ {l} : sh'[p][m] = sh[p][m]
      /\ \A q \in Procs \ {p} : sh'[q] = sh[q]
      /\ ex' = ex
  BY <1>1 DEF TakeShared
<1>3. pc'[p] = "run" /\ \A q \in Procs \ {p} : pc'[q] = pc[q]
  BY <1>1
<1>4. \A m \in Paths : sh[p][m] \in Nat /\ ex[p][m] \in Nat
  BY <1>1
<1>5. \A m \in Paths : Reading(p, m) <=> sh[p][m] > 0
  BY <1>4 DEF Reading, PInv, Fresh
<1>6. \A m \in Paths : Reading(p, m)' <=> sh'[p][m] > 0
  BY <1>3 DEF Reading
<1>7. Reads(p, l)
  BY <1>2, <1>4, <1>5, <1>6 DEF Reads
<1>8. /\ kernel'[l][p] # "none" /\ \A m \in Paths \ {l} : kernel'[m][p] = kernel[m][p]
      /\ \A q \in Procs \ {p}, m \in Paths : kernel'[m][q] = kernel[m][q]
  <2>1. CASE Locked(p, l) /\ UNCHANGED kernel
    <3>1. kernel[l][p] # "none"
      BY <1>5, <2>1 DEF Locked, CountedIsHeld, PInv, Backing
    <3> QED  BY <2>1, <3>1
  <2>2. CASE Flock(l, p, "sh")
    BY <2>2, FlockOthers
  <2> QED  BY <2>1, <2>2 DEF TakeShared
<1>9. \A m \in Paths : Reading(p, m)' => kernel'[m][p] # "none"
  BY <1>2, <1>5, <1>6, <1>8 DEF PInv, Backing
<1>10. OthersKept(p)
  BY <1>2, <1>3, <1>8 DEF OthersKept
<1> QED  BY <1>3, <1>7, <1>9, <1>10 DEF Moves

LEMMA MovesExclusive ==
    ASSUME TypeOK, Control, CountedIsHeld, PInv, NEW p \in Procs, NEW h \in Homes, NEW l \in Paths,
           ExLock(p, h, l)
    PROVE  Moves(p) /\ OthersKept(p)
<1>1. /\ sh \in [Procs -> [Paths -> Nat]] /\ ex \in [Procs -> [Paths -> Nat]]
      /\ pc \in [Procs -> {"idle", "run", "escalate", "closing", "exit"}]
  BY DEF TypeOK
<1>2. pc[p] = "run" /\ UNCHANGED <<sh, cur>>
  BY DEF ExLock, MayRequest, Refused
<1>3. CASE Refused(p, l, "ex") /\ Fail(p)
  <2>1. pc'[p] = "exit" /\ \A q \in Procs \ {p} : pc'[q] = pc[q]
    BY <1>1, <1>3 DEF Fail
  <2>2. UNCHANGED <<kernel, ex>>
    BY <1>3 DEF Refused
  <2> QED  BY <1>2, <2>1, <2>2, MovesOut DEF OthersKept
<1>4. CASE /\ \/ ex[p][l] > 0 /\ UNCHANGED kernel
              \/ ~Locked(p, l) /\ Grants(l, p, "ex") /\ Flock(l, p, "ex")
           /\ ex' = [ex EXCEPT ![p][l] = @ + 1]
           /\ UNCHANGED <<sh, pc>>
  <2>1. /\ ex'[p][l] = ex[p][l] + 1 /\ \A m \in Paths \ {l} : ex'[p][m] = ex[p][m]
        /\ \A q \in Procs \ {p} : ex'[q] = ex[q]
    BY <1>1, <1>4
  <2>2. ex[p][l] \in Nat
    BY <1>1
  <2>3. \A m \in Paths : Reading(p, m)' <=> Reading(p, m)
    BY <1>2, <1>4 DEF Reading
  <2>4. Writes(p, l)
    BY <2>1, <2>2, <2>3 DEF Writes
  <2>5. /\ kernel'[l][p] = "ex" /\ \A m \in Paths \ {l} : kernel'[m][p] = kernel[m][p]
        /\ \A q \in Procs \ {p}, m \in Paths : kernel'[m][q] = kernel[m][q]
    <3>1. CASE ex[p][l] > 0 /\ UNCHANGED kernel
      BY <3>1 DEF CountedIsHeld
    <3>2. CASE Flock(l, p, "ex")
      BY <3>2, FlockOthers
    <3> QED  BY <1>4, <3>1, <3>2
  <2>6. \A m \in Paths : Reading(p, m)' => kernel'[m][p] # "none"
    BY <2>3, <2>5 DEF PInv, Backing
  <2>7. OthersKept(p)
    BY <1>2, <1>4, <2>1, <2>5 DEF OthersKept
  <2> QED  BY <1>2, <1>4, <2>4, <2>6, <2>7 DEF Moves
<1> QED  BY <1>3, <1>4 DEF ExLock

LEMMA MovesEscalate ==
    ASSUME TypeOK, PInv, NEW p \in Procs, NEW h \in Homes, NEW l \in Paths, Escalate(p, h, l)
    PROVE  Moves(p) /\ OthersKept(p)
<1>1. /\ pc \in [Procs -> {"idle", "run", "escalate", "closing", "exit"}] /\ cur \in [Procs -> Busy]
  BY DEF TypeOK
<1>2. /\ pc[p] = "run" /\ UNCHANGED <<sh, ex>>
      /\ pc'[p] = "escalate" /\ \A q \in Procs \ {p} : pc'[q] = pc[q]
  BY <1>1 DEF Escalate, MayRequest
<1>3. cur'[p].path = l /\ \A q \in Procs \ {p} : cur'[q] = cur[q]
  BY <1>1 DEF Escalate
<1>4. /\ \A m \in Paths \ {l} : kernel'[m][p] = kernel[m][p]
      /\ \A q \in Procs \ {p}, m \in Paths : kernel'[m][q] = kernel[m][q]
  BY FlockOthers DEF Escalate
<1>5. ~Reading(p, l)' /\ \A m \in Paths \ {l} : Reading(p, m)' <=> Reading(p, m)
  BY <1>2, <1>3 DEF Reading
<1>6. Leaves(p)
  BY <1>2, <1>5 DEF Leaves
<1>7. \A m \in Paths : Reading(p, m)' => kernel'[m][p] # "none"
  BY <1>4, <1>5 DEF PInv, Backing
<1> QED  BY <1>2, <1>3, <1>4, <1>6, <1>7 DEF Moves, OthersKept

LEMMA MovesAttempt ==
    ASSUME TypeOK, Control, PInv, NEW p \in Procs, Attempt(p)
    PROVE  Moves(p) /\ OthersKept(p)
<1>1. /\ pc \in [Procs -> {"idle", "run", "escalate", "closing", "exit"}] /\ cur \in [Procs -> Busy]
      /\ sh \in [Procs -> [Paths -> Nat]] /\ ex \in [Procs -> [Paths -> Nat]]
  BY DEF TypeOK
<1>2. CASE AttemptSucceeds(p)
  <2> DEFINE l == cur[p].path
  <2>1. l \in Paths /\ pc[p] = "escalate"
    BY <1>2 DEF AttemptSucceeds, Control, Waiting
  <2>2. /\ kernel'[l][p] = "ex" /\ \A m \in Paths \ {l} : kernel'[m][p] = kernel[m][p]
        /\ \A q \in Procs \ {p}, m \in Paths : kernel'[m][q] = kernel[m][q]
    BY <1>2, <2>1, FlockOthers DEF AttemptSucceeds
  <2>3. /\ ex'[p][l] = ex[p][l] + 1 /\ \A m \in Paths \ {l} : ex'[p][m] = ex[p][m]
        /\ \A q \in Procs \ {p} : ex'[q] = ex[q]
    BY <1>1, <1>2, <2>1 DEF AttemptSucceeds
  <2>4. ex[p][l] \in Nat
    BY <1>1, <2>1
  <2>5. /\ pc'[p] = "run" /\ UNCHANGED sh
        /\ \A q \in Procs \ {p} : pc'[q] = pc[q] /\ cur'[q] = cur[q]
    BY <1>1, <1>2 DEF AttemptSucceeds
  <2>6. ~Reading(p, l) /\ \A m \in Paths \ {l} : Reading(p, m)' <=> Reading(p, m)
    BY <2>1, <2>5 DEF Reading
  <2>7. Writes(p, l)
    BY <2>3, <2>4, <2>6 DEF Writes
  <2>8. \A m \in Paths : Reading(p, m)' => kernel'[m][p] # "none"
    BY <2>2, <2>6 DEF PInv, Backing
  <2>9. OthersKept(p)
    BY <2>2, <2>3, <2>5 DEF OthersKept
  <2> QED  BY <2>1, <2>5, <2>7, <2>8, <2>9 DEF Moves
<1>3. CASE AttemptFails(p)
  <2>1. CASE UNCHANGED <<pc, cur>>
    BY <1>3, <2>1, MovesKept DEF AttemptFails, OthersKept
  <2>2. CASE Fail(p) /\ cur' = [cur EXCEPT ![p].path = NoPath]
    <3>1. /\ pc'[p] = "exit"
          /\ \A q \in Procs \ {p} : pc'[q] = pc[q] /\ cur'[q] = cur[q]
      BY <1>1, <2>2 DEF Fail
    <3> QED  BY <1>3, <3>1, MovesOut DEF AttemptFails, OthersKept
  <2> QED  BY <1>3, <2>1, <2>2 DEF AttemptFails
<1> QED  BY <1>2, <1>3 DEF Attempt

LEMMA MovesUndo ==
    ASSUME TypeOK, PInv, NEW p \in Procs, Release(p)
    PROVE  Moves(p) /\ OthersKept(p)
<1>1. /\ pc \in [Procs -> {"idle", "run", "escalate", "closing", "exit"}] /\ cur \in [Procs -> Busy]
      /\ sh \in [Procs -> [Paths -> Nat]] /\ ex \in [Procs -> [Paths -> Nat]]
  BY DEF TypeOK
<1>2. ASSUME NEW h \in Homes, ShUnlock(p, h) PROVE Moves(p) /\ OthersKept(p)
  <2> DEFINE l == Last(held[p][h]).path
  <2>1. l \in Paths /\ pc[p] = "exit" /\ UNCHANGED <<ex, pc, cur>>
    BY <1>2, TypeUndo DEF ShUnlock, Undoing, PInv, NeverClosing
  <2>2. \A q \in Procs \ {p} : sh'[q] = sh[q]
    BY <1>1, <1>2, <2>1 DEF ShUnlock
  <2>3. \A q \in Procs \ {p}, m \in Paths : kernel'[m][q] = kernel[m][q]
    <3>1. UNCHANGED kernel \/ Flock(l, p, "none")
      BY <1>2 DEF ShUnlock
    <3> QED  BY <2>1, <3>1, FlockOthers
  <2> QED  BY <2>1, <2>2, <2>3, MovesOut DEF OthersKept
<1>3. ASSUME NEW h \in Homes, ExUnlock(p, h) PROVE Moves(p) /\ OthersKept(p)
  <2> DEFINE l == Last(held[p][h]).path
  <2>1. l \in Paths /\ pc[p] = "exit" /\ UNCHANGED <<sh, pc>>
    BY <1>3, TypeUndo DEF ExUnlock, Undoing, PInv, NeverClosing
  <2>2. /\ \A q \in Procs \ {p} : ex'[q] = ex[q] /\ cur'[q] = cur[q]
        /\ \A m \in Paths \ {l} : ex'[p][m] = ex[p][m]
        /\ ex'[p][l] = IF ex[p][l] > 0 THEN ex[p][l] - 1 ELSE ex[p][l]
    BY <1>1, <1>3, <2>1 DEF ExUnlock
  <2>3. \A m \in Paths : ex'[p][m] > 0 => ex[p][m] > 0
    BY <1>1, <2>1, <2>2
  <2>4. \A q \in Procs \ {p}, m \in Paths : kernel'[m][q] = kernel[m][q]
    <3>1. UNCHANGED kernel \/ Flock(l, p, "none")
      BY <1>3 DEF ExUnlock
    <3> QED  BY <2>1, <3>1, FlockOthers
  <2> QED  BY <2>1, <2>2, <2>3, <2>4, MovesOut DEF OthersKept
<1>4. CASE Downgrade(p)
  <2>1. pc[p] = "exit" /\ UNCHANGED <<sh, ex, pc>> /\ cur[p].path \in Paths
    BY <1>1, <1>4 DEF Downgrade, PInv, NeverClosing, Busy
  <2>2. \A q \in Procs \ {p} : cur'[q] = cur[q]
    BY <1>1, <1>4 DEF Downgrade
  <2>3. \A q \in Procs \ {p}, m \in Paths : kernel'[m][q] = kernel[m][q]
    <3>1. UNCHANGED kernel \/ Flock(cur[p].path, p, "sh")
      BY <1>4 DEF Downgrade
    <3> QED  BY <2>1, <3>1, FlockOthers
  <2> QED  BY <2>1, <2>2, <2>3, MovesOut DEF OthersKept
<1>5. CASE HomeClosed(p)
  BY <1>5 DEF HomeClosed, PInv, NeverClosing
<1>6. CASE Shutdown(p)
  BY <1>6, MovesGone DEF Shutdown
<1> QED  BY <1>2, <1>3, <1>4, <1>5, <1>6 DEF Release

LEMMA MovesNext ==
    ASSUME Homes = {Main}, TypeOK, Control, CountedIsHeld, PInv, Next
    PROVE  \E p \in Procs : Moves(p) /\ OthersKept(p)
<1>1. pc \in [Procs -> {"idle", "run", "escalate", "closing", "exit"}]
  BY DEF TypeOK
<1>2. ASSUME NEW p \in Procs, Fail(p), UNCHANGED <<kernel, sh, ex>>,
             \A q \in Procs \ {p} : cur'[q] = cur[q]
      PROVE  Moves(p) /\ OthersKept(p)
  <2>1. pc'[p] = "exit" /\ \A q \in Procs \ {p} : pc'[q] = pc[q]
    BY <1>1, <1>2 DEF Fail
  <2> QED  BY <1>2, <2>1, MovesOut DEF OthersKept
<1>3. ASSUME NEW p \in Procs, Launch(p) PROVE Moves(p) /\ OthersKept(p)
  <2>1. pc[p] = "idle" /\ UNCHANGED cur
    BY <1>3 DEF Launch
  <2>2. CASE TakeShared(p, Main, Global) /\ pc' = [pc EXCEPT ![p] = "run"]
    BY <2>1, <2>2, MovesShared, LockAssumption
  <2>3. CASE UNCHANGED <<kernel, sh, ex, pc>>
    BY <2>1, <2>3, MovesKept DEF OthersKept
  <2>4. CASE UNCHANGED <<kernel, sh, ex>> /\ pc' = [pc EXCEPT ![p] = "run"]
    <3>1. pc'[p] = "run" /\ \A q \in Procs \ {p} : pc'[q] = pc[q]
      BY <1>1, <2>4
    <3>2. \A l \in Paths : ~Reading(p, l)'
      BY <2>1, <2>4 DEF Reading, PInv, Fresh
    <3> QED  BY <2>1, <2>4, <3>1, <3>2 DEF Moves, Leaves, OthersKept
  <2> QED  BY <1>3, <2>2, <2>3, <2>4 DEF Launch, TakeGlobal, Refused
<1>4. ASSUME NEW p \in Procs, Request(p) PROVE Moves(p) /\ OthersKept(p)
  <2> PICK h \in Homes : OpenHome(p, h) \/ CloseHome(p, h)
        \/ \E l \in Paths : ShLock(p, h, l) \/ ExLock(p, h, l) \/ Escalate(p, h, l)
    BY <1>4 DEF Request
  <2>1. ~OpenHome(p, h) /\ ~CloseHome(p, h)
    BY DEF OpenHome, CloseHome
  <2>2. ASSUME NEW l \in Paths, ShLock(p, h, l) PROVE Moves(p) /\ OthersKept(p)
    <3>1. pc[p] = "run" /\ UNCHANGED cur
      BY <2>2 DEF ShLock, MayRequest
    <3>2. CASE TakeShared(p, h, l) /\ UNCHANGED pc
      <4>1. pc' = [pc EXCEPT ![p] = "run"]
        BY <1>1, <3>1, <3>2
      <4> QED  BY <3>1, <3>2, <4>1, MovesShared
    <3>3. CASE Refused(p, l, "sh") /\ Fail(p)
      BY <1>2, <3>1, <3>3 DEF Refused
    <3> QED  BY <2>2, <3>2, <3>3 DEF ShLock
  <2> QED  BY <2>1, <2>2, MovesExclusive, MovesEscalate
<1>5. ASSUME NEW p \in Procs, Interrupt(p) \/ EndCommand(p) PROVE Moves(p) /\ OthersKept(p)
  <2>1. cur' = cur \/ cur' = [cur EXCEPT ![p].path = NoPath]
    BY <1>5 DEF Interrupt, EndCommand
  <2>2. \A q \in Procs \ {p} : cur'[q] = cur[q]
    BY <2>1 DEF TypeOK
  <2> QED  BY <1>2, <1>5, <2>2 DEF Interrupt, EndCommand
<1>6. ASSUME NEW p \in Procs, Crash(p) PROVE Moves(p) /\ OthersKept(p)
  BY <1>6, MovesGone DEF Crash
<1> QED  BY <1>3, <1>4, <1>5, <1>6, MovesAttempt, MovesUndo DEF Next

LEMMA PInvNext ==
    ASSUME TypeOK, PInv, NEW p \in Procs, Moves(p), OthersKept(p)
    PROVE  PInv'
<1>1. ASSUME NEW q \in Procs, NEW l \in Paths, Reading(q, l)' PROVE kernel'[l][q] # "none"
  <2>1. CASE q = p
    BY <1>1, <2>1 DEF Moves
  <2>2. CASE q # p
    BY <1>1, <2>2 DEF OthersKept, Reading, PInv, Backing
  <2> QED  BY <2>1, <2>2
<1>2. Fresh' /\ NeverClosing'
  BY DEF Fresh, NeverClosing, PInv, Moves, OthersKept
<1> QED  BY <1>1, <1>2 DEF PInv, Backing

\* A reader and a writer of a path are the same process.
LEMMA Alone ==
    ASSUME IInv', PInv', NEW p \in Procs, NEW q \in Procs \ {p}, NEW l \in Paths
    PROVE  ex'[p][l] > 0 => ~Reading(q, l)' /\ ~(ex'[q][l] > 0)
BY DEF IInv, KernelExclusive, Counts, CountedIsHeld, PInv, Backing

-----------------------------------------------------------------------------
MayRead == [l \in Paths |-> {q \in Procs : Reading(q, l)}]

MayWrite == [l \in Paths |-> {q \in Procs : ex[q][l] > 0}]

\* The rights of the other processes do not change.
LEMMA RightsKept ==
    ASSUME NEW p \in Procs, OthersKept(p), NEW l \in Paths, NEW q \in Procs \ {p}
    PROVE  (Reading(q, l)' <=> Reading(q, l)) /\ (ex'[q][l] > 0 <=> ex[q][l] > 0)
BY DEF OthersKept, Reading

LEMMA PromiseStep ==
    ASSUME IInv', PInv', NEW p \in Procs, Moves(p), OthersKept(p)
    PROVE  Promise!Next
<1>1. CASE Leaves(p)
  <2>1. MayRead' \in [Paths -> SUBSET Procs] /\ MayWrite' \in [Paths -> SUBSET Procs]
    BY DEF MayRead, MayWrite
  <2>2. ASSUME NEW l \in Paths
        PROVE  /\ MayRead'[l] \in {MayRead[l], MayRead[l] \ {p}}
               /\ MayWrite'[l] \in {MayWrite[l], MayWrite[l] \ {p}}
    BY <1>1, RightsKept DEF Leaves, MayRead, MayWrite
  <2>3. Promise!Leave(p)
    BY <2>1, <2>2 DEF Promise!Leave, MayRead, MayWrite
  <2> QED  BY <2>3 DEF Promise!Next
<1>2. ASSUME NEW l \in Paths, Reads(p, l) PROVE Promise!Next
  <2>1. MayRead' = [MayRead EXCEPT ![l] = @ \cup {p}] /\ MayWrite' = MayWrite
    BY <1>2, RightsKept DEF Reads, MayRead, MayWrite
  <2>2. ASSUME NEW q \in Procs \ {p} PROVE ~(ex[q][l] > 0)
    BY <1>2, RightsKept, Alone DEF Reads
  <2>3. MayWrite[l] \subseteq {p}
    BY <2>2 DEF MayWrite
  <2>4. Promise!Read(p, l)
    BY <2>1, <2>3 DEF Promise!Read, MayRead, MayWrite
  <2> QED  BY <2>4 DEF Promise!Next
<1>3. ASSUME NEW l \in Paths, Writes(p, l) PROVE Promise!Next
  <2>1. ASSUME NEW q \in Procs \ {p} PROVE ~Reading(q, l) /\ ~(ex[q][l] > 0)
    BY <1>3, RightsKept, Alone DEF Writes
  <2>2. MayRead[l] \cup MayWrite[l] \subseteq {p}
    BY <2>1 DEF MayRead, MayWrite
  <2>3. MayWrite' = [MayWrite EXCEPT ![l] = {p}]
    <3>1. \A m \in Paths : MayWrite'[m] = IF m = l THEN {p} ELSE MayWrite[m]
      BY <1>3, <2>1, RightsKept DEF Writes, MayWrite
    <3> QED  BY <3>1 DEF MayWrite
  <2>4. MayRead' = MayRead \/ MayRead' = [MayRead EXCEPT ![l] = {p}]
    <3>1. \A m \in Paths \ {l} : MayRead'[m] = MayRead[m]
      BY <1>3, RightsKept DEF Writes, MayRead
    <3>2. MayRead'[l] = MayRead[l] \/ MayRead'[l] = {p}
      BY <1>3, <2>1, RightsKept DEF Writes, MayRead
    <3> QED  BY <3>1, <3>2 DEF MayRead
  <2>5. Promise!Write(p, l)
    BY <2>2, <2>3, <2>4 DEF Promise!Write, MayRead, MayWrite
  <2> QED  BY <2>5 DEF Promise!Next
<1> QED  BY <1>1, <1>2, <1>3 DEF Moves

\* A command that has one home, as all but those that open a second one
\* (src/core.py:3918, 4118), writes a path only while no other command reads
\* or writes it: the counters of MixLock (src/_lock.py:84) implement
\* LockPromise, through conversion, refusal, interrupt, exit and crash.
THEOREM LocksKeepPromise == ASSUME Homes = {Main} PROVE Spec => KeepsPromise
<1>1. Init => IInv /\ PInv
  BY InvInit, PInvInit
<1>2. IInv /\ PInv /\ [Next]_vars => (IInv /\ PInv)' /\ [Promise!Next]_(Promise!vars)
  <2> SUFFICES ASSUME IInv, PInv, [Next]_vars
               PROVE  (IInv /\ PInv)' /\ [Promise!Next]_(Promise!vars)
    OBVIOUS
  <2>1. IInv'
    BY InvNext
  <2>2. CASE Next
    <3>1. PICK p \in Procs : Moves(p) /\ OthersKept(p)
      BY <2>2, MovesNext DEF IInv, Counts
    <3>2. PInv'
      BY <3>1, PInvNext DEF IInv
    <3> QED  BY <2>1, <3>1, <3>2, PromiseStep
  <2>3. CASE UNCHANGED vars
    BY <2>1, <2>3 DEF vars, PInv, Backing, Fresh, NeverClosing, Reading, Promise!vars
  <2> QED  BY <2>2, <2>3
<1>3. Init => Promise!Init
  BY DEF Init, Promise!Init, Reading
<1> QED  BY <1>1, <1>2, <1>3, PTL DEF Spec, KeepsPromise, Promise!Spec
=============================================================================
