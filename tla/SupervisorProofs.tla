-------------------------- MODULE SupervisorProofs --------------------------
(***************************************************************************)
(* The parent starts a child once, and counts the answers of its children, *)
(* whatever the configurations and the order of signals, answers and       *)
(* deaths.                                                                 *)
(***************************************************************************)
EXTENDS Supervisor, FiniteSetTheorems, TLAPS

(* The provers a leaf is tried with, in this order, unless it names one. *)
USE SMT, Zenon, Z3T(60)

-----------------------------------------------------------------------------
(* Sets of children.                                                       *)

\* The parent's pid variables hold 0 when there is no child, which no process has.
LEMMA ProcFacts == IsFiniteSet(Proc) /\ NoProc \notin Proc
  BY ParentAssumption DEF NoProc

\* A set of children has a size.
LEMMA SizeType ==
  ASSUME NEW S \in SUBSET Proc
  PROVE  IsFiniteSet(S) /\ Cardinality(S) \in Nat
  BY ProcFacts, FS_Subset, FS_CardinalityType

\* One child more, one child less.
LEMMA SizeMore ==
  ASSUME NEW S \in SUBSET Proc, NEW T \in SUBSET Proc, NEW p \in Proc, p \notin S, T = S \cup {p}
  PROVE  Cardinality(T) = Cardinality(S) + 1
  BY SizeType, FS_AddElement

\* One child fewer.
LEMMA SizeLess ==
  ASSUME NEW S \in SUBSET Proc, NEW T \in SUBSET Proc, NEW p \in Proc, p \in S, T = S \ {p}
  PROVE  Cardinality(T) + 1 = Cardinality(S)
  <1>1. S = T \cup {p} /\ p \notin T OBVIOUS
  <1> QED BY <1>1, SizeMore

\* A set is no larger than one that holds it; one without a child is empty.
LEMMA SizeLeq ==
  ASSUME NEW S \in SUBSET Proc, NEW T \in SUBSET Proc, T \subseteq S
  PROVE  Cardinality(T) <= Cardinality(S)
  BY SizeType, FS_Subset

\* No children.
LEMMA SizeZero ==
  ASSUME NEW S \in SUBSET Proc
  PROVE  Cardinality(S) = 0 <=> S = {}
  BY SizeType, FS_EmptySet

-----------------------------------------------------------------------------
(* Starting a child.                                                       *)

FreeOne(w) == \E p \in Proc : w.proc[p].phase = "free"
FreeTwo(w) == \E p, q \in Proc : p # q /\ w.proc[p].phase = "free" /\ w.proc[q].phase = "free"
FreeThree(w) ==
  \E p, q, r \in Proc : /\ p # q /\ q # r /\ p # r
                        /\ w.proc[p].phase = "free" /\ w.proc[q].phase = "free"
                        /\ w.proc[r].phase = "free"

\* The child that StartChild() forks.
NewProc(w) == CHOOSE q \in Proc : w.proc[q].phase = "free"
Forked(k) == [Free EXCEPT !.kind = k, !.phase = "forked"]

\* fork() finds a number that no child has.
LEMMA NewProcFree ==
  ASSUME NEW w, FreeOne(w)
  PROVE  NewProc(w) \in Proc /\ w.proc[NewProc(w)].phase = "free"
  BY DEF FreeOne, NewProc

\* A child as fork() leaves it.
LEMMA ForkedType ==
  ASSUME NEW k \in KindSet
  PROVE  /\ Forked(k) \in ChildType /\ Forked(k).kind = k /\ Forked(k).phase = "forked"
         /\ ~Forked(k).hup /\ ~Forked(k).term
  BY Zenon DEF Forked, Free, ChildType

\* The parts of a world that a handler leaves alone.
SamePar(v, w) ==
  /\ v.par.phase = w.par.phase /\ v.par.back = w.par.back /\ v.par.conf = w.par.conf
  /\ v.par.timers = w.par.timers /\ v.par.delay = w.par.delay /\ v.par.queued = w.par.queued
  /\ v.par.evt = w.par.evt

\* A record of the parent's type with another pid, or another field, has the type.
LEMMA ParSet ==
  ASSUME NEW q \in ParType
  PROVE  /\ \A x \in [KindSet -> Proc \cup {NoProc}] : [q EXCEPT !.pid = x] \in ParType
         /\ \A x \in [KindSet -> Nat] : [q EXCEPT !.timers = x] \in ParType
         /\ \A x \in [KindSet -> Nat] : [q EXCEPT !.delay = x] \in ParType
         /\ \A x \in 0..(Word - 1) : [q EXCEPT !.num = x] \in ParType
         /\ \A x \in ParPhase : [q EXCEPT !.phase = x] \in ParType
         /\ \A x \in LoopPhase : [q EXCEPT !.back = x] \in ParType
         /\ \A x \in Confs : [q EXCEPT !.conf = x] \in ParType
         /\ \A x \in BOOLEAN : [q EXCEPT !.queued = x] \in ParType
         /\ \A x \in Nat : [q EXCEPT !.evt = x] \in ParType
  BY DEF ParType

\* A world with a part replaced.
LEMMA WorldSet ==
  ASSUME NEW w \in WorldType
  PROVE  /\ \A x \in ParType : [w EXCEPT !.par = x] \in WorldType
         /\ \A x \in [Proc -> ChildType] : [w EXCEPT !.proc = x] \in WorldType
         /\ \A x \in Confs \cup {Torn} : [w EXCEPT !.copy = x] \in WorldType
         /\ \A x \in Seq({"forked", "writing", "good", "bad", "killed"}) :
              [w EXCEPT !.test = x] \in WorldType
  BY Zenon DEF WorldType

\* Forking changes the pid of the kind and one process that was free.
LEMMA StartChildIs ==
  ASSUME NEW w \in WorldType, NEW k \in KindSet, FreeOne(w)
  PROVE  LET v == StartChild(w, k)  n == NewProc(w)
         IN /\ v \in WorldType
            /\ v.par.pid = [w.par.pid EXCEPT ![k] = n] /\ v.par.num = w.par.num /\ SamePar(v, w)
            /\ v.proc = [w.proc EXCEPT ![n] = Forked(k)]
            /\ v.odd = w.odd /\ v.copy = w.copy /\ v.test = w.test
  <1> DEFINE v == StartChild(w, k)  n == NewProc(w)  pid == [w.par.pid EXCEPT ![k] = n]
             par1 == [w.par EXCEPT !.pid = pid]  proc1 == [w.proc EXCEPT ![n] = Forked(k)]
  <1>1. v = [w EXCEPT !.par.pid[k] = n, !.proc[n] = Forked(k)]
    BY DEF StartChild, NewProc, Forked
  <1>2. n \in Proc BY NewProcFree
  <1>3. Forked(k) \in ChildType BY ForkedType
  <1> HIDE DEF n
  <1>4. w.par \in ParType /\ w.proc \in [Proc -> ChildType] BY DEF WorldType
  <1>5. pid \in [KindSet -> Proc \cup {NoProc}] BY <1>2, <1>4 DEF ParType
  <1>6. par1 \in ParType BY Zenon, <1>4, <1>5, ParSet
  <1>7. proc1 \in [Proc -> ChildType] BY <1>2, <1>3, <1>4
  <1>8. v = [w EXCEPT !.par = par1, !.proc = proc1] BY <1>1
  <1>9. /\ par1.pid = pid /\ par1.num = w.par.num
        /\ par1.phase = w.par.phase /\ par1.back = w.par.back /\ par1.conf = w.par.conf
        /\ par1.timers = w.par.timers /\ par1.delay = w.par.delay /\ par1.queued = w.par.queued
        /\ par1.evt = w.par.evt
    BY <1>4 DEF ParType
  <1> HIDE DEF par1, proc1
  <1>10. v \in WorldType /\ v.par = par1 /\ v.proc = proc1 /\ v.odd = w.odd /\ v.copy = w.copy /\ v.test = w.test
    BY Zenon, <1>6, <1>7, <1>8 DEF WorldType
  <1> QED BY <1>9, <1>10 DEF n, proc1, SamePar

\* The sizes that Fit() compares are numbers.
LEMMA FitType ==
  ASSUME NEW w \in WorldType, NEW k \in KindSet
  PROVE  /\ Cardinality(Taken(w, k)) \in Nat /\ w.par.timers[k] \in Nat
         /\ Waiting(w, k) \in Nat /\ w.odd.early[k] \in Nat /\ w.par.num \in Nat /\ w.par.evt \in Nat
  <1>1. Taken(w, k) \in SUBSET Proc BY DEF Taken
  <1>2. w.par.timers[k] \in Nat BY DEF WorldType, ParType
  <1>3. w.odd.early[k] \in Nat BY DEF WorldType
  <1>4. w.par.num \in Nat /\ w.par.evt \in Nat BY ParentAssumption DEF WorldType, ParType
  <1> QED BY <1>1, <1>2, <1>3, <1>4, SizeType DEF Waiting

\* A new child is one more of its kind.
LEMMA StartChildTaken ==
  ASSUME NEW w \in WorldType, NEW k \in KindSet, FreeOne(w)
  PROVE  LET v == StartChild(w, k)
         IN /\ Cardinality(Taken(v, k)) = Cardinality(Taken(w, k)) + 1 /\ v.par.pid[k] # NoProc
            /\ \A j \in KindSet \ {k} : Taken(v, j) = Taken(w, j) /\ v.par.pid[j] = w.par.pid[j]
            /\ \A j \in KindSet : Waiting(v, j) = Waiting(w, j)
            /\ \A p \in Proc \ {NewProc(w)} : v.proc[p] = w.proc[p]
            /\ v.proc[NewProc(w)] = Forked(k)
  <1> DEFINE v == StartChild(w, k)  n == NewProc(w)
  <1>1. /\ v \in WorldType
        /\ v.par.pid = [w.par.pid EXCEPT ![k] = n] /\ SamePar(v, w)
        /\ v.proc = [w.proc EXCEPT ![n] = Forked(k)] /\ v.odd = w.odd
    BY StartChildIs
  <1>2. n \in Proc /\ w.proc[n].phase = "free" BY NewProcFree
  <1>3. Forked(k).kind = k /\ Forked(k).phase = "forked" BY ForkedType
  <1>4. w.proc \in [Proc -> ChildType] /\ w.par.pid \in [KindSet -> Proc \cup {NoProc}]
    BY DEF WorldType, ParType
  <1> HIDE DEF v, n
  <1>5. /\ v.proc[n] = Forked(k) /\ v.proc[n].kind = k /\ v.proc[n].phase = "forked"
        /\ \A p \in Proc \ {n} : v.proc[p] = w.proc[p]
    BY <1>1, <1>2, <1>3, <1>4
  <1>6. Taken(v, k) = Taken(w, k) \cup {n} /\ n \notin Taken(w, k)
    BY <1>2, <1>5 DEF Taken
  <1>7. \A j \in KindSet \ {k} : Taken(v, j) = Taken(w, j)
    BY <1>2, <1>5 DEF Taken
  <1>8. \A j \in KindSet : Waiting(v, j) = Waiting(w, j)
    BY <1>1 DEF SamePar, Waiting, Scripted
  <1>9. Cardinality(Taken(v, k)) = Cardinality(Taken(w, k)) + 1
    BY <1>2, <1>6, SizeMore DEF Taken
  <1>10. v.par.pid[k] # NoProc /\ \A j \in KindSet \ {k} : v.par.pid[j] = w.par.pid[j]
    BY <1>1, <1>2, <1>4, ProcFacts
  <1> QED BY <1>5, <1>7, <1>8, <1>9, <1>10 DEF v, n

\* There must have been room for it.
LEMMA StartChildFits ==
  ASSUME NEW w \in WorldType, NEW k \in KindSet, FreeOne(w), Kinded(w),
         \A j \in KindSet \ {k} : Fit(w, j),
         Cardinality(Taken(w, k)) + Waiting(w, k) <= w.odd.early[k]
  PROVE  Fits(StartChild(w, k)) /\ Kinded(StartChild(w, k))
  <1> DEFINE v == StartChild(w, k)  n == NewProc(w)
  <1>1. v \in WorldType /\ v.odd = w.odd BY Zenon, StartChildIs
  <1>2. n \in Proc /\ Forked(k).kind = k BY NewProcFree, ForkedType
  <1>3. /\ Cardinality(Taken(v, k)) = Cardinality(Taken(w, k)) + 1 /\ v.par.pid[k] # NoProc
        /\ \A j \in KindSet \ {k} : Taken(v, j) = Taken(w, j) /\ v.par.pid[j] = w.par.pid[j]
        /\ \A j \in KindSet : Waiting(v, j) = Waiting(w, j)
        /\ \A p \in Proc \ {n} : v.proc[p] = w.proc[p]
        /\ v.proc[n] = Forked(k)
    BY StartChildTaken
  <1> HIDE DEF v, n
  <1>4. Fit(v, k) BY <1>1, <1>3, FitType DEF Fit
  <1>5. \A j \in KindSet \ {k} : Fit(v, j) BY <1>1, <1>3 DEF Fit
  <1>6. Kinded(v) BY <1>2, <1>3 DEF Kinded
  <1> QED BY <1>4, <1>5, <1>6 DEF Fits, v

\* The history that StartEarly() keeps.
Noted(w, k) == [w EXCEPT !.odd.early[k] = @ + IF Due(w, k) THEN 1 ELSE 0]

\* The history notes a request that comes while a start is due, and nothing else changes.
LEMMA NotedIs ==
  ASSUME NEW w \in WorldType, NEW k \in KindSet
  PROVE  LET x == Noted(w, k)
         IN /\ x \in WorldType /\ x.par = w.par /\ x.proc = w.proc /\ x.copy = w.copy /\ x.test = w.test
            /\ x.odd.double = w.odd.double /\ x.odd.died = w.odd.died /\ x.odd.asked = w.odd.asked
            /\ x.odd.early = [w.odd.early EXCEPT ![k] = @ + IF Due(w, k) THEN 1 ELSE 0]
  <1> DEFINE more == IF Due(w, k) THEN 1 ELSE 0
             e == [w.odd.early EXCEPT ![k] = @ + more]
             o == [w.odd EXCEPT !.early = e]
  <1>1. Noted(w, k) = [w EXCEPT !.odd = o] BY DEF Noted
  <1>2. more \in Nat OBVIOUS
  <1> HIDE DEF more
  <1>3. w.odd \in [early : [KindSet -> Nat], double : BOOLEAN, died : BOOLEAN, asked : BOOLEAN]
    BY DEF WorldType
  <1>4. e \in [KindSet -> Nat] BY <1>2, <1>3
  <1> HIDE DEF e
  <1>5. /\ o \in [early : [KindSet -> Nat], double : BOOLEAN, died : BOOLEAN, asked : BOOLEAN]
        /\ o.double = w.odd.double /\ o.died = w.odd.died /\ o.asked = w.odd.asked /\ o.early = e
    BY <1>3, <1>4
  <1> HIDE DEF o
  <1>6. Noted(w, k) \in WorldType /\ Noted(w, k).odd = o
    BY Zenon, <1>1, <1>5 DEF WorldType
  <1>7. /\ Noted(w, k).par = w.par /\ Noted(w, k).proc = w.proc
        /\ Noted(w, k).copy = w.copy /\ Noted(w, k).test = w.test
    BY <1>1 DEF WorldType
  <1> QED BY <1>5, <1>6, <1>7 DEF e, more

\* What the history notes is nothing to fork().
LEMMA NewProcNoted ==
  ASSUME NEW w \in WorldType, NEW k \in KindSet
  PROVE  NewProc(Noted(w, k)) = NewProc(w) /\ (FreeOne(Noted(w, k)) <=> FreeOne(w))
  BY Zenon, NotedIs DEF NewProc, FreeOne

\* propagate_signal() starts a child that has no pid: one more of its kind, which the
\* history tells when a start of the kind was due.
LEMMA StartEarlyIs ==
  ASSUME NEW w \in WorldType, NEW k \in KindSet, FreeOne(w)
  PROVE  LET v == StartEarly(w, k)  n == NewProc(w)
         IN /\ v \in WorldType
            /\ v.par.pid = [w.par.pid EXCEPT ![k] = n] /\ v.par.num = w.par.num /\ SamePar(v, w)
            /\ v.proc = [w.proc EXCEPT ![n] = Forked(k)]
            /\ v.copy = w.copy /\ v.test = w.test
            /\ Smooth(v) => Smooth(w) /\ ~Due(w, k)
  <1> DEFINE v == StartEarly(w, k)  n == NewProc(w)  x == Noted(w, k)
  <1>1. v = StartChild(x, k) BY DEF StartEarly, Noted
  <1>2. /\ x \in WorldType /\ x.par = w.par /\ x.proc = w.proc /\ x.copy = w.copy /\ x.test = w.test
        /\ x.odd.double = w.odd.double /\ x.odd.died = w.odd.died
        /\ x.odd.early = [w.odd.early EXCEPT ![k] = @ + IF Due(w, k) THEN 1 ELSE 0]
    BY NotedIs
  <1>3. NewProc(x) = n /\ FreeOne(x) BY NewProcNoted
  <1> HIDE DEF x, n, v
  <1>4. /\ v \in WorldType
        /\ v.par.pid = [x.par.pid EXCEPT ![k] = n] /\ v.par.num = x.par.num /\ SamePar(v, x)
        /\ v.proc = [x.proc EXCEPT ![n] = Forked(k)]
        /\ v.odd = x.odd /\ v.copy = x.copy /\ v.test = x.test
    BY Zenon, <1>1, <1>2, <1>3, StartChildIs
  <1>5. w.odd.early \in [KindSet -> Nat] BY DEF WorldType
  <1>6. \A j \in KindSet : v.odd.early[j] = w.odd.early[j] + IF j = k /\ Due(w, k) THEN 1 ELSE 0
    BY <1>2, <1>4, <1>5
  <1>7. Smooth(v) => Smooth(w) /\ ~Due(w, k)
    BY <1>2, <1>4, <1>5, <1>6 DEF Smooth
  <1> QED BY <1>2, <1>4, <1>7 DEF SamePar, v, n

\* propagate_signal() starts a missing child: when a start was due the history has counted it.
LEMMA StartEarlyFits ==
  ASSUME NEW w \in WorldType, NEW k \in KindSet, FreeOne(w), Kinded(w), Fits(w),
         w.par.phase # "reading", w.par.pid[k] = NoProc
  PROVE  Fits(StartEarly(w, k)) /\ Kinded(StartEarly(w, k))
  <1> DEFINE x == Noted(w, k)
  <1>1. StartEarly(w, k) = StartChild(x, k) BY DEF StartEarly, Noted
  <1>2. /\ x \in WorldType /\ x.par = w.par /\ x.proc = w.proc
        /\ x.odd.early = [w.odd.early EXCEPT ![k] = @ + IF Due(w, k) THEN 1 ELSE 0]
    BY NotedIs
  <1>3. FreeOne(x) BY NewProcNoted
  <1> HIDE DEF x
  <1>4. Kinded(x) BY <1>2 DEF Kinded
  <1>5. w.odd.early \in [KindSet -> Nat] BY DEF WorldType
  <1>6. \A j \in KindSet : Taken(x, j) = Taken(w, j) /\ Waiting(x, j) = Waiting(w, j)
    BY <1>2 DEF Taken, Waiting, Scripted
  <1>7. \A j \in KindSet \ {k} : Fit(x, j)
    BY <1>2, <1>5, <1>6 DEF Fit, Fits
  <1>8. Due(w, k) <=> Waiting(w, k) # 0
    BY FitType DEF Due, Waiting, Scripted
  <1>9. Cardinality(Taken(x, k)) + Waiting(x, k) <= x.odd.early[k]
    <2>1. x.odd.early[k] = w.odd.early[k] + IF Due(w, k) THEN 1 ELSE 0 BY <1>2, <1>5
    <2>2. Fit(w, k) BY DEF Fits
    <2> QED BY <1>6, <1>8, <2>1, <2>2, FitType DEF Fit
  <1> QED BY Zenon, <1>1, <1>2, <1>3, <1>4, <1>7, <1>9, StartChildFits

\* propagate_signal() sends SIGHUP: only the child changes, and notices later.
LEMMA SignalIs ==
  ASSUME NEW w \in WorldType, NEW k \in KindSet, w.par.pid[k] # NoProc
  PROVE  LET v == Signal(w, k)  p == w.par.pid[k]
         IN /\ v \in WorldType /\ p \in Proc
            /\ v.par = w.par /\ v.odd = w.odd /\ v.copy = w.copy /\ v.test = w.test
            /\ \A q \in Proc : /\ v.proc[q].kind = w.proc[q].kind /\ v.proc[q].phase = w.proc[q].phase
                               /\ v.proc[q].term = w.proc[q].term
                               /\ q # p => v.proc[q] = w.proc[q]
            /\ w.proc[p].phase = "forked" => v.proc[p] = w.proc[p]
            /\ w.proc[p].phase # "forked" => v.proc[p].hup
  <1> DEFINE v == Signal(w, k)  p == w.par.pid[k]
             s == [w.proc[p] EXCEPT !.hup = TRUE]  proc1 == [w.proc EXCEPT ![p] = s]
  <1>1. p \in Proc BY DEF WorldType, ParType
  <1>2. w.proc \in [Proc -> ChildType] BY DEF WorldType
  <1>3. s \in ChildType BY Zenon, <1>1, <1>2 DEF ChildType
  <1>4. s.kind = w.proc[p].kind /\ s.phase = w.proc[p].phase /\ s.term = w.proc[p].term /\ s.hup
    BY <1>1, <1>2 DEF ChildType
  <1>5. CASE w.proc[p].phase = "forked"
    BY <1>1, <1>5 DEF Signal
  <1>6. CASE w.proc[p].phase # "forked"
    <2>1. v = [w EXCEPT !.proc = proc1] BY <1>6 DEF Signal
    <2> HIDE DEF s
    <2>2. proc1 \in [Proc -> ChildType] /\ proc1[p] = s /\ \A q \in Proc \ {p} : proc1[q] = w.proc[q]
      BY <1>1, <1>2, <1>3
    <2> HIDE DEF proc1
    <2>3. v \in WorldType /\ v.proc = proc1 BY Zenon, <2>1, <2>2 DEF WorldType
    <2>4. v.par = w.par /\ v.odd = w.odd /\ v.copy = w.copy /\ v.test = w.test
      BY <2>1 DEF WorldType
    <2> QED BY <1>1, <1>4, <1>6, <2>2, <2>3, <2>4
  <1> QED BY <1>5, <1>6

\* Fits() is about kinds, pids, timers and the history.
LEMMA FitsSame ==
  ASSUME NEW w, NEW v, Fits(w), Kinded(w),
         \A p \in Proc : v.proc[p].kind = w.proc[p].kind /\ v.proc[p].phase = w.proc[p].phase,
         v.par.pid = w.par.pid, v.par.timers = w.par.timers, Scripted(v) <=> Scripted(w),
         v.odd.early = w.odd.early
  PROVE  Fits(v) /\ Kinded(v)
  <1>1. \A k \in KindSet : Taken(v, k) = Taken(w, k) /\ Waiting(v, k) = Waiting(w, k)
    BY DEF Taken, Waiting
  <1> QED BY <1>1 DEF Fits, Fit, Kinded

\* What a signal to one kind of child leaves alone.
Spared(v, w) ==
  /\ v.par.num = w.par.num /\ SamePar(v, w) /\ v.copy = w.copy /\ v.test = w.test
  /\ Smooth(v) => Smooth(w)
  /\ NoConfig(v) => NoConfig(w)

\* One kind in propagate_signal(): a signal, a start, or nothing.
LEMMA PropagateOneKeeps ==
  ASSUME NEW w \in WorldType, NEW k \in KindSet, NEW hup \in BOOLEAN, FreeOne(w), Kinded(w), Fits(w),
         w.par.phase # "reading"
  PROVE  LET v == PropagateOne(w, k, hup)
         IN /\ v \in WorldType /\ Kinded(v) /\ Fits(v) /\ Spared(v, w)
            /\ \A j \in KindSet \ {k} : v.par.pid[j] = w.par.pid[j]
            /\ \A p \in Proc \ {NewProc(w)} : w.proc[p].phase = "free" => v.proc[p].phase = "free"
  <1> DEFINE v == PropagateOne(w, k, hup)  n == NewProc(w)
  <1>1. CASE w.par.pid[k] # NoProc /\ hup
    <2>1. v = Signal(w, k) BY <1>1 DEF PropagateOne
    <2> HIDE DEF v
    <2>2. /\ v \in WorldType /\ v.par = w.par /\ v.odd = w.odd /\ v.copy = w.copy /\ v.test = w.test
          /\ \A q \in Proc : v.proc[q].kind = w.proc[q].kind /\ v.proc[q].phase = w.proc[q].phase
      BY <1>1, <2>1, SignalIs
    <2>3. Fits(v) /\ Kinded(v) BY <2>2, FitsSame DEF Scripted
    <2>4. Spared(v, w) BY <2>2 DEF Spared, SamePar, Smooth, NoConfig
    <2> QED BY <2>2, <2>3, <2>4 DEF v
  <1>2. CASE w.par.pid[k] = NoProc /\ k \in w.par.conf.kinds /\ (hup \/ k # "vrrp")
    <2>1. v = StartEarly(w, k) BY <1>2 DEF PropagateOne
    <2>2. n \in Proc /\ w.proc[n].phase = "free" BY NewProcFree
    <2> HIDE DEF v, n
    <2>3. /\ v \in WorldType
          /\ v.par.pid = [w.par.pid EXCEPT ![k] = n] /\ v.par.num = w.par.num /\ SamePar(v, w)
          /\ v.proc = [w.proc EXCEPT ![n] = Forked(k)] /\ v.copy = w.copy /\ v.test = w.test
          /\ Smooth(v) => Smooth(w) /\ ~Due(w, k)
      BY <2>1, StartEarlyIs DEF n
    <2>4. w.proc \in [Proc -> ChildType] /\ w.par.pid \in [KindSet -> Proc \cup {NoProc}]
      BY DEF WorldType, ParType
    <2>5. \A p \in Proc \ {n} : v.proc[p] = w.proc[p] BY <2>3, <2>4
    <2>6. \A j \in KindSet \ {k} : v.par.pid[j] = w.par.pid[j] BY <2>3, <2>4
    <2>7. NoConfig(v) => NoConfig(w) BY <2>2, <2>5 DEF NoConfig
    <2>8. Fits(v) /\ Kinded(v) BY <1>2, <2>1, StartEarlyFits
    <2> QED BY <2>3, <2>5, <2>6, <2>7, <2>8 DEF Spared, v, n
  <1>3. CASE v = w
    BY <1>3 DEF Spared, SamePar
  <1>4. v = w \/ (w.par.pid[k] # NoProc /\ hup)
              \/ (w.par.pid[k] = NoProc /\ k \in w.par.conf.kinds /\ (hup \/ k # "vrrp"))
    BY DEF PropagateOne
  <1> QED BY <1>1, <1>2, <1>3, <1>4

\* The process numbers suffice for a child of each kind.
LEMMA FreeChain ==
  ASSUME NEW w, NEW v, \A p \in Proc \ {NewProc(w)} : w.proc[p].phase = "free" => v.proc[p].phase = "free"
  PROVE  /\ FreeThree(w) => FreeTwo(v)
         /\ FreeTwo(w) => FreeOne(v)
         /\ FreeThree(w) => FreeOne(w)
         /\ FreeTwo(w) => FreeOne(w)
  BY DEF FreeOne, FreeTwo, FreeThree

\* What two steps leave alone, both together do.
LEMMA SparedTwice ==
  ASSUME NEW w, NEW v, NEW u, Spared(v, w), Spared(u, v)
  PROVE  Spared(u, w)
  BY DEF Spared, SamePar

\* propagate_signal() for every kind.
LEMMA PropagateSignalKeeps ==
  ASSUME NEW w \in WorldType, NEW hup \in BOOLEAN, FreeThree(w), Kinded(w), Fits(w),
         w.par.phase # "reading"
  PROVE  LET v == PropagateSignal(w, hup)
         IN v \in WorldType /\ Kinded(v) /\ Fits(v) /\ Spared(v, w)
  <1> DEFINE a == PropagateOne(w, "vrrp", hup)
             b == PropagateOne(a, "checker", hup)
             v == PropagateSignal(w, hup)
  <1>1. v = PropagateOne(b, "bfd", hup) BY DEF PropagateSignal
  <1>2. "vrrp" \in KindSet /\ "checker" \in KindSet /\ "bfd" \in KindSet BY DEF KindSet
  <1>3. FreeOne(w) BY FreeChain
  <1>4. /\ a \in WorldType /\ Kinded(a) /\ Fits(a) /\ Spared(a, w)
        /\ \A p \in Proc \ {NewProc(w)} : w.proc[p].phase = "free" => a.proc[p].phase = "free"
    BY <1>2, <1>3, PropagateOneKeeps
  <1> HIDE DEF a
  <1>5. FreeTwo(a) BY <1>4, FreeChain
  <1>6. FreeOne(a) /\ a.par.phase # "reading" BY <1>4, <1>5, FreeChain DEF Spared, SamePar
  <1>7. /\ b \in WorldType /\ Kinded(b) /\ Fits(b) /\ Spared(b, a)
        /\ \A p \in Proc \ {NewProc(a)} : a.proc[p].phase = "free" => b.proc[p].phase = "free"
    BY <1>2, <1>4, <1>6, PropagateOneKeeps
  <1> HIDE DEF b
  <1>8. FreeOne(b) /\ b.par.phase # "reading" BY Zenon, <1>5, <1>6, <1>7, FreeChain DEF Spared, SamePar
  <1>9. v \in WorldType /\ Kinded(v) /\ Fits(v) /\ Spared(v, b)
    BY <1>1, <1>2, <1>7, <1>8, PropagateOneKeeps
  <1> QED BY <1>4, <1>7, <1>9, SparedTwice

-----------------------------------------------------------------------------
(* Counting the answers.                                                   *)

Owed(w) == Cardinality(Reading(w)) + Cardinality(Asked(w))

\* The number of answers that the children owe.
LEMMA OwedType ==
  ASSUME NEW w
  PROVE  Cardinality(Reading(w)) \in Nat /\ Cardinality(Asked(w)) \in Nat /\ Owed(w) \in Nat
  BY SizeType DEF Owed, Reading, Asked

\* A child is forked for a kind that has none: it owes one answer.
LEMMA ForkCounts ==
  ASSUME NEW w \in WorldType, NEW v \in WorldType, NEW k \in KindSet, NEW n \in Proc, Known(w),
         w.par.pid[k] = NoProc, w.proc[n].phase = "free",
         v.par.pid[k] = n, \A j \in KindSet \ {k} : v.par.pid[j] = w.par.pid[j],
         v.proc[n] = Forked(k), \A p \in Proc \ {n} : v.proc[p] = w.proc[p],
         v.par.timers = w.par.timers
  PROVE  Known(v) /\ Owed(v) = Owed(w) + 1
  <1>1. w.proc \in [Proc -> ChildType] /\ w.par.pid \in [KindSet -> Proc \cup {NoProc}]
    BY DEF WorldType, ParType
  <1>2. Forked(k).kind = k /\ Forked(k).phase = "forked" /\ ~Forked(k).hup /\ ~Forked(k).term
    BY ForkedType
  <1>3. v.proc[n] = Forked(k) /\ \A p \in Proc \ {n} : v.proc[p] = w.proc[p] OBVIOUS
  <1>4. v.par.pid[k] = n /\ n # NoProc /\ \A j \in KindSet \ {k} : v.par.pid[j] = w.par.pid[j]
    BY ProcFacts
  <1>5. Known(v)
    <2>1. \A p \in Proc : w.proc[p].phase # "free" => w.proc[p].kind \in KindSet \ {k} /\ p # n
      BY ProcFacts DEF Known
    <2>2. ASSUME NEW p \in Proc, v.proc[p].phase # "free"
          PROVE  /\ v.proc[p].kind \in KindSet /\ v.par.pid[v.proc[p].kind] = p /\ ~v.proc[p].term
                 /\ v.proc[p].phase \in {"forked", "ready", "running", "reloading"}
      BY <1>2, <1>3, <1>4, <2>1, <2>2 DEF Known
    <2>3. \A p \in Proc : v.proc[p].phase = "free" => ~v.proc[p].hup
      BY <1>2, <1>3 DEF Known
    <2>4. ASSUME NEW j \in KindSet, v.par.pid[j] # NoProc
          PROVE  v.proc[v.par.pid[j]].phase # "free" /\ v.proc[v.par.pid[j]].kind = j
      <3>1. CASE j = k BY <1>2, <1>3, <1>4, <3>1
      <3>2. CASE j # k
        <4>1. v.par.pid[j] = w.par.pid[j] /\ w.par.pid[j] \in Proc BY <1>1, <1>4, <2>4, <3>2
        <4>2. w.proc[w.par.pid[j]].phase # "free" /\ w.proc[w.par.pid[j]].kind = j
          BY <2>4, <4>1 DEF Known
        <4> QED BY <1>3, <4>1, <4>2
      <3> QED BY <3>1, <3>2
    <2> QED BY <2>2, <2>3, <2>4 DEF Known
  <1>6. Reading(v) = Reading(w) \cup {n} /\ n \notin Reading(w)
    BY <1>2, <1>3 DEF Reading
  <1>7. Asked(v) = Asked(w)
    BY <1>2, <1>3 DEF Asked, Known
  <1>8. Cardinality(Reading(v)) = Cardinality(Reading(w)) + 1
    BY <1>6, SizeMore DEF Reading
  <1> QED BY <1>5, <1>7, <1>8, OwedType DEF Owed

\* What the parent knows is about its children, their pids and the starts that are due.
LEMMA KnownSame ==
  ASSUME NEW w, Known(w), NEW v, v.proc = w.proc, v.par.pid = w.par.pid,
         v.par.timers = w.par.timers
  PROVE  Known(v)
  <1> DEFINE c == w.proc  i == w.par.pid  t == w.par.timers
  <1>1. /\ \A p \in Proc : c[p].phase # "free" =>
             /\ c[p].kind \in KindSet /\ i[c[p].kind] = p /\ ~c[p].term
             /\ c[p].phase \in {"forked", "ready", "running", "reloading"}
        /\ \A p \in Proc : c[p].phase = "free" => ~c[p].hup
        /\ \A k \in KindSet : i[k] # NoProc => c[i[k]].phase # "free" /\ c[i[k]].kind = k
        /\ \A k \in KindSet : t[k] = 0
    BY Zenon DEF Known
  <1>2. c = v.proc /\ i = v.par.pid /\ t = v.par.timers OBVIOUS
  <1> HIDE DEF c, i, t
  <1> QED BY Zenon, <1>1, <1>2 DEF Known

\* While do_reload() passes the request on, the kinds in D have been dealt with.
Answering(w, D) ==
  /\ Known(w) /\ w.par.evt = 0 /\ w.par.num = 0 /\ w.par.phase = "up"
  /\ \A k \in KindSet \ D : w.par.pid[k] # NoProc =>
       w.proc[w.par.pid[k]].phase = "running" /\ ~w.proc[w.par.pid[k]].hup
  /\ \A k \in D : k \in w.par.conf.kinds => w.par.pid[k] # NoProc

\* The request has reached the kind k as well.
Reached(v, w, D, k) ==
  /\ Answering(v, D \cup {k}) /\ Owed(v) = Owed(w) + Runs(v, k)
  /\ \A j \in KindSet \ {k} : v.par.pid[j] = w.par.pid[j]

\* One kind in propagate_signal(SIGHUP): the child owes one answer more, started or signalled.
LEMMA PropagateOneCounts ==
  ASSUME NEW w \in WorldType, NEW D \in SUBSET KindSet, NEW k \in KindSet, k \notin D, FreeOne(w),
         Answering(w, D), Smooth(PropagateOne(w, k, TRUE))
  PROVE  Reached(PropagateOne(w, k, TRUE), w, D, k)
  <1> DEFINE v == PropagateOne(w, k, TRUE)  n == NewProc(w)  p == w.par.pid[k]
  <1>0. w.par.pid \in [KindSet -> Proc \cup {NoProc}] BY DEF WorldType, ParType
  <1>1. CASE p # NoProc
    <2>1. v = Signal(w, k) BY <1>1 DEF PropagateOne
    <2> HIDE DEF v
    <2>2. w.proc[p].phase = "running" /\ ~w.proc[p].hup /\ p \in Proc
      BY <1>0, <1>1 DEF Answering
    <2>3. /\ v \in WorldType /\ v.par = w.par /\ v.odd = w.odd
          /\ \A q \in Proc : /\ v.proc[q].kind = w.proc[q].kind /\ v.proc[q].phase = w.proc[q].phase
                             /\ v.proc[q].term = w.proc[q].term
                             /\ q # p => v.proc[q] = w.proc[q]
          /\ v.proc[p].hup
      BY <1>1, <2>1, <2>2, SignalIs
    <2> HIDE DEF p
    <2>4. Known(v)
      <3>1. \A j \in KindSet : v.par.pid[j] # NoProc => v.par.pid[j] \in Proc BY <1>0, <2>3
      <3> QED BY <2>2, <2>3, <3>1 DEF Known, Answering
    <2>5. Reading(v) = Reading(w) BY <2>3 DEF Reading
    <2>6. Asked(v) = Asked(w) \cup {p} /\ p \notin Asked(w) BY <2>2, <2>3 DEF Asked
    <2>7. Cardinality(Asked(v)) = Cardinality(Asked(w)) + 1 BY <2>2, <2>6, SizeMore DEF Asked
    <2>8. Runs(v, k) = 1 BY <1>1, <2>3 DEF Runs, p
    <2>9. Owed(v) = Owed(w) + Runs(v, k) BY <2>5, <2>7, <2>8, OwedType DEF Owed
    <2>10. ASSUME NEW j \in KindSet \ (D \cup {k}), v.par.pid[j] # NoProc
           PROVE  v.proc[v.par.pid[j]].phase = "running" /\ ~v.proc[v.par.pid[j]].hup
      <3>1. w.par.pid[j] \in Proc /\ w.par.pid[j] # NoProc BY <1>0, <2>3, <2>10
      <3>2. w.proc[w.par.pid[j]].kind = j /\ w.proc[p].kind = k
        BY <1>1, <3>1 DEF Answering, Known, p
      <3>3. w.par.pid[j] # p BY <3>2
      <3>4. w.proc[w.par.pid[j]].phase = "running" /\ ~w.proc[w.par.pid[j]].hup
        BY <3>1 DEF Answering
      <3> QED BY <2>3, <3>1, <3>3, <3>4
    <2>11. Answering(v, D \cup {k}) BY <1>1, <2>3, <2>4, <2>10 DEF Answering, p
    <2> QED BY Zenon, <2>3, <2>9, <2>11 DEF v, Reached
  <1>2. CASE p = NoProc /\ k \in w.par.conf.kinds
    <2>1. v = StartEarly(w, k) BY <1>2 DEF PropagateOne
    <2>2. n \in Proc /\ w.proc[n].phase = "free" BY NewProcFree
    <2> HIDE DEF v, n
    <2>3. /\ v \in WorldType
          /\ v.par.pid = [w.par.pid EXCEPT ![k] = n] /\ v.par.num = w.par.num /\ SamePar(v, w)
          /\ v.proc = [w.proc EXCEPT ![n] = Forked(k)]
      BY <2>1, StartEarlyIs DEF n
    <2>0. k \in KindSet /\ w.par.pid[k] = NoProc /\ Known(w) /\ v.par.timers = w.par.timers
      BY <1>2, <2>3 DEF Answering, SamePar
    <2>4. /\ v.par.pid[k] = n /\ n # NoProc
          /\ \A j \in KindSet \ {k} : v.par.pid[j] = w.par.pid[j]
          /\ v.proc[n] = Forked(k) /\ \A q \in Proc \ {n} : v.proc[q] = w.proc[q]
      <3>1. w.proc \in [Proc -> ChildType] BY DEF WorldType
      <3> QED BY <1>0, <2>0, <2>2, <2>3, <3>1, ProcFacts
    <2>9. v \in WorldType BY <2>3
    <2>8. Known(v) /\ Owed(v) = Owed(w) + 1
      <3> HIDE DEF p
      <3> QED BY <2>0, <2>2, <2>4, <2>9, ForkCounts
    <2>5. Runs(v, k) = 1 BY <2>4 DEF Runs
    <2>6. ASSUME NEW j \in KindSet \ (D \cup {k}), v.par.pid[j] # NoProc
          PROVE  v.proc[v.par.pid[j]].phase = "running" /\ ~v.proc[v.par.pid[j]].hup
      <3>1. v.par.pid[j] = w.par.pid[j] /\ w.par.pid[j] \in Proc BY <1>0, <2>4, <2>6
      <3>2. w.proc[w.par.pid[j]].phase = "running" /\ ~w.proc[w.par.pid[j]].hup
        BY <2>6, <3>1 DEF Answering
      <3> QED BY <2>2, <2>4, <3>1, <3>2
    <2>7. Answering(v, D \cup {k}) BY <2>3, <2>4, <2>6, <2>8 DEF Answering, SamePar
    <2> QED BY Zenon, <2>4, <2>5, <2>7, <2>8 DEF v, Reached
  <1>3. CASE p = NoProc /\ k \notin w.par.conf.kinds
    <2>1. v = w BY <1>3 DEF PropagateOne
    <2>2. Runs(v, k) = 0 BY Zenon, <1>3, <2>1 DEF Runs
    <2>3. Answering(v, D \cup {k}) BY Zenon, <1>3, <2>1 DEF Answering
    <2> HIDE DEF v
    <2>4. Owed(v) = Owed(w) + Runs(v, k) BY <2>1, <2>2, OwedType
    <2> QED BY Zenon, <2>1, <2>3, <2>4 DEF v, Reached
  <1> QED BY Zenon, <1>1, <1>2, <1>3

\* Each child owes one answer when do_reload() has passed the request on.
LEMMA PropagateCounts ==
  ASSUME NEW w \in WorldType, FreeThree(w), Kinded(w), Fits(w), Answering(w, {}),
         Smooth(PropagateSignal(w, TRUE))
  PROVE  LET v == PropagateSignal(w, TRUE)
         IN /\ Answering(v, KindSet)
            /\ Owed(v) = Owed(w) + Runs(v, "vrrp") + Runs(v, "checker") + Runs(v, "bfd")
  <1> DEFINE a == PropagateOne(w, "vrrp", TRUE)
             b == PropagateOne(a, "checker", TRUE)
             v == PropagateSignal(w, TRUE)
             D0 == {}  D1 == {"vrrp"}  D2 == {"vrrp", "checker"}
  <1>1. v = PropagateOne(b, "bfd", TRUE) BY DEF PropagateSignal
  <1>2. "vrrp" \in KindSet /\ "checker" \in KindSet /\ "bfd" \in KindSet BY DEF KindSet
  <1>16. /\ D1 = D0 \cup {"vrrp"} /\ D2 = D1 \cup {"checker"} /\ KindSet = D2 \cup {"bfd"}
         /\ D0 \in SUBSET KindSet /\ D1 \in SUBSET KindSet /\ D2 \in SUBSET KindSet
         /\ "vrrp" # "checker" /\ "vrrp" # "bfd" /\ "checker" # "bfd"
         /\ "vrrp" \notin D0 /\ "checker" \notin D1 /\ "bfd" \notin D2
    BY DEF KindSet
  <1>17. Answering(w, D0) OBVIOUS
  <1> HIDE DEF D0, D1, D2
  <1>3. FreeOne(w) /\ w.par.phase # "reading" BY Zenon, FreeChain DEF Answering
  <1>4. /\ a \in WorldType /\ Kinded(a) /\ Fits(a) /\ Spared(a, w)
        /\ \A p \in Proc \ {NewProc(w)} : w.proc[p].phase = "free" => a.proc[p].phase = "free"
    BY Zenon, <1>2, <1>3, PropagateOneKeeps
  <1>5. Smooth(a) => Reached(a, w, D0, "vrrp")
    BY Zenon, <1>2, <1>3, <1>16, <1>17, PropagateOneCounts
  <1>18. Smooth(a) => Answering(a, D1) /\ Owed(a) = Owed(w) + Runs(a, "vrrp")
    BY Zenon, <1>5, <1>16 DEF Reached
  <1> HIDE DEF a
  <1>6. FreeTwo(a) BY <1>4, FreeChain
  <1>7. FreeOne(a) /\ a.par.phase # "reading" BY <1>3, <1>4, <1>6, FreeChain DEF Spared, SamePar
  <1>8. /\ b \in WorldType /\ Kinded(b) /\ Fits(b) /\ Spared(b, a)
        /\ \A p \in Proc \ {NewProc(a)} : a.proc[p].phase = "free" => b.proc[p].phase = "free"
    BY Zenon, <1>2, <1>4, <1>7, PropagateOneKeeps
  <1>19. Smooth(a) /\ Smooth(b) => Reached(b, a, D1, "checker")
    BY Zenon, <1>2, <1>4, <1>7, <1>16, <1>18, PropagateOneCounts
  <1>9. Smooth(a) /\ Smooth(b) =>
          /\ Answering(b, D2) /\ Owed(b) = Owed(a) + Runs(b, "checker")
          /\ b.par.pid["vrrp"] = a.par.pid["vrrp"]
    BY Zenon, <1>2, <1>16, <1>19 DEF Reached
  <1> HIDE DEF b
  <1>10. FreeOne(b) /\ b.par.phase # "reading" BY Zenon, <1>6, <1>7, <1>8, FreeChain DEF Spared, SamePar
  <1>11. Spared(v, b) BY Zenon, <1>1, <1>2, <1>8, <1>10, PropagateOneKeeps
  <1>12. Smooth(v) /\ Smooth(b) /\ Smooth(a) BY Zenon, <1>4, <1>8, <1>11 DEF Spared
  <1>20. Reached(v, b, D2, "bfd")
    <2>1. b \in WorldType /\ Answering(b, D2) /\ Smooth(PropagateOne(b, "bfd", TRUE))
      BY Zenon, <1>1, <1>8, <1>9, <1>12
    <2>2. Reached(PropagateOne(b, "bfd", TRUE), b, D2, "bfd")
      BY Zenon, <1>2, <1>10, <1>16, <2>1, PropagateOneCounts
    <2> QED BY Zenon, <1>1, <2>2
  <1>13. /\ Answering(v, KindSet) /\ Owed(v) = Owed(b) + Runs(v, "bfd")
         /\ v.par.pid["vrrp"] = b.par.pid["vrrp"] /\ v.par.pid["checker"] = b.par.pid["checker"]
    BY Zenon, <1>2, <1>16, <1>20 DEF Reached
  <1> HIDE DEF v
  <1>14. Runs(v, "vrrp") = Runs(a, "vrrp") /\ Runs(v, "checker") = Runs(b, "checker")
    BY <1>9, <1>12, <1>13 DEF Runs
  <1>15. \A k : Runs(v, k) \in Nat BY DEF Runs
  <1> QED BY Zenon, <1>18, <1>9, <1>12, <1>13, <1>14, <1>15, OwedType DEF v

\* During the startup script every child that propagate_signal() starts is too early.
LEMMA PropagateOneBlank ==
  ASSUME NEW w \in WorldType, NEW k \in KindSet, NEW hup \in BOOLEAN, FreeOne(w), Blank(w),
         w.par.phase = "script", Smooth(PropagateOne(w, k, hup))
  PROVE  PropagateOne(w, k, hup) = w
  <1>1. w.par.pid[k] = NoProc BY DEF Blank
  <1>2. CASE k \in w.par.conf.kinds /\ (hup \/ k # "vrrp")
    <2>1. PropagateOne(w, k, hup) = StartEarly(w, k) BY <1>1, <1>2 DEF PropagateOne
    <2>2. Smooth(StartEarly(w, k)) BY <2>1
    <2>3. ~Due(w, k) BY Zenon, <2>2, StartEarlyIs
    <2> QED BY <2>3 DEF Due
  <1>3. CASE ~(k \in w.par.conf.kinds /\ (hup \/ k # "vrrp"))
    BY <1>1, <1>3 DEF PropagateOne
  <1> QED BY <1>2, <1>3

\* Before the children are started propagate_signal() does nothing, or the history says so.
LEMMA PropagateBlank ==
  ASSUME NEW w \in WorldType, NEW hup \in BOOLEAN, FreeThree(w), Kinded(w), Fits(w), Blank(w),
         w.par.phase = "script", Smooth(PropagateSignal(w, hup))
  PROVE  PropagateSignal(w, hup) = w
  <1> DEFINE a == PropagateOne(w, "vrrp", hup)
             b == PropagateOne(a, "checker", hup)
             v == PropagateSignal(w, hup)
  <1>1. v = PropagateOne(b, "bfd", hup) BY DEF PropagateSignal
  <1>2. "vrrp" \in KindSet /\ "checker" \in KindSet /\ "bfd" \in KindSet BY DEF KindSet
  <1>3. FreeOne(w) BY FreeChain
  <1>4. /\ a \in WorldType /\ Kinded(a) /\ Fits(a) /\ Spared(a, w)
        /\ \A p \in Proc \ {NewProc(w)} : w.proc[p].phase = "free" => a.proc[p].phase = "free"
    BY <1>2, <1>3, PropagateOneKeeps
  <1>5. Smooth(a) => a = w BY <1>2, <1>3, PropagateOneBlank
  <1> HIDE DEF a
  <1>6. FreeTwo(a) BY <1>4, FreeChain
  <1>7. FreeOne(a) /\ a.par.phase # "reading" BY <1>4, <1>6, FreeChain DEF Spared, SamePar
  <1>8. /\ b \in WorldType /\ Kinded(b) /\ Fits(b) /\ Spared(b, a)
        /\ \A p \in Proc \ {NewProc(a)} : a.proc[p].phase = "free" => b.proc[p].phase = "free"
    BY <1>2, <1>4, <1>7, PropagateOneKeeps
  <1>9. Smooth(a) /\ Smooth(b) => b = w BY <1>2, <1>3, <1>5, PropagateOneBlank
  <1> HIDE DEF b
  <1>10. FreeOne(b) /\ b.par.phase # "reading" BY Zenon, <1>6, <1>7, <1>8, FreeChain DEF Spared, SamePar
  <1>11. Spared(v, b) BY <1>1, <1>2, <1>8, <1>10, PropagateOneKeeps
  <1>12. Smooth(v) /\ Smooth(b) /\ Smooth(a) BY <1>4, <1>8, <1>11 DEF Spared
  <1>13. b = w BY <1>9, <1>12
  <1> QED BY <1>1, <1>2, <1>3, <1>12, <1>13, PropagateOneBlank

-----------------------------------------------------------------------------
(* do_reload().                                                            *)

\* Fields of the parent that Orderly() and Fits() do not look at.
LEMMA ConfIs ==
  ASSUME NEW w \in WorldType, NEW conf \in Confs
  PROVE  LET x == [w EXCEPT !.par.conf = conf]
         IN /\ x \in WorldType /\ x.proc = w.proc /\ x.odd = w.odd /\ x.copy = w.copy /\ x.test = w.test
            /\ x.par.conf = conf /\ x.par.pid = w.par.pid /\ x.par.num = w.par.num
            /\ x.par.phase = w.par.phase /\ x.par.back = w.par.back /\ x.par.timers = w.par.timers
            /\ x.par.evt = w.par.evt
  <1> DEFINE x == [w EXCEPT !.par.conf = conf]  q == [w.par EXCEPT !.conf = conf]
  <1>1. w.par \in ParType BY DEF WorldType
  <1>2. q \in ParType BY <1>1, ParSet
  <1>3. /\ q.conf = conf /\ q.pid = w.par.pid /\ q.num = w.par.num /\ q.phase = w.par.phase
        /\ q.back = w.par.back /\ q.timers = w.par.timers /\ q.evt = w.par.evt
    BY <1>1 DEF ParType
  <1>4. x = [w EXCEPT !.par = q] OBVIOUS
  <1> HIDE DEF q, x
  <1>5. /\ x \in WorldType /\ x.par = q /\ x.proc = w.proc /\ x.odd = w.odd /\ x.copy = w.copy
        /\ x.test = w.test
    BY Zenon, <1>2, <1>4 DEF WorldType
  <1> QED BY <1>3, <1>5 DEF x

\* A kind counts once in num_reloading.
LEMMA RunsType ==
  ASSUME NEW w, NEW k
  PROVE  Runs(w, k) \in {0, 1}
  BY DEF Runs

\* do_reload() adds to num_reloading, and changes nothing else.
LEMMA CountReloadingIs ==
  ASSUME NEW w \in WorldType
  PROVE  LET v == CountReloading(w)
         IN /\ v \in WorldType /\ v.proc = w.proc /\ v.odd = w.odd /\ v.copy = w.copy /\ v.test = w.test
            /\ v.par.pid = w.par.pid /\ SamePar(v, w)
            /\ v.par.num = (w.par.num + Runs(w, "vrrp") + Runs(w, "checker") + Runs(w, "bfd")) % Word
  <1> DEFINE m == (w.par.num + Runs(w, "vrrp") + Runs(w, "checker") + Runs(w, "bfd")) % Word
             q == [w.par EXCEPT !.num = m]  v == CountReloading(w)
  <1>1. w.par \in ParType BY DEF WorldType
  <1>2. m \in 0..(Word - 1)
    <2>1. w.par.num \in Nat BY <1>1, ParentAssumption DEF ParType
    <2>2. w.par.num + Runs(w, "vrrp") + Runs(w, "checker") + Runs(w, "bfd") \in Nat
      BY <2>1, RunsType
    <2> QED BY <2>2, ParentAssumption
  <1> HIDE DEF m
  <1>3. q \in ParType BY <1>1, <1>2, ParSet
  <1>4. /\ q.num = m /\ q.pid = w.par.pid /\ q.phase = w.par.phase /\ q.back = w.par.back
        /\ q.conf = w.par.conf /\ q.timers = w.par.timers /\ q.delay = w.par.delay
        /\ q.queued = w.par.queued /\ q.evt = w.par.evt
    BY <1>1 DEF ParType
  <1>5. v = [w EXCEPT !.par = q] BY DEF CountReloading, m
  <1> HIDE DEF q, v
  <1>6. /\ v \in WorldType /\ v.par = q /\ v.proc = w.proc /\ v.odd = w.odd /\ v.copy = w.copy
        /\ v.test = w.test
    BY Zenon, <1>3, <1>5 DEF WorldType
  <1> QED BY <1>4, <1>6 DEF v, m, SamePar

\* A world before a reload: nothing of an earlier one is outstanding.
Ready(w) ==
  /\ Smooth(w) /\ w.par.phase = "script" => Blank(w)
  /\ Smooth(w) /\ w.par.phase = "up" /\ NoConfig(w) => Known(w) /\ Counted(w) /\ w.par.num = 0

\* Outside reload_config() a world that is ready for a reload is in order.
LEMMA ReadyOrderly ==
  ASSUME NEW w, w.par.phase # "reading", Ready(w)
  PROVE  Orderly(w)
  BY DEF Ready, Orderly, Scripted, Started

\* Nothing is owed: each child runs, and has no request waiting.
LEMMA NothingOwed ==
  ASSUME NEW w \in WorldType, Known(w), Counted(w), w.par.num = 0
  PROVE  /\ w.par.evt = 0 /\ Owed(w) = 0
         /\ \A k \in KindSet : w.par.pid[k] # NoProc =>
              w.proc[w.par.pid[k]].phase = "running" /\ ~w.proc[w.par.pid[k]].hup
  <1>1. w.par.evt \in Nat BY DEF WorldType, ParType
  <1>2. Cardinality(Reading(w)) = 0 /\ Cardinality(Asked(w)) = 0 /\ w.par.evt = 0
    <2>1. Cardinality(Reading(w)) \in Nat /\ Cardinality(Asked(w)) \in Nat BY OwedType
    <2>2. 0 = w.par.evt + Cardinality(Reading(w)) + Cardinality(Asked(w)) BY DEF Counted
    <2> QED BY <1>1, <2>1, <2>2
  <1>3. Reading(w) = {} /\ Asked(w) = {} BY <1>2, SizeZero DEF Reading, Asked
  <1>4. \A p \in Proc : w.proc[p].phase \notin {"forked", "ready", "reloading"} /\ ~w.proc[p].hup
    <2>1. \A p \in Proc : w.proc[p].phase \notin {"forked", "ready", "reloading"}
      BY <1>3 DEF Reading
    <2>2. \A p \in Proc : ~w.proc[p].hup
      BY <1>3, Zenon DEF Asked
    <2> QED BY <2>1, <2>2
  <1>5. ASSUME NEW k \in KindSet, w.par.pid[k] # NoProc
        PROVE  w.proc[w.par.pid[k]].phase = "running" /\ ~w.proc[w.par.pid[k]].hup
    <2>1. w.par.pid[k] \in Proc BY <1>5 DEF WorldType, ParType
    <2>2. w.proc[w.par.pid[k]].phase # "free" BY <1>5 DEF Known
    <2>3. w.proc[w.par.pid[k]].phase \in {"forked", "ready", "running", "reloading"}
      BY <2>1, <2>2 DEF Known
    <2> QED BY <1>4, <2>1, <2>3
  <1> QED BY <1>2, <1>5 DEF Owed

\* What reload_config() and do_reload() do once the configuration has been read.
LEMMA DoReloadKeeps ==
  ASSUME NEW w \in WorldType, NEW conf \in Confs, FreeThree(w), Kinded(w), Fits(w),
         w.par.phase # "reading", Ready(w)
  PROVE  LET v == DoReload(w, conf)
         IN v \in WorldType /\ Kinded(v) /\ Fits(v) /\ Orderly(v)
  <1>1. CASE conf.ns # w.par.conf.ns
    BY <1>1, ReadyOrderly DEF DoReload
  <1>2. CASE conf.ns = w.par.conf.ns
    <2> DEFINE x == [w EXCEPT !.par.conf = conf]  y == PropagateSignal(x, TRUE)  v == CountReloading(y)
    <2>1. DoReload(w, conf) = v BY <1>2 DEF DoReload
    <2>2. /\ x \in WorldType /\ x.proc = w.proc /\ x.odd = w.odd
          /\ x.par.conf = conf /\ x.par.pid = w.par.pid /\ x.par.num = w.par.num
          /\ x.par.phase = w.par.phase /\ x.par.back = w.par.back /\ x.par.timers = w.par.timers
          /\ x.par.evt = w.par.evt
      BY ConfIs
    <2> HIDE DEF x
    <2>3. FreeThree(x) /\ x.par.phase # "reading" BY <2>2 DEF FreeThree
    <2>4. Fits(x) /\ Kinded(x) BY <2>2, FitsSame DEF Scripted
    <2>5. y \in WorldType /\ Kinded(y) /\ Fits(y) /\ Spared(y, x)
      BY Zenon, <2>2, <2>3, <2>4, PropagateSignalKeeps
    <2>6. Smooth(y) /\ Answering(x, {}) =>
            /\ Answering(y, KindSet)
            /\ Owed(y) = Owed(x) + Runs(y, "vrrp") + Runs(y, "checker") + Runs(y, "bfd")
      BY Zenon, <2>2, <2>3, <2>4, PropagateCounts
    <2>7. Smooth(y) /\ x.par.phase = "script" /\ Blank(x) => y = x
      BY Zenon, <2>2, <2>3, <2>4, PropagateBlank
    <2> HIDE DEF y
    <2>8. /\ v \in WorldType /\ v.proc = y.proc /\ v.odd = y.odd
          /\ v.par.pid = y.par.pid /\ SamePar(v, y)
          /\ v.par.num = (y.par.num + Runs(y, "vrrp") + Runs(y, "checker") + Runs(y, "bfd")) % Word
      BY <2>5, CountReloadingIs
    <2> HIDE DEF v
    <2>9. Fits(v) /\ Kinded(v) BY <2>5, <2>8, FitsSame DEF SamePar, Scripted
    <2>10. /\ v.par.phase = w.par.phase /\ v.par.evt = w.par.evt /\ v.par.timers = w.par.timers
           /\ v.par.conf = conf /\ y.par.num = w.par.num /\ y.par.phase = w.par.phase
      BY <2>2, <2>5, <2>8 DEF Spared, SamePar
    <2>11. /\ Smooth(v) => Smooth(y) /\ Smooth(w)
           /\ NoConfig(v) => NoConfig(w)
      <3>1. Smooth(v) => Smooth(y) BY <2>8 DEF Smooth
      <3>2. Smooth(y) => Smooth(x) BY <2>5 DEF Spared
      <3>3. Smooth(x) => Smooth(w) BY <2>2 DEF Smooth
      <3>4. NoConfig(v) => NoConfig(y) BY <2>8 DEF NoConfig
      <3>5. NoConfig(y) => NoConfig(x) BY <2>5 DEF Spared
      <3>6. NoConfig(x) => NoConfig(w) BY <2>2 DEF NoConfig
      <3> QED BY <3>1, <3>2, <3>3, <3>4, <3>5, <3>6
    <2>12. ASSUME Smooth(v), Scripted(v) PROVE Blank(v)
      <3>1. w.par.phase = "script" BY <2>10, <2>12 DEF Scripted
      <3>2. Blank(w) BY <2>11, <2>12, <3>1 DEF Ready
      <3>3. Blank(x) BY <2>2, <3>2 DEF Blank
      <3>4. y = x BY <2>2, <2>7, <2>11, <2>12, <3>1, <3>3
      <3>5. \A k \in KindSet : Runs(y, k) = 0 BY <3>3, <3>4 DEF Runs, Blank
      <3>6. y.par.num = 0 BY <3>3, <3>4 DEF Blank
      <3>7. Runs(y, "vrrp") = 0 /\ Runs(y, "checker") = 0 /\ Runs(y, "bfd") = 0
        BY <3>5 DEF KindSet
      <3>8. v.par.num = 0
        <4>1. v.par.num = (0 + 0 + 0 + 0) % Word BY <2>8, <3>6, <3>7
        <4> QED BY <4>1, ParentAssumption
      <3> QED BY <2>8, <3>3, <3>4, <3>8 DEF Blank, SamePar
    <2>13. ASSUME Smooth(v), Started(v), NoConfig(v) PROVE Known(v) /\ Counted(v)
      <3>1. w.par.phase = "up" BY <2>10, <2>13 DEF Started
      <3>2. Known(w) /\ Counted(w) /\ w.par.num = 0 BY <2>11, <2>13, <3>1 DEF Ready
      <3>3. /\ w.par.evt = 0 /\ Owed(w) = 0
            /\ \A k \in KindSet : w.par.pid[k] # NoProc =>
                 w.proc[w.par.pid[k]].phase = "running" /\ ~w.proc[w.par.pid[k]].hup
        BY <3>2, NothingOwed
      <3>4. Known(x) BY <2>2, <3>2 DEF Known
      <3>5. Answering(x, {}) BY <2>2, <3>1, <3>2, <3>3, <3>4 DEF Answering
      <3>6. /\ Answering(y, KindSet)
            /\ Owed(y) = Owed(x) + Runs(y, "vrrp") + Runs(y, "checker") + Runs(y, "bfd")
        BY <2>6, <2>11, <2>13, <3>5
      <3>7. Reading(x) = Reading(w) /\ Asked(x) = Asked(w) BY <2>2 DEF Reading, Asked
      <3>8. Owed(x) = 0 BY <3>3, <3>7 DEF Owed
      <3>9. Reading(v) = Reading(y) /\ Asked(v) = Asked(y) BY <2>8 DEF Reading, Asked
      <3>10. v.par.num = Owed(y)
        <4>1. /\ Runs(y, "vrrp") \in {0, 1} /\ Runs(y, "checker") \in {0, 1} /\ Runs(y, "bfd") \in {0, 1}
          BY RunsType
        <4>2. y.par.num = 0 BY <2>10, <3>2
        <4> QED BY <2>8, <3>6, <3>8, <4>1, <4>2, ParentAssumption
      <3>11. Known(v)
        <4>1. Known(y) BY Zenon, <3>6 DEF Answering
        <4>2. v.proc = y.proc /\ v.par.pid = y.par.pid /\ v.par.timers = y.par.timers
          BY <2>8 DEF SamePar
        <4> QED BY Zenon, <4>1, <4>2, KnownSame
      <3>12. v.par.num = v.par.evt + Cardinality(Reading(v)) + Cardinality(Asked(v))
        <4>1. v.par.evt = 0 BY <2>10, <3>3
        <4>2. Cardinality(Reading(y)) \in Nat /\ Cardinality(Asked(y)) \in Nat BY OwedType
        <4> QED BY <3>9, <3>10, <4>1, <4>2 DEF Owed
      <3>13. \A k \in KindSet : k \in v.par.conf.kinds => v.par.pid[k] # NoProc
        BY <2>8, <3>6 DEF Answering, SamePar
      <3> QED BY <2>10, <3>1, <3>11, <3>12, <3>13 DEF Counted
    <2>14. Orderly(v) BY <2>12, <2>13 DEF Orderly
    <2> QED BY <2>1, <2>8, <2>9, <2>14
  <1> QED BY <1>1, <1>2

-----------------------------------------------------------------------------
(* A reload is requested, begins and completes.                            *)

\* Orderly() looks at the children, at pids, timers and counts, and at the phase.
LEMMA OrderlySame ==
  ASSUME NEW w, NEW v, Orderly(w), v.proc = w.proc,
         v.par.pid = w.par.pid, v.par.timers = w.par.timers, v.par.num = w.par.num,
         v.par.evt = w.par.evt, v.par.conf = w.par.conf, v.par.phase = w.par.phase,
         v.par.back = w.par.back, Smooth(v) => Smooth(w)
  PROVE  Orderly(v)
  <1>1. Scripted(v) => Scripted(w) BY DEF Scripted
  <1>2. Started(v) => Started(w) BY DEF Started
  <1>3. NoConfig(v) => NoConfig(w) BY DEF NoConfig
  <1>4. Blank(w) => Blank(v) BY DEF Blank
  <1>5. Known(w) => Known(v) BY DEF Known
  <1>6. Reading(v) = Reading(w) /\ Asked(v) = Asked(w) BY DEF Reading, Asked
  <1>7. Counted(w) => Counted(v) BY <1>6 DEF Counted
  <1> QED BY <1>1, <1>2, <1>3, <1>4, <1>5, <1>7 DEF Orderly

OddType == [early : [KindSet -> Nat], double : BOOLEAN, died : BOOLEAN, asked : BOOLEAN]

\* The history notes that two reloads overlap.
LEMMA DoubleIs ==
  ASSUME NEW o \in OddType, NEW b \in BOOLEAN
  PROVE  LET r == [o EXCEPT !.double = @ \/ b]
         IN /\ r \in OddType /\ r.early = o.early /\ r.died = o.died
            /\ r.double <=> (o.double \/ b)
  <1> DEFINE d == o.double \/ b  r == [o EXCEPT !.double = d]
  <1>1. d \in BOOLEAN OBVIOUS
  <1> HIDE DEF d
  <1>2. r \in OddType /\ r.early = o.early /\ r.died = o.died /\ r.double = d BY <1>1 DEF OddType
  <1> QED BY Zenon, <1>2 DEF d

Sound(w) == w \in WorldType /\ Kinded(w) /\ Fits(w) /\ Orderly(w)

\* start_validate_reload_conf_child()
LEMMA StartValidateKeeps ==
  ASSUME NEW w, Sound(w)
  PROVE  Sound(StartValidate(w)) /\ StartValidate(w).par = w.par
  <1> DEFINE v == StartValidate(w)  b == w.test # <<>>  o == [w.odd EXCEPT !.double = @ \/ b]
             t == Append(w.test, "forked")
  <1>1. w \in WorldType /\ Kinded(w) /\ Fits(w) /\ Orderly(w) BY DEF Sound
  <1>2. v = [w EXCEPT !.test = t, !.odd = o] BY DEF StartValidate
  <1>3. t \in Seq({"forked", "writing", "good", "bad", "killed"}) BY <1>1 DEF WorldType
  <1>4. w.odd \in OddType /\ b \in BOOLEAN BY <1>1 DEF WorldType, OddType
  <1>5. o \in OddType /\ o.early = w.odd.early /\ o.died = w.odd.died /\ (o.double <=> (w.odd.double \/ b))
    BY Zenon, <1>4, DoubleIs
  <1> HIDE DEF o, t, v
  <1>6. v \in WorldType /\ v.odd = o /\ v.par = w.par /\ v.proc = w.proc
    BY Zenon, <1>1, <1>2, <1>3, <1>5 DEF WorldType, OddType
  <1>7. Smooth(v) => Smooth(w) BY <1>5, <1>6 DEF Smooth
  <1>8. Orderly(v) BY <1>1, <1>6, <1>7, OrderlySame
  <1>9. Fits(v) /\ Kinded(v) BY <1>1, <1>5, <1>6, FitsSame DEF Scripted
  <1> QED BY <1>6, <1>8, <1>9 DEF Sound, v

\* reload_config() begins: a reload under way is an overlap, which the history notes.
LEMMA BeginReloadKeeps ==
  ASSUME NEW w, Sound(w), w.par.phase \in LoopPhase
  PROVE  Sound(BeginReload(w))
  <1> DEFINE v == BeginReload(w)  b == w.par.num # 0  o == [w.odd EXCEPT !.double = @ \/ b]
             q1 == [w.par EXCEPT !.back = w.par.phase]  q == [q1 EXCEPT !.phase = "reading"]
             c == IF w.par.conf.check THEN w.copy ELSE Torn
  <1>1. w \in WorldType /\ Kinded(w) /\ Fits(w) /\ Orderly(w) BY DEF Sound
  <1>2. v = [w EXCEPT !.par = q, !.copy = c, !.odd = o] BY Zenon DEF BeginReload
  <1>3. c \in Confs \cup {Torn} BY <1>1 DEF WorldType
  <1>4. w.odd \in OddType /\ b \in BOOLEAN BY <1>1 DEF WorldType, OddType
  <1>5. o \in OddType /\ o.early = w.odd.early /\ o.died = w.odd.died /\ (o.double <=> (w.odd.double \/ b))
    BY Zenon, <1>4, DoubleIs
  <1>6. w.par \in ParType /\ w.par.phase \in LoopPhase /\ "reading" \in ParPhase
    BY <1>1 DEF WorldType, ParType, ParPhase
  <1>7. q1 \in ParType BY <1>6, ParSet
  <1>8. q \in ParType BY Zenon, <1>6, <1>7, ParSet
  <1>9. /\ q.phase = "reading" /\ q.back = w.par.phase /\ q.pid = w.par.pid /\ q.timers = w.par.timers
        /\ q.num = w.par.num /\ q.evt = w.par.evt /\ q.conf = w.par.conf
    BY <1>6 DEF ParType
  <1> HIDE DEF o, q, c, v
  <1>10. v \in WorldType /\ v.odd = o /\ v.par = q /\ v.proc = w.proc
    BY Zenon, <1>1, <1>2, <1>3, <1>5, <1>8 DEF WorldType, OddType
  <1>11. Smooth(v) => Smooth(w) /\ w.par.num = 0 BY <1>5, <1>10 DEF Smooth
  <1>12. (Scripted(v) <=> Scripted(w)) /\ (Started(v) <=> Started(w))
    BY <1>9, <1>10 DEF Scripted, Started, LoopPhase
  <1>13. Fits(v) /\ Kinded(v) BY <1>1, <1>5, <1>9, <1>10, <1>12, FitsSame
  <1>14. ASSUME Smooth(v), Scripted(v) PROVE Blank(v)
    BY <1>1, <1>9, <1>10, <1>11, <1>12, <1>14 DEF Orderly, Blank
  <1>15. ASSUME Smooth(v), Started(v), NoConfig(v) PROVE Known(v) /\ Counted(v)
    <2>1. NoConfig(w) BY <1>10, <1>15 DEF NoConfig
    <2>2. Known(w) /\ Counted(w) BY <1>1, <1>11, <1>12, <1>15, <2>1 DEF Orderly
    <2>3. Known(v) BY <1>9, <1>10, <2>2 DEF Known
    <2>4. Reading(v) = Reading(w) /\ Asked(v) = Asked(w) BY <1>10 DEF Reading, Asked
    <2>5. Counted(v) BY <1>9, <1>10, <1>11, <1>15, <2>2, <2>4 DEF Counted
    <2> QED BY <2>3, <2>5
  <1>16. Orderly(v) BY <1>14, <1>15 DEF Orderly
  <1> QED BY <1>10, <1>13, <1>16 DEF Sound, v

\* start_reload()
LEMMA StartReloadKeeps ==
  ASSUME NEW w, Sound(w), w.par.phase \in LoopPhase
  PROVE  Sound(StartReload(w))
  BY StartValidateKeeps, BeginReloadKeeps DEF StartReload

\* A reload is queued, or no longer queued.
LEMMA QueuedKeeps ==
  ASSUME NEW w, Sound(w), NEW b \in BOOLEAN
  PROVE  LET v == [w EXCEPT !.par.queued = b] IN Sound(v) /\ v.par.phase = w.par.phase
  <1> DEFINE q == [w.par EXCEPT !.queued = b]  v == [w EXCEPT !.par = q]
  <1>1. w \in WorldType /\ Kinded(w) /\ Fits(w) /\ Orderly(w) BY DEF Sound
  <1>2. w.par \in ParType BY <1>1 DEF WorldType
  <1>3. q \in ParType BY <1>2, ParSet
  <1>4. /\ q.phase = w.par.phase /\ q.back = w.par.back /\ q.pid = w.par.pid /\ q.timers = w.par.timers
        /\ q.num = w.par.num /\ q.evt = w.par.evt /\ q.conf = w.par.conf
    BY <1>2 DEF ParType
  <1> HIDE DEF q
  <1>5. v \in WorldType /\ v.odd = w.odd /\ v.par = q /\ v.proc = w.proc
    BY Zenon, <1>1, <1>3 DEF WorldType
  <1> HIDE DEF v
  <1>6. Smooth(v) => Smooth(w) BY <1>5 DEF Smooth
  <1>7. Orderly(v) BY <1>1, <1>4, <1>5, <1>6, OrderlySame
  <1>8. Fits(v) /\ Kinded(v) BY <1>1, <1>4, <1>5, FitsSame DEF Scripted
  <1>9. Sound(v) /\ v.par.phase = w.par.phase BY <1>4, <1>5, <1>7, <1>8 DEF Sound
  <1> QED BY <1>9 DEF v, q

\* process_reload_signal()
LEMMA ProcessReloadKeeps ==
  ASSUME NEW w, Sound(w), w.par.phase \in LoopPhase
  PROVE  Sound(ProcessReload(w))
  BY Zenon, StartReloadKeeps, QueuedKeeps DEF ProcessReload

\* child_reloaded_thread(), when the last answer has come: the queued reload starts.
LEMMA CompletedKeeps ==
  ASSUME NEW w, Sound(w), w.par.phase \in LoopPhase
  PROVE  Sound(Completed(w))
  <1> DEFINE x == [w EXCEPT !.par.queued = FALSE]
  <1>1. Sound(x) /\ x.par.phase \in LoopPhase BY Zenon, QueuedKeeps
  <1>2. Sound(StartReload(x)) BY Zenon, <1>1, StartReloadKeeps
  <1> QED BY <1>2 DEF Completed

\* child_reloaded_thread() takes the answers of the eventfd from the count.
LEMMA ChildReloadedKeeps ==
  ASSUME NEW w, Sound(w), w.par.phase \in LoopPhase
  PROVE  Sound(ChildReloaded(w))
  <1> DEFINE q1 == [w.par EXCEPT !.evt = 0]  x == [w EXCEPT !.par = q1]
             m == w.par.num - w.par.evt
             q2 == [q1 EXCEPT !.num = m]  y == [x EXCEPT !.par = q2]
  <1>1. w \in WorldType /\ Kinded(w) /\ Fits(w) /\ Orderly(w) BY DEF Sound
  <1>2. w.par \in ParType BY <1>1 DEF WorldType
  <1>3. w.par.num \in 0..(Word - 1) /\ w.par.evt \in Nat BY <1>2 DEF ParType
  <1>4. q1 \in ParType BY <1>2, ParSet
  <1>5. /\ q1.phase = w.par.phase /\ q1.back = w.par.back /\ q1.pid = w.par.pid
        /\ q1.timers = w.par.timers /\ q1.num = w.par.num /\ q1.evt = 0 /\ q1.conf = w.par.conf
    BY <1>2 DEF ParType
  <1>6. ChildReloaded(w) = IF w.par.num >= w.par.evt THEN Completed([x EXCEPT !.par.num = @ - w.par.evt]) ELSE x
    BY DEF ChildReloaded
  <1>7. x \in WorldType /\ x.par = q1 /\ x.proc = w.proc /\ x.odd = w.odd
    <2> HIDE DEF q1
    <2> QED BY Zenon, <1>1, <1>4 DEF WorldType
  <1>8. [x EXCEPT !.par.num = @ - w.par.evt] = y
    <2>1. x.par.num = w.par.num BY Zenon, <1>5, <1>7
    <2>2. [x EXCEPT !.par.num = @ - w.par.evt] = [x EXCEPT !.par = [x.par EXCEPT !.num = x.par.num - w.par.evt]]
      OBVIOUS
    <2> QED BY Zenon, <1>7, <2>1, <2>2
  <1> HIDE DEF q1, x
  <1>9. ~(Smooth(w) /\ Scripted(w) /\ w.par.num < w.par.evt)
    BY <1>1 DEF Orderly, Blank
  <1>10. Smooth(w) /\ Started(w) /\ NoConfig(w) =>
           Known(w) /\ Counted(w) /\ w.par.num = w.par.evt + Owed(w)
    <2>1. Cardinality(Reading(w)) \in Nat /\ Cardinality(Asked(w)) \in Nat BY OwedType
    <2> QED BY <1>1, <1>3, <2>1 DEF Orderly, Counted, Owed
  <1>11. CASE w.par.num >= w.par.evt
    <2>1. m \in 0..(Word - 1) BY <1>3, <1>11, ParentAssumption
    <2>2. q2 \in ParType BY <1>4, <2>1, ParSet
    <2>3. /\ q2.phase = w.par.phase /\ q2.back = w.par.back /\ q2.pid = w.par.pid
          /\ q2.timers = w.par.timers /\ q2.num = m /\ q2.evt = 0 /\ q2.conf = w.par.conf
      <3> HIDE DEF m
      <3> QED BY <1>4, <1>5 DEF ParType
    <2> HIDE DEF m, q2
    <2>4. y \in WorldType /\ y.par = q2 /\ y.proc = w.proc /\ y.odd = w.odd
      BY <1>7, <2>2 DEF WorldType
    <2> HIDE DEF y
    <2>5. Fits(y) /\ Kinded(y) BY <1>1, <2>3, <2>4, FitsSame DEF Scripted
    <2>6. (Smooth(y) => Smooth(w)) /\ (NoConfig(y) => NoConfig(w)) BY <2>4 DEF Smooth, NoConfig
    <2>7. (Scripted(y) => Scripted(w)) /\ (Started(y) => Started(w))
      BY <2>3, <2>4 DEF Scripted, Started
    <2>8. ASSUME Smooth(y), Scripted(y) PROVE Blank(y)
      <3>1. Blank(w) BY <1>1, <2>6, <2>7, <2>8 DEF Orderly
      <3>2. m = 0 BY <3>1 DEF Blank, m
      <3> QED BY <2>3, <2>4, <3>1, <3>2 DEF Blank
    <2>9. ASSUME Smooth(y), Started(y), NoConfig(y) PROVE Known(y) /\ Counted(y)
      <3>1. Known(w) /\ Counted(w) /\ w.par.num = w.par.evt + Owed(w)
        BY <1>10, <2>6, <2>7, <2>9
      <3>2. m = Owed(w) BY <1>3, <3>1, OwedType DEF m
      <3>3. Reading(y) = Reading(w) /\ Asked(y) = Asked(w) BY <2>4 DEF Reading, Asked
      <3>4. Known(y) BY <2>3, <2>4, <3>1 DEF Known
      <3>5. y.par.num = y.par.evt + Cardinality(Reading(y)) + Cardinality(Asked(y))
        <4>1. Cardinality(Reading(w)) \in Nat /\ Cardinality(Asked(w)) \in Nat BY OwedType
        <4> QED BY <2>3, <2>4, <3>2, <3>3, <4>1 DEF Owed
      <3>6. y.par.phase # "reading" BY <2>3, <2>4 DEF LoopPhase
      <3>7. \A k \in KindSet : k \in y.par.conf.kinds => y.par.pid[k] # NoProc
        BY <2>3, <2>4, <3>1 DEF Counted
      <3> QED BY <3>4, <3>5, <3>6, <3>7 DEF Counted
    <2>10. Sound(y) BY <2>4, <2>5, <2>8, <2>9 DEF Sound, Orderly
    <2>11. y.par.phase \in LoopPhase BY <2>3, <2>4
    <2>12. Sound(Completed(y)) BY <2>10, <2>11, CompletedKeeps
    <2>13. ChildReloaded(w) = Completed(y) BY <1>6, <1>8, <1>11 DEF y, q2, m
    <2> QED BY <2>12, <2>13
  <1>12. CASE ~(w.par.num >= w.par.evt)
    <2>1. ChildReloaded(w) = x BY <1>6, <1>12
    <2>2. w.par.num < w.par.evt BY <1>3, <1>12
    <2>3. Fits(x) /\ Kinded(x) BY <1>1, <1>5, <1>7, FitsSame DEF Scripted
    <2>4. (Smooth(x) => Smooth(w)) /\ (NoConfig(x) => NoConfig(w)) BY <1>7 DEF Smooth, NoConfig
    <2>5. (Scripted(x) => Scripted(w)) /\ (Started(x) => Started(w))
      BY <1>5, <1>7 DEF Scripted, Started
    <2>6. ~(Smooth(x) /\ Started(x) /\ NoConfig(x))
      <3>1. Owed(w) \in Nat BY OwedType
      <3>2. w.par.num # w.par.evt + Owed(w) BY <1>3, <2>2, <3>1
      <3> QED BY <1>10, <2>4, <2>5, <3>2
    <2>7. Orderly(x) BY <1>9, <2>2, <2>4, <2>5, <2>6 DEF Orderly
    <2> QED BY <1>7, <2>1, <2>3, <2>7 DEF Sound
  <1> QED BY <1>11, <1>12

-----------------------------------------------------------------------------
(* start_keepalived().                                                     *)

\* A new value of num_reloading, and nothing else changes.
LEMMA NumIs ==
  ASSUME NEW w \in WorldType, NEW m \in 0..(Word - 1)
  PROVE  LET x == [w EXCEPT !.par.num = m]
         IN /\ x \in WorldType /\ x.proc = w.proc /\ x.odd = w.odd
            /\ x.par.num = m /\ x.par.pid = w.par.pid /\ SamePar(x, w)
  <1> DEFINE q == [w.par EXCEPT !.num = m]  x == [w EXCEPT !.par = q]
  <1>1. w.par \in ParType BY DEF WorldType
  <1>2. q \in ParType BY <1>1, ParSet
  <1>3. /\ q.num = m /\ q.pid = w.par.pid /\ q.phase = w.par.phase /\ q.back = w.par.back
        /\ q.conf = w.par.conf /\ q.timers = w.par.timers /\ q.delay = w.par.delay
        /\ q.queued = w.par.queued /\ q.evt = w.par.evt
    BY <1>1 DEF ParType
  <1> HIDE DEF q
  <1>4. x \in WorldType /\ x.par = q /\ x.proc = w.proc /\ x.odd = w.odd BY Zenon, <1>2 DEF WorldType
  <1> HIDE DEF x
  <1>5. /\ x \in WorldType /\ x.proc = w.proc /\ x.odd = w.odd
        /\ x.par.num = m /\ x.par.pid = w.par.pid /\ SamePar(x, w)
    BY <1>3, <1>4 DEF SamePar
  <1> QED BY <1>5 DEF x, q

\* There is room for one more child of the kind.
Spare(w, k) == Cardinality(Taken(w, k)) + Waiting(w, k) <= w.odd.early[k]

\* num_reloading is an unsigned.
LEMMA NextNum ==
  ASSUME NEW w \in WorldType
  PROVE  (w.par.num + 1) % Word \in 0..(Word - 1)
  <1>1. w.par.num \in Nat BY ParentAssumption DEF WorldType, ParType
  <1> QED BY <1>1, ParentAssumption

\* One kind in start_keepalived(): it had no child.
LEMMA StartIfKeeps ==
  ASSUME NEW w \in WorldType, NEW k \in KindSet, FreeOne(w), Kinded(w), Fits(w), Spare(w, k)
  PROVE  LET v == StartIf(w, k)
         IN /\ v \in WorldType /\ Kinded(v) /\ Fits(v) /\ SamePar(v, w) /\ v.odd = w.odd
            /\ \A j \in KindSet \ {k} : Spare(w, j) => Spare(v, j)
            /\ \A p \in Proc \ {NewProc(w)} : w.proc[p].phase = "free" => v.proc[p].phase = "free"
  <1> DEFINE v == StartIf(w, k)
  <1>1. CASE k \in w.par.conf.kinds
    <2> DEFINE m == (w.par.num + 1) % Word  x == [w EXCEPT !.par.num = m]
    <2>1. v = StartChild(x, k) BY <1>1 DEF StartIf
    <2>2. m \in 0..(Word - 1) BY NextNum
    <2> HIDE DEF m, v
    <2>3. x \in WorldType /\ x.proc = w.proc /\ x.odd = w.odd /\ x.par.pid = w.par.pid /\ SamePar(x, w)
      BY <2>2, NumIs
    <2> HIDE DEF x
    <2>4. Fits(x) /\ Kinded(x) BY <2>3, FitsSame DEF Scripted, SamePar
    <2>5. FreeOne(x) /\ NewProc(x) = NewProc(w) BY <2>3 DEF FreeOne, NewProc
    <2>6. \A j \in KindSet : Taken(x, j) = Taken(w, j) /\ Waiting(x, j) = Waiting(w, j)
      BY <2>3 DEF Taken, Waiting, Scripted, SamePar
    <2>7. \A j \in KindSet : Spare(w, j) => Spare(x, j) BY <2>3, <2>6 DEF Spare
    <2>8. Fits(v) /\ Kinded(v) BY <2>1, <2>3, <2>4, <2>5, <2>7, StartChildFits DEF Spare, Fits
    <2>9. v \in WorldType /\ SamePar(v, x) /\ v.odd = x.odd BY Zenon, <2>1, <2>3, <2>5, StartChildIs
    <2>10. /\ \A j \in KindSet \ {k} : Taken(v, j) = Taken(x, j)
           /\ \A j \in KindSet : Waiting(v, j) = Waiting(x, j)
           /\ \A p \in Proc \ {NewProc(x)} : v.proc[p] = x.proc[p]
      BY <2>1, <2>3, <2>5, StartChildTaken
    <2>11. \A j \in KindSet \ {k} : Spare(w, j) => Spare(v, j) BY <2>7, <2>9, <2>10 DEF Spare
    <2>12. SamePar(v, w) BY <2>3, <2>9 DEF SamePar
    <2>13. \A p \in Proc \ {NewProc(w)} : w.proc[p].phase = "free" => v.proc[p].phase = "free"
      BY <2>3, <2>5, <2>10
    <2> QED BY <2>3, <2>8, <2>9, <2>11, <2>12, <2>13 DEF v
  <1>2. CASE k \notin w.par.conf.kinds
    BY <1>2 DEF StartIf, SamePar
  <1> QED BY <1>1, <1>2

\* While start_keepalived() starts the children, the kinds in D have been dealt with.
Starting(w, D, i) ==
  /\ Known(w) /\ w.par.phase = "up" /\ w.par.evt = 0 /\ w.par.num = Owed(w) /\ w.par.num <= i
  /\ \A k \in KindSet \ D : w.par.pid[k] = NoProc
  /\ \A k \in D : k \in w.par.conf.kinds => w.par.pid[k] # NoProc

\* One kind in start_keepalived(): the child owes an answer and num_reloading has counted it.
LEMMA StartIfCounts ==
  ASSUME NEW w \in WorldType, NEW D \in SUBSET KindSet, NEW k \in KindSet, k \notin D, FreeOne(w),
         NEW i \in 0..2, Starting(w, D, i)
  PROVE  Starting(StartIf(w, k), D \cup {k}, i + 1)
  <1> DEFINE v == StartIf(w, k)
  <1>0. w.par.num \in Nat /\ Owed(w) \in Nat BY OwedType, ParentAssumption DEF WorldType, ParType
  <1>1. CASE k \in w.par.conf.kinds
    <2> DEFINE m == (w.par.num + 1) % Word  x == [w EXCEPT !.par.num = m]  n == NewProc(w)
    <2>1. v = StartChild(x, k) BY <1>1 DEF StartIf
    <2>2. m \in 0..(Word - 1) BY NextNum
    <2>3. w.par.num <= i /\ w.par.num = Owed(w) BY DEF Starting
    <2>4. m = Owed(w) + 1 BY <1>0, <2>3, ParentAssumption
    <2> HIDE DEF m, v
    <2>5. /\ x \in WorldType /\ x.proc = w.proc /\ x.odd = w.odd /\ x.par.num = m
          /\ x.par.pid = w.par.pid /\ SamePar(x, w)
      BY <2>2, NumIs
    <2> HIDE DEF x
    <2>6. FreeOne(x) /\ NewProc(x) = n BY <2>5 DEF FreeOne, NewProc
    <2>7. n \in Proc /\ x.proc[n].phase = "free" BY <2>6, NewProcFree
    <2> HIDE DEF n
    <2>8. v \in WorldType /\ SamePar(v, x) /\ v.par.num = x.par.num BY Zenon, <2>1, <2>5, <2>6, StartChildIs
    <2>9. /\ \A j \in KindSet \ {k} : v.par.pid[j] = x.par.pid[j]
          /\ \A p \in Proc \ {n} : v.proc[p] = x.proc[p]
          /\ v.proc[n] = Forked(k)
      BY <2>1, <2>5, <2>6, StartChildTaken
    <2>10. v.par.pid[k] = n
      <3>1. v.par.pid = [x.par.pid EXCEPT ![k] = n] BY Zenon, <2>1, <2>5, <2>6, StartChildIs
      <3>2. x.par.pid \in [KindSet -> Proc \cup {NoProc}] BY <2>5 DEF WorldType, ParType
      <3> QED BY <3>1, <3>2
    <2>11. Known(x)
      <3>1. Known(w) BY Zenon DEF Starting
      <3>2. x.par.timers = w.par.timers BY Zenon, <2>5 DEF SamePar
      <3> QED BY Zenon, <2>5, <3>1, <3>2, KnownSame
    <2>12. Reading(x) = Reading(w) /\ Asked(x) = Asked(w) BY <2>5 DEF Reading, Asked
    <2>13. x.par.pid[k] = NoProc BY <2>5 DEF Starting
    <2>14. v.par.timers = x.par.timers BY <2>8 DEF SamePar
    <2>15. Known(v) /\ Owed(v) = Owed(x) + 1
      BY <2>5, <2>7, <2>8, <2>9, <2>10, <2>11, <2>13, <2>14, ForkCounts
    <2>16. Owed(v) = Owed(w) + 1 BY <2>12, <2>15 DEF Owed
    <2>17. v.par.num = Owed(v) /\ v.par.num <= i + 1
      BY <1>0, <2>3, <2>4, <2>5, <2>8, <2>16
    <2>18. v.par.pid[k] # NoProc BY <2>7, <2>10, ProcFacts
    <2>19. v.par.phase = "up" /\ v.par.evt = 0 /\ v.par.conf = w.par.conf
      BY <2>5, <2>8 DEF SamePar, Starting
    <2>20. \A j \in KindSet \ (D \cup {k}) : v.par.pid[j] = NoProc
      BY <2>5, <2>9 DEF Starting
    <2>21. \A j \in D \cup {k} : j \in v.par.conf.kinds => v.par.pid[j] # NoProc
      BY <2>5, <2>9, <2>18, <2>19 DEF Starting
    <2>22. Starting(v, D \cup {k}, i + 1)
      BY <2>15, <2>17, <2>19, <2>20, <2>21 DEF Starting
    <2> QED BY <2>22 DEF v
  <1>2. CASE k \notin w.par.conf.kinds
    <2>1. v = w BY <1>2 DEF StartIf
    <2>2. w.par.num <= i + 1 BY <1>0 DEF Starting
    <2> QED BY <1>2, <2>1, <2>2 DEF Starting
  <1> QED BY <1>1, <1>2

\* The parent goes to another phase, and nothing else changes.
LEMMA PhaseIs ==
  ASSUME NEW w \in WorldType, NEW h \in ParPhase
  PROVE  LET x == [w EXCEPT !.par.phase = h]
         IN /\ x \in WorldType /\ x.proc = w.proc /\ x.odd = w.odd /\ x.copy = w.copy /\ x.test = w.test
            /\ x.par.phase = h /\ x.par.back = w.par.back /\ x.par.conf = w.par.conf
            /\ x.par.pid = w.par.pid /\ x.par.timers = w.par.timers /\ x.par.num = w.par.num
            /\ x.par.evt = w.par.evt /\ x.par.delay = w.par.delay
  <1> DEFINE q == [w.par EXCEPT !.phase = h]  x == [w EXCEPT !.par = q]
  <1>1. w.par \in ParType BY DEF WorldType
  <1>2. q \in ParType BY <1>1, ParSet
  <1>3. /\ q.phase = h /\ q.back = w.par.back /\ q.conf = w.par.conf /\ q.pid = w.par.pid
        /\ q.timers = w.par.timers /\ q.num = w.par.num /\ q.evt = w.par.evt /\ q.delay = w.par.delay
    BY <1>1 DEF ParType
  <1> HIDE DEF q
  <1>4. /\ x \in WorldType /\ x.par = q /\ x.proc = w.proc /\ x.odd = w.odd /\ x.copy = w.copy
        /\ x.test = w.test
    BY <1>2 DEF WorldType
  <1> HIDE DEF x
  <1> QED BY Zenon, <1>3, <1>4 DEF x, q

\* The startup script has ended: each child takes the place of the start that was due.
LEMMA StartKeepalivedKeeps ==
  ASSUME NEW w, Sound(w), w.par.phase = "script", FreeThree(w)
  PROVE  Sound(StartKeepalived(w))
  <1> DEFINE x == [w EXCEPT !.par.phase = "up"]
             a == StartIf(x, "checker")  b == StartIf(a, "vrrp")  v == StartKeepalived(w)
             D0 == {}  D1 == {"checker"}  D2 == {"checker", "vrrp"}
  <1>1. w \in WorldType /\ Kinded(w) /\ Fits(w) /\ Orderly(w) BY DEF Sound
  <1>2. v = StartIf(b, "bfd") BY DEF StartKeepalived
  <1>3. /\ "checker" \in KindSet /\ "vrrp" \in KindSet /\ "bfd" \in KindSet
        /\ "checker" # "vrrp" /\ "checker" # "bfd" /\ "vrrp" # "bfd"
    BY DEF KindSet
  <1>4. /\ D0 \in SUBSET KindSet /\ D1 \in SUBSET KindSet /\ D2 \in SUBSET KindSet
        /\ D1 = D0 \cup {"checker"} /\ D2 = D1 \cup {"vrrp"} /\ KindSet = D2 \cup {"bfd"}
        /\ "checker" \notin D0 /\ "vrrp" \notin D1 /\ "bfd" \notin D2
    BY DEF KindSet
  <1>5. "up" \in ParPhase BY DEF ParPhase
  <1>6. /\ x \in WorldType /\ x.proc = w.proc /\ x.odd = w.odd /\ x.par.phase = "up"
        /\ x.par.conf = w.par.conf /\ x.par.pid = w.par.pid /\ x.par.timers = w.par.timers
        /\ x.par.num = w.par.num /\ x.par.evt = w.par.evt
    BY <1>1, <1>5, PhaseIs
  <1> HIDE DEF x
  <1>7. Kinded(x) BY <1>1, <1>6 DEF Kinded
  <1>8. \A k \in KindSet : Taken(x, k) = Taken(w, k) /\ Waiting(w, k) = Waiting(x, k) + 1
    <2> TAKE k \in KindSet
    <2>1. w.par.timers[k] \in Nat BY <1>1, FitType
    <2>2. Scripted(w) /\ ~Scripted(x) BY <1>6 DEF Scripted
    <2>3. Waiting(w, k) = w.par.timers[k] + 1 BY <2>2 DEF Waiting
    <2>4. Waiting(x, k) = w.par.timers[k] BY <1>6, <2>1, <2>2 DEF Waiting
    <2> QED BY <1>6, <2>3, <2>4 DEF Taken
  <1>9. \A k \in KindSet : Spare(x, k)
    <2> TAKE k \in KindSet
    <2>1. Fit(w, k) /\ Taken(x, k) = Taken(w, k) /\ Waiting(w, k) = Waiting(x, k) + 1
      BY <1>1, <1>8 DEF Fits
    <2>2. /\ Cardinality(Taken(x, k)) \in Nat /\ Waiting(x, k) \in Nat /\ w.odd.early[k] \in Nat
      BY <1>1, <1>6, FitType
    <2> QED BY <1>6, <2>1, <2>2 DEF Fit, Spare
  <1>10. Fits(x)
    <2> SUFFICES ASSUME NEW k \in KindSet PROVE Fit(x, k) BY DEF Fits
    <2>1. Cardinality(Taken(x, k)) \in Nat /\ Waiting(x, k) \in Nat /\ x.odd.early[k] \in Nat
      BY <1>6, FitType
    <2> QED BY <1>9, <2>1 DEF Fit, Spare
  <1>11. FreeThree(x) BY <1>6 DEF FreeThree
  <1>12. FreeOne(x) BY Zenon, <1>11, FreeChain
  <1>13. /\ a \in WorldType /\ Kinded(a) /\ Fits(a) /\ SamePar(a, x) /\ a.odd = x.odd
         /\ \A j \in KindSet \ {"checker"} : Spare(x, j) => Spare(a, j)
         /\ \A p \in Proc \ {NewProc(x)} : x.proc[p].phase = "free" => a.proc[p].phase = "free"
    BY <1>3, <1>6, <1>7, <1>9, <1>10, <1>12, StartIfKeeps
  <1>14. Starting(x, D0, 0) => Starting(a, D1, 1)
    <2> HIDE DEF D0, D1
    <2>1. 0 \in 0..2 /\ 0 + 1 = 1 OBVIOUS
    <2>2. Starting(x, D0, 0) => Starting(a, D0 \cup {"checker"}, 0 + 1)
      BY Zenon, <1>3, <1>4, <1>6, <1>12, <2>1, StartIfCounts
    <2> QED BY <1>4, <2>1, <2>2
  <1> HIDE DEF a
  <1>15. FreeTwo(a) /\ FreeOne(a) BY <1>11, <1>13, FreeChain
  <1>16. Spare(a, "vrrp") /\ Spare(a, "bfd") BY <1>3, <1>9, <1>13
  <1>17. /\ b \in WorldType /\ Kinded(b) /\ Fits(b) /\ SamePar(b, a) /\ b.odd = a.odd
         /\ \A j \in KindSet \ {"vrrp"} : Spare(a, j) => Spare(b, j)
         /\ \A p \in Proc \ {NewProc(a)} : a.proc[p].phase = "free" => b.proc[p].phase = "free"
    BY <1>3, <1>13, <1>15, <1>16, StartIfKeeps
  <1>18. Starting(a, D1, 1) => Starting(b, D2, 2)
    <2> HIDE DEF D2, D1
    <2>1. 1 \in 0..2 /\ 1 + 1 = 2 OBVIOUS
    <2>2. Starting(a, D1, 1) => Starting(b, D1 \cup {"vrrp"}, 1 + 1)
      BY Zenon, <1>3, <1>4, <1>13, <1>15, <2>1, StartIfCounts
    <2> QED BY <1>4, <2>1, <2>2
  <1> HIDE DEF b
  <1>19. FreeOne(b) /\ Spare(b, "bfd") BY Zenon, <1>3, <1>15, <1>16, <1>17, FreeChain
  <1>20. v \in WorldType /\ Kinded(v) /\ Fits(v) /\ SamePar(v, b) /\ v.odd = b.odd
    BY <1>2, <1>3, <1>17, <1>19, StartIfKeeps
  <1>21. Starting(b, D2, 2) => Starting(v, KindSet, 3)
    <2> HIDE DEF D2, v
    <2>1. 2 \in 0..2 /\ 2 + 1 = 3 OBVIOUS
    <2>2. Starting(b, D2, 2) => Starting(v, D2 \cup {"bfd"}, 2 + 1)
      BY <1>2, <1>3, <1>4, <1>17, <1>19, <2>1, StartIfCounts
    <2> QED BY <1>4, <2>1, <2>2
  <1> HIDE DEF v
  <1>22. v.odd = w.odd /\ v.par.phase = "up" BY <1>6, <1>13, <1>17, <1>20 DEF SamePar
  <1>23. Orderly(v)
    <2>1. ~Scripted(v) BY <1>22 DEF Scripted
    <2>2. ASSUME Smooth(v) PROVE Known(v) /\ Counted(v)
      <3>1. Smooth(w) BY <1>22, <2>2 DEF Smooth
      <3>2. Blank(w) BY <1>1, <3>1 DEF Orderly, Scripted
      <3>3. Blank(x) BY <1>6, <3>2 DEF Blank
      <3>4. Known(x) BY <3>3 DEF Blank, Known
      <3>5. Reading(x) = {} BY <3>3 DEF Blank, Reading
      <3>6. Asked(x) = {} BY <3>3, Zenon DEF Blank, Asked
      <3>7. Owed(x) = 0 BY <3>5, <3>6, FS_EmptySet DEF Owed
      <3>8. Starting(x, D0, 0) BY <1>6, <3>3, <3>4, <3>7 DEF Starting, Blank
      <3>9. Starting(v, KindSet, 3) BY <1>14, <1>18, <1>21, <3>8
      <3>10. Cardinality(Reading(v)) \in Nat /\ Cardinality(Asked(v)) \in Nat BY OwedType
      <3> QED BY <3>9, <3>10 DEF Starting, Counted, Owed
    <2> QED BY Zenon, <2>1, <2>2 DEF Orderly
  <1> QED BY <1>20, <1>23 DEF Sound, v


-----------------------------------------------------------------------------
(* Children that end.                                                      *)

\* Nothing is said of a world in which a stop was requested, or a child has died.
LEMMA OrderlyVoid ==
  ASSUME NEW v, v.par.phase \in {"ending", "stopping", "gone"} \/ ~Smooth(v)
  PROVE  Orderly(v)
  BY DEF Orderly, Scripted, Started

\* Something has already happened after which Orderly() says nothing.
Disorder(w) ==
  /\ ~(Smooth(w) /\ Scripted(w))
  /\ ~(Smooth(w) /\ Started(w) /\ NoConfig(w))

\* Once something died or overlapped nothing is claimed of the count any more.
LEMMA DisorderStays ==
  ASSUME NEW w, NEW v, Disorder(w), Smooth(v) => Smooth(w), Scripted(v) => Scripted(w),
         Started(v) => Started(w), NoConfig(v) => NoConfig(w)
  PROVE  Orderly(v)
  BY DEF Disorder, Orderly

\* A child that has ended, or that was told to, and a restart that is due, are such things.
LEMMA EndedDisorder ==
  ASSUME NEW w, Orderly(w), NEW p \in Proc, w.proc[p].phase = "crashed"
  PROVE  Disorder(w)
  BY DEF Orderly, Disorder, Blank, Known

\* A child that was told to stop, while the parent runs.
LEMMA TermDisorder ==
  ASSUME NEW w, Orderly(w), NEW p \in Proc, w.proc[p].phase # "free", w.proc[p].term
  PROVE  Disorder(w)
  BY DEF Orderly, Disorder, Blank, Known

\* A restart is delayed only after a child has died.
LEMMA TimerDisorder ==
  ASSUME NEW w \in WorldType, Orderly(w), NEW k \in KindSet, w.par.timers[k] > 0
  PROVE  Disorder(w)
  BY DEF Orderly, Disorder, Blank, Known

\* Children may go, and the startup script may end, without a start of one.
LEMMA FitsLess ==
  ASSUME NEW w \in WorldType, NEW v \in WorldType, Fits(w), Kinded(w),
         \A p \in Proc : \/ v.proc[p].phase = "free"
                         \/ v.proc[p].kind = w.proc[p].kind /\ w.proc[p].phase # "free",
         v.par.pid = w.par.pid, v.par.timers = w.par.timers, Scripted(v) => Scripted(w),
         v.odd.early = w.odd.early
  PROVE  Fits(v) /\ Kinded(v)
  <1>1. Kinded(v) BY DEF Kinded
  <1>2. ASSUME NEW k \in KindSet PROVE Fit(v, k)
    <2>1. Taken(v, k) \subseteq Taken(w, k) BY DEF Taken
    <2>2. Taken(v, k) \in SUBSET Proc /\ Taken(w, k) \in SUBSET Proc BY DEF Taken
    <2>3. Cardinality(Taken(v, k)) <= Cardinality(Taken(w, k)) BY <2>1, <2>2, SizeLeq
    <2>4. /\ Cardinality(Taken(v, k)) \in Nat /\ Cardinality(Taken(w, k)) \in Nat
          /\ Waiting(v, k) \in Nat /\ Waiting(w, k) \in Nat /\ w.odd.early[k] \in Nat
      BY FitType
    <2>5. Waiting(v, k) <= Waiting(w, k)
      <3>1. w.par.timers[k] \in Nat BY FitType
      <3> QED BY <3>1 DEF Waiting
    <2>6. Fit(w, k) BY DEF Fits
    <2> QED BY <2>3, <2>4, <2>5, <2>6 DEF Fit
  <1> QED BY <1>1, <1>2 DEF Fits

\* A process number that no child has.
LEMMA FreeType == Free \in ChildType /\ Free.phase = "free"
  BY DEF Free, ChildType

\* process_child_termination() forgets the child: there is room for another one.
LEMMA ReapedIs ==
  ASSUME NEW w \in WorldType, Kinded(w), Fits(w), NEW p \in Proc, w.proc[p].phase # "free"
  PROVE  LET v == Reaped(w, p)  k == w.proc[p].kind
         IN /\ v \in WorldType /\ Kinded(v) /\ Fits(v) /\ k \in KindSet /\ Spare(v, k)
            /\ SamePar(v, w) /\ v.par.num = w.par.num /\ v.odd = w.odd
            /\ v.proc[p] = Free /\ \A q \in Proc \ {p} : v.proc[q] = w.proc[q]
  <1> DEFINE v == Reaped(w, p)  k == w.proc[p].kind  pid == [w.par.pid EXCEPT ![k] = NoProc]
             q1 == [w.par EXCEPT !.pid = pid]  proc1 == [w.proc EXCEPT ![p] = Free]
  <1>1. k \in KindSet BY DEF Kinded
  <1>2. v = [w EXCEPT !.par = q1, !.proc = proc1] BY Zenon DEF Reaped
  <1>3. w.par \in ParType /\ w.proc \in [Proc -> ChildType] BY DEF WorldType
  <1>4. w.par.pid \in [KindSet -> Proc \cup {NoProc}] BY <1>3 DEF ParType
  <1> HIDE DEF k
  <1>5. /\ pid \in [KindSet -> Proc \cup {NoProc}] /\ pid[k] = NoProc
        /\ \A j \in KindSet \ {k} : pid[j] = w.par.pid[j]
    BY <1>1, <1>4
  <1> HIDE DEF pid
  <1>6. q1 \in ParType BY <1>3, <1>5, ParSet
  <1>7. /\ q1.pid = pid /\ q1.num = w.par.num /\ q1.phase = w.par.phase /\ q1.back = w.par.back
        /\ q1.conf = w.par.conf /\ q1.timers = w.par.timers /\ q1.delay = w.par.delay
        /\ q1.queued = w.par.queued /\ q1.evt = w.par.evt
    BY <1>3 DEF ParType
  <1>8. /\ proc1 \in [Proc -> ChildType] /\ proc1[p] = Free
        /\ \A q \in Proc \ {p} : proc1[q] = w.proc[q]
    BY <1>3, FreeType
  <1> HIDE DEF q1, proc1, v
  <1>9. v \in WorldType /\ v.par = q1 /\ v.proc = proc1 /\ v.odd = w.odd
    BY Zenon, <1>2, <1>6, <1>8 DEF WorldType
  <1>10. SamePar(v, w) /\ v.par.num = w.par.num BY <1>7, <1>9 DEF SamePar
  <1>11. Taken(v, k) = Taken(w, k) \ {p} /\ p \in Taken(w, k)
    BY <1>8, <1>9, FreeType DEF Taken, k
  <1>12. \A j \in KindSet \ {k} : Taken(v, j) = Taken(w, j)
    BY <1>8, <1>9, FreeType DEF Taken, k
  <1>13. \A j \in KindSet : Waiting(v, j) = Waiting(w, j)
    BY <1>10 DEF Waiting, Scripted, SamePar
  <1>14. Cardinality(Taken(v, k)) + 1 = Cardinality(Taken(w, k))
    BY <1>11, SizeLess DEF Taken
  <1>15. Spare(v, k) /\ Fit(v, k)
    <2>1. /\ Cardinality(Taken(v, k)) \in Nat /\ Waiting(v, k) \in Nat /\ v.odd.early[k] \in Nat
      BY <1>1, <1>9, FitType
    <2>2. Fit(w, k) /\ Waiting(v, k) = Waiting(w, k) BY <1>1, <1>13 DEF Fits
    <2> QED BY <1>9, <1>14, <2>1, <2>2 DEF Fit, Spare
  <1>16. \A j \in KindSet \ {k} : Fit(v, j)
    BY <1>5, <1>7, <1>9, <1>12, <1>13 DEF Fit, Fits
  <1>17. Fits(v) BY <1>15, <1>16 DEF Fits
  <1>18. Kinded(v) BY <1>8, <1>9, FreeType DEF Kinded
  <1> QED BY <1>1, <1>8, <1>9, <1>10, <1>15, <1>17, <1>18 DEF v, k

\* calc_restart_delay() gives a number of seconds.
LEMMA DelayIs ==
  ASSUME NEW w \in WorldType, NEW k \in KindSet, NEW long \in BOOLEAN
  PROVE  LET x == [w EXCEPT !.par.delay[k] = NextDelay(@, long)]
         IN /\ x \in WorldType /\ x.proc = w.proc /\ x.odd = w.odd /\ x.par.pid = w.par.pid
            /\ x.par.timers = w.par.timers /\ x.par.phase = w.par.phase /\ x.par.back = w.par.back
  <1> DEFINE n == NextDelay(w.par.delay[k], long)  d == [w.par.delay EXCEPT ![k] = n]
             q == [w.par EXCEPT !.delay = d]  x == [w EXCEPT !.par = q]
  <1>1. w.par \in ParType BY DEF WorldType
  <1>2. w.par.delay \in [KindSet -> Nat] BY <1>1 DEF ParType
  <1>3. n \in Nat
    <2>1. w.par.delay[k] \in Nat BY <1>2
    <2> QED BY <2>1 DEF NextDelay
  <1>4. [w EXCEPT !.par.delay[k] = NextDelay(@, long)] = x OBVIOUS
  <1> HIDE DEF n
  <1>5. d \in [KindSet -> Nat] BY <1>2, <1>3
  <1> HIDE DEF d
  <1>6. q \in ParType BY <1>1, <1>5, ParSet
  <1>7. q.pid = w.par.pid /\ q.timers = w.par.timers /\ q.phase = w.par.phase /\ q.back = w.par.back
    BY <1>1 DEF ParType
  <1> HIDE DEF q
  <1>8. x \in WorldType /\ x.par = q /\ x.proc = w.proc /\ x.odd = w.odd BY Zenon, <1>6 DEF WorldType
  <1> HIDE DEF x
  <1> QED BY Zenon, <1>4, <1>7, <1>8

\* The timer of a delayed restart is set, or has run out.
LEMMA TimersIs ==
  ASSUME NEW w \in WorldType, NEW k \in KindSet, NEW t \in Nat
  PROVE  LET x == [w EXCEPT !.par.timers[k] = t]
         IN /\ x \in WorldType /\ x.proc = w.proc /\ x.odd = w.odd /\ x.par.pid = w.par.pid
            /\ x.par.timers[k] = t /\ \A j \in KindSet \ {k} : x.par.timers[j] = w.par.timers[j]
            /\ x.par.phase = w.par.phase /\ x.par.back = w.par.back
  <1> DEFINE d == [w.par.timers EXCEPT ![k] = t]
             q == [w.par EXCEPT !.timers = d]  x == [w EXCEPT !.par = q]
  <1>1. w.par \in ParType BY DEF WorldType
  <1>2. w.par.timers \in [KindSet -> Nat] BY <1>1 DEF ParType
  <1>3. [w EXCEPT !.par.timers[k] = t] = x OBVIOUS
  <1>4. d \in [KindSet -> Nat] /\ d[k] = t /\ \A j \in KindSet \ {k} : d[j] = w.par.timers[j] BY <1>2
  <1> HIDE DEF d
  <1>5. q \in ParType BY <1>1, <1>4, ParSet
  <1>6. q.pid = w.par.pid /\ q.timers = d /\ q.phase = w.par.phase /\ q.back = w.par.back
    BY <1>1 DEF ParType
  <1> HIDE DEF q
  <1>7. x \in WorldType /\ x.par = q /\ x.proc = w.proc /\ x.odd = w.odd BY Zenon, <1>5 DEF WorldType
  <1> HIDE DEF x
  <1> QED BY Zenon, <1>3, <1>4, <1>6, <1>7

\* What a start of a child leaves of the phase and of the children there were.
Unmoved(v, w) ==
  /\ v.odd = w.odd /\ v.par.phase = w.par.phase /\ v.par.back = w.par.back
  /\ NoConfig(v) => NoConfig(w)

\* start_vrrp_child() changes no child but the new one.
LEMMA UnmovedStarted ==
  ASSUME NEW w \in WorldType, NEW k \in KindSet, FreeOne(w)
  PROVE  Unmoved(StartChild(w, k), w)
  <1> DEFINE v == StartChild(w, k)  n == NewProc(w)
  <1>1. v.odd = w.odd /\ SamePar(v, w) BY Zenon, StartChildIs
  <1>2. \A p \in Proc \ {n} : v.proc[p] = w.proc[p] BY StartChildTaken
  <1>3. w.proc[n].phase = "free" BY NewProcFree
  <1> HIDE DEF v, n
  <1>4. NoConfig(v) => NoConfig(w) BY <1>2, <1>3 DEF NoConfig
  <1> QED BY <1>1, <1>4 DEF Unmoved, SamePar, v

\* Starting a child does not undo what has died.
LEMMA DisorderUnmoved ==
  ASSUME NEW w, NEW v, Disorder(w), Unmoved(v, w)
  PROVE  Orderly(v)
  BY DisorderStays DEF Unmoved, Smooth, Scripted, Started

\* vrrp_respawn_thread(): the child that has gone is started again, now or later.
LEMMA RespawnKeeps ==
  ASSUME NEW w \in WorldType, NEW k \in KindSet, NEW long \in BOOLEAN, Kinded(w), Fits(w), Spare(w, k),
         FreeOne(w)
  PROVE  LET v == Respawn(w, k, long)
         IN v \in WorldType /\ Kinded(v) /\ Fits(v) /\ Unmoved(v, w)
  <1> DEFINE v == Respawn(w, k, long)  x == [w EXCEPT !.par.delay[k] = NextDelay(@, long)]
  <1>1. v = IF RestartDelay(w.par.delay[k], long) = 0 THEN StartChild(x, k)
            ELSE [x EXCEPT !.par.timers[k] = @ + 1]
    BY DEF Respawn
  <1>2. /\ x \in WorldType /\ x.proc = w.proc /\ x.odd = w.odd /\ x.par.pid = w.par.pid
        /\ x.par.timers = w.par.timers /\ x.par.phase = w.par.phase /\ x.par.back = w.par.back
    BY DelayIs
  <1> HIDE DEF x, v
  <1>3. Kinded(x) /\ Fits(x) BY <1>2, FitsSame DEF Scripted
  <1>4. FreeOne(x) BY <1>2 DEF FreeOne
  <1>5. Taken(x, k) = Taken(w, k) /\ Waiting(x, k) = Waiting(w, k)
    BY <1>2 DEF Taken, Waiting, Scripted
  <1>6. Spare(x, k) BY <1>2, <1>5 DEF Spare
  <1>7. Unmoved(x, w) BY <1>2 DEF Unmoved, NoConfig
  <1>8. CASE v = StartChild(x, k)
    <2>1. v \in WorldType BY Zenon, <1>2, <1>4, <1>8, StartChildIs
    <2>2. Fits(v) /\ Kinded(v)
      BY <1>2, <1>3, <1>4, <1>6, <1>8, StartChildFits DEF Spare, Fits
    <2>3. Unmoved(v, x) BY <1>2, <1>4, <1>8, UnmovedStarted
    <2>4. Unmoved(v, w) BY <1>7, <2>3 DEF Unmoved
    <2> QED BY <2>1, <2>2, <2>4 DEF v
  <1>9. CASE v = [x EXCEPT !.par.timers[k] = @ + 1]
    <2> DEFINE t == x.par.timers[k] + 1
    <2>1. x.par.timers[k] \in Nat BY <1>2, FitType
    <2>2. t \in Nat BY <2>1
    <2>3. v = [x EXCEPT !.par.timers[k] = t] BY <1>9
    <2> HIDE DEF t
    <2>4. /\ v \in WorldType /\ v.proc = x.proc /\ v.odd = x.odd /\ v.par.pid = x.par.pid
          /\ v.par.timers[k] = t /\ \A j \in KindSet \ {k} : v.par.timers[j] = x.par.timers[j]
          /\ v.par.phase = x.par.phase /\ v.par.back = x.par.back
      BY <1>2, <2>2, <2>3, TimersIs
    <2>5. \A j \in KindSet : Taken(v, j) = Taken(x, j) BY <2>4 DEF Taken
    <2>6. \A j \in KindSet \ {k} : Waiting(v, j) = Waiting(x, j) BY <2>4 DEF Waiting, Scripted
    <2>7. Waiting(v, k) = Waiting(x, k) + 1
      <3>1. Scripted(v) <=> Scripted(x) BY <2>4 DEF Scripted
      <3> QED BY <2>1, <2>4, <3>1 DEF Waiting, t
    <2>8. Fit(v, k)
      <3>1. Cardinality(Taken(x, k)) \in Nat /\ Waiting(x, k) \in Nat /\ x.odd.early[k] \in Nat
        BY <1>2, FitType
      <3>2. Taken(v, k) = Taken(x, k) /\ v.odd = x.odd BY <2>4, <2>5
      <3> QED BY <1>6, <2>7, <3>1, <3>2 DEF Fit, Spare
    <2>9. \A j \in KindSet \ {k} : Fit(v, j) BY <1>3, <2>4, <2>5, <2>6 DEF Fit, Fits
    <2>10. Kinded(v) BY <1>3, <2>4 DEF Kinded
    <2>11. Unmoved(v, w) BY <1>7, <2>4 DEF Unmoved, NoConfig
    <2> QED BY <2>4, <2>8, <2>9, <2>10, <2>11 DEF Fits, v
  <1> QED BY <1>1, <1>8, <1>9

\* sigend() tells the children to stop.
LEMMA TerminateType ==
  ASSUME NEW s \in ChildType
  PROVE  Terminate(s) \in ChildType /\ Terminate(s).kind = s.kind /\ Terminate(s).phase = s.phase
  BY Zenon DEF Terminate, ChildType

\* sigend(): the children are told to stop.
LEMMA SigEndKeeps ==
  ASSUME NEW w \in WorldType, Kinded(w), Fits(w)
  PROVE  Sound(SigEnd(w))
  <1> DEFINE pr == [p \in Proc |-> IF \E k \in KindSet : w.par.pid[k] = p
                                   THEN Terminate(w.proc[p]) ELSE w.proc[p]]
             x == [w EXCEPT !.par.phase = "ending"]  v == SigEnd(w)
  <1>1. v = [x EXCEPT !.proc = pr] BY DEF SigEnd
  <1>2. w.proc \in [Proc -> ChildType] BY DEF WorldType
  <1>3. \A p \in Proc : w.proc[p] \in ChildType /\ Terminate(w.proc[p]) \in ChildType
                        /\ Terminate(w.proc[p]).kind = w.proc[p].kind
                        /\ Terminate(w.proc[p]).phase = w.proc[p].phase
    BY <1>2, TerminateType
  <1>4. /\ pr \in [Proc -> ChildType]
        /\ \A p \in Proc : pr[p].kind = w.proc[p].kind /\ pr[p].phase = w.proc[p].phase
    BY <1>3
  <1>5. "ending" \in ParPhase BY DEF ParPhase
  <1>6. /\ x \in WorldType /\ x.odd = w.odd /\ x.par.phase = "ending" /\ x.par.pid = w.par.pid
        /\ x.par.timers = w.par.timers
    BY <1>5, PhaseIs
  <1> HIDE DEF x, pr
  <1>7. v \in WorldType /\ v.par = x.par /\ v.odd = w.odd /\ v.proc = pr
    BY Zenon, <1>1, <1>4, <1>6 DEF WorldType
  <1> HIDE DEF v
  <1>8. ~Scripted(v) BY <1>6, <1>7 DEF Scripted
  <1>9. Fits(v) /\ Kinded(v) BY <1>4, <1>6, <1>7, <1>8, FitsLess
  <1>10. Orderly(v) BY <1>6, <1>7, OrderlyVoid
  <1> QED BY <1>7, <1>9, <1>10 DEF Sound, v

\* The parent exits.
LEMMA ExitKeeps ==
  ASSUME NEW w \in WorldType, Kinded(w), Fits(w)
  PROVE  Sound(Exit(w))
  <1> DEFINE pr == [p \in Proc |-> IF Alive(w.proc[p]) THEN Terminate(w.proc[p]) ELSE Free]
             q1 == [w.par EXCEPT !.phase = "gone"]  q == [q1 EXCEPT !.evt = 0]  v == Exit(w)
  <1>1. v = [w EXCEPT !.par = q, !.proc = pr] BY Zenon DEF Exit
  <1>2. w.proc \in [Proc -> ChildType] /\ w.par \in ParType BY DEF WorldType
  <1>3. \A p \in Proc : w.proc[p] \in ChildType /\ Terminate(w.proc[p]) \in ChildType
                        /\ Terminate(w.proc[p]).kind = w.proc[p].kind
                        /\ Terminate(w.proc[p]).phase = w.proc[p].phase
    BY <1>2, TerminateType
  <1>4. \A p \in Proc : Alive(w.proc[p]) => w.proc[p].phase # "free" BY DEF Alive
  <1>5. /\ pr \in [Proc -> ChildType]
        /\ \A p \in Proc : \/ pr[p].phase = "free"
                           \/ pr[p].kind = w.proc[p].kind /\ w.proc[p].phase # "free"
    BY <1>3, <1>4, FreeType
  <1>6. "gone" \in ParPhase BY DEF ParPhase
  <1>7. q1 \in ParType BY <1>2, <1>6, ParSet
  <1>8. q \in ParType BY Zenon, <1>7, ParSet
  <1>9. q.phase = "gone" /\ q.pid = w.par.pid /\ q.timers = w.par.timers BY <1>2 DEF ParType
  <1> HIDE DEF q, pr
  <1>10. v \in WorldType /\ v.par = q /\ v.odd = w.odd /\ v.proc = pr
    BY Zenon, <1>1, <1>5, <1>8 DEF WorldType
  <1> HIDE DEF v
  <1>11. ~Scripted(v) BY <1>9, <1>10 DEF Scripted
  <1>12. Fits(v) /\ Kinded(v) BY <1>5, <1>9, <1>10, <1>11, FitsLess
  <1>13. Orderly(v) BY <1>9, <1>10, OrderlyVoid
  <1> QED BY <1>10, <1>12, <1>13 DEF Sound, v

-----------------------------------------------------------------------------
(* Steps of the parent.                                                    *)

\* A signal that is not SIGHUP starts nothing that is not asked for too early.
LEMMA Usr1Keeps ==
  ASSUME NEW w, Sound(w), FreeThree(w), w.par.phase \in {"script", "up"}
  PROVE  Sound(PropagateSignal(w, FALSE))
  <1> DEFINE v == PropagateSignal(w, FALSE)
  <1>1. w \in WorldType /\ Kinded(w) /\ Fits(w) /\ Orderly(w) BY DEF Sound
  <1>2. v \in WorldType /\ Kinded(v) /\ Fits(v) /\ Spared(v, w)
    BY Zenon, <1>1, PropagateSignalKeeps
  <1>3. ASSUME Smooth(v), Scripted(v) PROVE v = w
    <2>1. Smooth(w) /\ w.par.phase = "script" BY Zenon, <1>2, <1>3 DEF Spared, SamePar, Scripted
    <2>2. Blank(w) BY Zenon, <1>1, <2>1 DEF Orderly, Scripted
    <2> QED BY Zenon, <1>1, <1>3, <2>1, <2>2, PropagateBlank
  <1>4. ASSUME Smooth(v), Started(v), NoConfig(v) PROVE v = w
    <2>1. Smooth(w) /\ Started(w) /\ NoConfig(w) BY Zenon, <1>2, <1>4 DEF Spared, SamePar, Started
    <2>2. Counted(w) BY Zenon, <1>1, <2>1 DEF Orderly
    <2>3. \A k \in KindSet : PropagateOne(w, k, FALSE) = w
      BY <2>2 DEF Counted, PropagateOne
    <2>4. "vrrp" \in KindSet /\ "checker" \in KindSet /\ "bfd" \in KindSet BY DEF KindSet
    <2> QED BY Zenon, <2>3, <2>4 DEF PropagateSignal
  <1> HIDE DEF v
  <1>5. Orderly(v) BY <1>1, <1>3, <1>4 DEF Orderly
  <1> QED BY Zenon, <1>2, <1>5 DEF Sound, v

\* The configuration has been read: the parent is back where it was.
LEMMA BackReady ==
  ASSUME NEW w, Sound(w), w.par.phase = "reading"
  PROVE  LET v == [w EXCEPT !.par.phase = w.par.back]
         IN /\ v \in WorldType /\ Kinded(v) /\ Fits(v) /\ Ready(v) /\ v.par.phase # "reading"
            /\ v.proc = w.proc
  <1> DEFINE v == [w EXCEPT !.par.phase = w.par.back]
  <1>1. w \in WorldType /\ Kinded(w) /\ Fits(w) /\ Orderly(w) BY DEF Sound
  <1>2. w.par.back \in LoopPhase BY <1>1 DEF WorldType, ParType
  <1>3. w.par.back \in ParPhase BY <1>2 DEF LoopPhase, ParPhase
  <1>4. /\ v \in WorldType /\ v.proc = w.proc /\ v.odd = w.odd
        /\ v.par.phase = w.par.back /\ v.par.back = w.par.back /\ v.par.conf = w.par.conf
        /\ v.par.pid = w.par.pid /\ v.par.timers = w.par.timers /\ v.par.num = w.par.num
        /\ v.par.evt = w.par.evt
    BY <1>1, <1>3, PhaseIs
  <1> HIDE DEF v
  <1>5. v.par.phase # "reading" BY <1>2, <1>4 DEF LoopPhase
  <1>6. (Scripted(v) <=> Scripted(w)) /\ (Started(v) <=> Started(w)) BY <1>4, <1>5 DEF Scripted, Started
  <1>7. Fits(v) /\ Kinded(v) BY <1>1, <1>4, <1>6, FitsSame
  <1>8. (Smooth(v) => Smooth(w)) /\ (NoConfig(v) => NoConfig(w)) BY <1>4 DEF Smooth, NoConfig
  <1>9. ASSUME Smooth(v), v.par.phase = "script" PROVE Blank(v)
    <2>1. Blank(w) BY <1>1, <1>6, <1>8, <1>9 DEF Orderly, Scripted
    <2> QED BY <1>4, <2>1 DEF Blank
  <1>10. ASSUME Smooth(v), v.par.phase = "up", NoConfig(v)
         PROVE  Known(v) /\ Counted(v) /\ v.par.num = 0
    <2>1. Known(w) /\ Counted(w) BY <1>1, <1>6, <1>8, <1>10 DEF Orderly, Started
    <2>2. Reading(v) = Reading(w) /\ Asked(v) = Asked(w) BY <1>4 DEF Reading, Asked
    <2>3. Known(v) BY Zenon, <1>4, <2>1, KnownSame
    <2>4. Counted(v) /\ v.par.num = 0 BY <1>4, <1>5, <2>1, <2>2 DEF Counted
    <2> QED BY <2>3, <2>4
  <1>11. Ready(v) BY <1>9, <1>10 DEF Ready
  <1> QED BY <1>4, <1>5, <1>7, <1>11 DEF v

\* The copy in memory is not part of what Orderly() and Fits() look at.
LEMMA CopyKeeps ==
  ASSUME NEW w \in WorldType, Kinded(w), Fits(w), Ready(w), NEW c \in Confs \cup {Torn}
  PROVE  LET v == [w EXCEPT !.copy = c]
         IN /\ v \in WorldType /\ Kinded(v) /\ Fits(v) /\ Ready(v) /\ v.par = w.par /\ v.proc = w.proc
  <1> DEFINE v == [w EXCEPT !.copy = c]
  <1>1. v \in WorldType /\ v.par = w.par /\ v.proc = w.proc /\ v.odd = w.odd BY Zenon DEF WorldType
  <1> HIDE DEF v
  <1>2. Fits(v) /\ Kinded(v) BY <1>1, FitsSame DEF Scripted
  <1>3. (Smooth(v) => Smooth(w)) /\ (NoConfig(v) => NoConfig(w)) BY <1>1 DEF Smooth, NoConfig
  <1>4. Blank(w) => Blank(v) BY <1>1 DEF Blank
  <1>5. Known(w) => Known(v) BY Zenon, <1>1 DEF Known
  <1>6. Reading(v) = Reading(w) /\ Asked(v) = Asked(w) BY <1>1 DEF Reading, Asked
  <1>7. Counted(w) => Counted(v) BY <1>1, <1>6 DEF Counted
  <1>8. Ready(v) BY <1>1, <1>3, <1>4, <1>5, <1>7 DEF Ready
  <1> QED BY <1>1, <1>2, <1>8 DEF v

\* reload_config() ends: the configuration is refused, or the children are signalled.
LEMMA ConfigReadKeeps ==
  ASSUME NEW w, Sound(w), w.par.phase = "reading", FreeThree(w), NEW c \in Confs \cup {Torn}
  PROVE  LET back == [w EXCEPT !.par.phase = w.par.back]
         IN /\ Sound(back)
            /\ Sound(DoReload([back EXCEPT !.copy = c], IF c = Torn THEN w.par.conf ELSE c))
  <1> DEFINE back == [w EXCEPT !.par.phase = w.par.back]  y == [back EXCEPT !.copy = c]
             conf == IF c = Torn THEN w.par.conf ELSE c
  <1>1. /\ back \in WorldType /\ Kinded(back) /\ Fits(back) /\ Ready(back)
        /\ back.par.phase # "reading" /\ back.proc = w.proc
    BY BackReady
  <1> HIDE DEF back
  <1>2. Sound(back) BY <1>1, ReadyOrderly DEF Sound
  <1>3. y \in WorldType /\ Kinded(y) /\ Fits(y) /\ Ready(y) /\ y.par = back.par /\ y.proc = back.proc
    BY <1>1, CopyKeeps
  <1>4. conf \in Confs
    <2>1. w.par.conf \in Confs BY DEF Sound, WorldType, ParType
    <2> QED BY <2>1
  <1>5. FreeThree(y) BY <1>1, <1>3 DEF FreeThree
  <1> HIDE DEF y, conf
  <1>6. /\ DoReload(y, conf) \in WorldType /\ Kinded(DoReload(y, conf)) /\ Fits(DoReload(y, conf))
        /\ Orderly(DoReload(y, conf))
    BY Zenon, <1>1, <1>3, <1>4, <1>5, DoReloadKeeps
  <1>7. Sound(DoReload(y, conf)) BY <1>6 DEF Sound
  <1> QED BY <1>2, <1>7 DEF back, y, conf

\* A child has ended: the parent stops, or starts it again.
LEMMA ReapKeeps ==
  ASSUME NEW w, Sound(w), NEW p \in Proc, w.proc[p].phase = "crashed", NEW long \in BOOLEAN
  PROVE  /\ Sound(SigEnd(Reaped(w, p)))
         /\ Sound(Respawn(Reaped(w, p), w.proc[p].kind, long))
  <1> DEFINE x == Reaped(w, p)  k == w.proc[p].kind  v == Respawn(x, k, long)
  <1>1. w \in WorldType /\ Kinded(w) /\ Fits(w) /\ Orderly(w) BY DEF Sound
  <1>2. /\ x \in WorldType /\ Kinded(x) /\ Fits(x) /\ k \in KindSet /\ Spare(x, k)
        /\ SamePar(x, w) /\ x.odd = w.odd
        /\ x.proc[p] = Free /\ \A q \in Proc \ {p} : x.proc[q] = w.proc[q]
    BY Zenon, <1>1, ReapedIs
  <1> HIDE DEF x, k
  <1>3. Sound(SigEnd(x)) BY <1>2, SigEndKeeps
  <1>4. FreeOne(x) BY <1>2, FreeType DEF FreeOne
  <1>5. v \in WorldType /\ Kinded(v) /\ Fits(v) /\ Unmoved(v, x) BY Zenon, <1>2, <1>4, RespawnKeeps
  <1> HIDE DEF v
  <1>6. NoConfig(x) => NoConfig(w) BY <1>2 DEF NoConfig
  <1>7. Unmoved(v, w) BY <1>2, <1>5, <1>6 DEF Unmoved, SamePar
  <1>8. Disorder(w) BY <1>1, EndedDisorder
  <1>9. Orderly(v) BY <1>7, <1>8, DisorderUnmoved
  <1> QED BY Zenon, <1>3, <1>5, <1>9 DEF Sound, v, x, k

\* The delay before a restart has passed.
LEMMA DelayedRestartKeeps ==
  ASSUME NEW w, Sound(w), NEW k \in KindSet, w.par.timers[k] > 0, FreeThree(w)
  PROVE  Sound(StartChild([w EXCEPT !.par.timers[k] = @ - 1], k))
  <1> DEFINE t == w.par.timers[k] - 1  x == [w EXCEPT !.par.timers[k] = t]  v == StartChild(x, k)
  <1>1. w \in WorldType /\ Kinded(w) /\ Fits(w) /\ Orderly(w) BY DEF Sound
  <1>2. w.par.timers[k] \in Nat BY <1>1, FitType
  <1>3. t \in Nat /\ w.par.timers[k] = t + 1 BY <1>2
  <1> HIDE DEF t
  <1>4. /\ x \in WorldType /\ x.proc = w.proc /\ x.odd = w.odd /\ x.par.pid = w.par.pid
        /\ x.par.timers[k] = t /\ \A j \in KindSet \ {k} : x.par.timers[j] = w.par.timers[j]
        /\ x.par.phase = w.par.phase /\ x.par.back = w.par.back
    BY <1>1, <1>3, TimersIs
  <1> HIDE DEF x
  <1>5. \A j \in KindSet : Taken(x, j) = Taken(w, j) BY <1>4 DEF Taken
  <1>6. \A j \in KindSet \ {k} : Waiting(x, j) = Waiting(w, j) BY <1>4 DEF Waiting, Scripted
  <1>7. Waiting(w, k) = Waiting(x, k) + 1
    <2>1. Scripted(x) <=> Scripted(w) BY <1>4 DEF Scripted
    <2> QED BY <1>3, <1>4, <2>1 DEF Waiting
  <1>8. Cardinality(Taken(x, k)) + Waiting(x, k) <= x.odd.early[k]
    <2>1. Cardinality(Taken(x, k)) \in Nat /\ Waiting(x, k) \in Nat /\ x.odd.early[k] \in Nat
      BY <1>4, FitType
    <2>2. Fit(w, k) /\ Taken(x, k) = Taken(w, k) BY <1>1, <1>5 DEF Fits
    <2> QED BY <1>4, <1>7, <2>1, <2>2 DEF Fit
  <1>9. \A j \in KindSet \ {k} : Fit(x, j) BY Zenon, <1>1, <1>4, <1>5, <1>6 DEF Fit, Fits
  <1>10. Kinded(x) BY <1>1, <1>4 DEF Kinded
  <1>11. FreeOne(x) BY <1>4 DEF FreeOne, FreeThree
  <1>12. Fits(v) /\ Kinded(v) BY Zenon, <1>4, <1>8, <1>9, <1>10, <1>11, StartChildFits
  <1>13. v \in WorldType BY Zenon, <1>4, <1>11, StartChildIs
  <1>14. Unmoved(v, x) BY <1>4, <1>11, UnmovedStarted
  <1>15. Unmoved(x, w) BY <1>4 DEF Unmoved, NoConfig
  <1>16. Disorder(w) BY <1>1, TimerDisorder
  <1> HIDE DEF v
  <1>17. Unmoved(v, w) BY <1>14, <1>15 DEF Unmoved
  <1>18. Orderly(v) BY <1>16, <1>17, DisorderUnmoved
  <1> QED BY <1>12, <1>13, <1>18 DEF Sound, v, x, t

\* A step that changes neither the parent nor a child.
LEMMA AsideKeeps ==
  ASSUME NEW w, Sound(w), NEW v \in WorldType, v.par = w.par, v.proc = w.proc,
         v.odd.early = w.odd.early, Smooth(v) => Smooth(w)
  PROVE  Sound(v)
  <1>1. w \in WorldType /\ Kinded(w) /\ Fits(w) /\ Orderly(w) BY DEF Sound
  <1>2. Fits(v) /\ Kinded(v) BY <1>1, FitsSame DEF Scripted
  <1>3. Orderly(v) BY <1>1, OrderlySame
  <1> QED BY <1>2, <1>3 DEF Sound

-----------------------------------------------------------------------------
(* Steps of a child.                                                       *)

\* A child that lives goes on, and what it owes and has answered stays the same.
LEMMA ChildKeeps ==
  ASSUME NEW w, Sound(w), NEW v \in WorldType, NEW p \in Proc,
         v.par.pid = w.par.pid, v.par.timers = w.par.timers, v.par.num = w.par.num,
         v.par.conf = w.par.conf, v.par.phase = w.par.phase, v.par.back = w.par.back, v.odd = w.odd,
         \A q \in Proc \ {p} : v.proc[q] = w.proc[q],
         w.proc[p].phase \in {"forked", "ready", "running", "reloading"},
         v.proc[p].phase \in {"forked", "ready", "running", "reloading"},
         v.proc[p].kind = w.proc[p].kind, v.proc[p].term = w.proc[p].term,
         Started(w) => v.par.evt + Owed(v) = w.par.evt + Owed(w)
  PROVE  Sound(v)
  <1>1. w \in WorldType /\ Kinded(w) /\ Fits(w) /\ Orderly(w) BY DEF Sound
  <1>2. (Scripted(v) <=> Scripted(w)) /\ (Started(v) <=> Started(w)) BY DEF Scripted, Started
  <1>3. Fits(v) /\ Kinded(v) BY Zenon, <1>1, <1>2, FitsLess
  <1>4. Smooth(v) => Smooth(w) BY DEF Smooth
  <1>5. NoConfig(v) => NoConfig(w) BY DEF NoConfig
  <1>6. ~(Smooth(w) /\ Scripted(w)) BY Zenon, <1>1 DEF Orderly, Blank
  <1>7. ASSUME Smooth(v), Started(v), NoConfig(v) PROVE Known(v) /\ Counted(v)
    <2>1. Known(w) /\ Counted(w) BY Zenon, <1>1, <1>2, <1>4, <1>5, <1>7 DEF Orderly
    <2>2. ASSUME NEW q \in Proc, v.proc[q].phase # "free"
          PROVE  /\ v.proc[q].kind \in KindSet /\ v.par.pid[v.proc[q].kind] = q /\ ~v.proc[q].term
                 /\ v.proc[q].phase \in {"forked", "ready", "running", "reloading"}
      <3>1. CASE q = p
        <4>1. w.proc[p].kind \in KindSet /\ w.par.pid[w.proc[p].kind] = p /\ ~w.proc[p].term
          <5>1. w.proc[p].phase # "free" OBVIOUS
          <5> QED BY Zenon, <2>1, <5>1 DEF Known
        <4> QED BY Zenon, <3>1, <4>1
      <3>2. CASE q # p
        <4>1. v.proc[q] = w.proc[q] BY Zenon, <3>2
        <4> QED BY Zenon, <2>1, <2>2, <4>1 DEF Known
      <3> QED BY Zenon, <3>1, <3>2
    <2>3. ASSUME NEW q \in Proc, v.proc[q].phase = "free" PROVE ~v.proc[q].hup
      <3>1. q # p BY <2>3
      <3>2. v.proc[q] = w.proc[q] BY Zenon, <3>1
      <3> QED BY Zenon, <2>1, <2>3, <3>2 DEF Known
    <2>4. ASSUME NEW k \in KindSet, v.par.pid[k] # NoProc
          PROVE  v.proc[v.par.pid[k]].phase # "free" /\ v.proc[v.par.pid[k]].kind = k
      <3>1. w.par.pid[k] \in Proc BY Zenon, <1>1, <2>4 DEF WorldType, ParType
      <3>2. w.proc[w.par.pid[k]].phase # "free" /\ w.proc[w.par.pid[k]].kind = k
        BY Zenon, <2>1, <2>4 DEF Known
      <3> QED BY Zenon, <3>1, <3>2
    <2>5. Known(v)
      <3>1. \A k \in KindSet : v.par.timers[k] = 0 BY Zenon, <2>1 DEF Known
      <3> QED BY Zenon, <2>2, <2>3, <2>4, <3>1 DEF Known
    <2>6. v.par.num = v.par.evt + Cardinality(Reading(v)) + Cardinality(Asked(v))
      <3>1. /\ Cardinality(Reading(v)) \in Nat /\ Cardinality(Asked(v)) \in Nat
            /\ Cardinality(Reading(w)) \in Nat /\ Cardinality(Asked(w)) \in Nat
        BY OwedType
      <3>2. v.par.evt \in Nat /\ w.par.evt \in Nat BY Zenon, <1>1 DEF WorldType, ParType
      <3>3. v.par.evt + Owed(v) = w.par.evt + Owed(w) BY Zenon, <1>2, <1>7
      <3>4. w.par.num = w.par.evt + Cardinality(Reading(w)) + Cardinality(Asked(w))
        BY Zenon, <2>1 DEF Counted
      <3>5. Owed(v) = Cardinality(Reading(v)) + Cardinality(Asked(v))
            /\ Owed(w) = Cardinality(Reading(w)) + Cardinality(Asked(w))
        BY Zenon DEF Owed
      <3>6. v.par.num = w.par.num OBVIOUS
      <3> DEFINE a == Cardinality(Reading(v))  b == Cardinality(Asked(v))
                 c == Cardinality(Reading(w))  d == Cardinality(Asked(w))
                 e == v.par.evt  f == w.par.evt  n == v.par.num  x == Owed(v)  y == Owed(w)
      <3>7. /\ a \in Nat /\ b \in Nat /\ c \in Nat /\ d \in Nat /\ e \in Nat /\ f \in Nat
            /\ e + x = f + y /\ n = f + c + d /\ x = a + b /\ y = c + d
        BY Zenon, <3>1, <3>2, <3>3, <3>4, <3>5, <3>6
      <3> HIDE DEF a, b, c, d, e, f, n, x, y
      <3>8. n = e + a + b BY <3>7
      <3> QED BY Zenon, <3>8 DEF a, b, e, n
    <2>7. Counted(v) BY Zenon, <2>1, <2>6 DEF Counted
    <2> QED BY <2>5, <2>7
  <1>8. Orderly(v) BY Zenon, <1>2, <1>4, <1>6, <1>7 DEF Orderly
  <1> QED BY <1>3, <1>8 DEF Sound

\* A child ends.
LEMMA ChildGoes ==
  ASSUME NEW w, Sound(w), NEW v \in WorldType, NEW p \in Proc, v.par = w.par,
         v.odd.early = w.odd.early, \A q \in Proc \ {p} : v.proc[q] = w.proc[q],
         w.proc[p].phase # "free",
         v.proc[p].phase = "free" \/ v.proc[p].kind = w.proc[p].kind,
         Orderly(v)
  PROVE  Sound(v)
  <1>1. w \in WorldType /\ Kinded(w) /\ Fits(w) /\ Orderly(w) BY DEF Sound
  <1>2. Scripted(v) => Scripted(w) BY DEF Scripted
  <1>3. Fits(v) /\ Kinded(v) BY <1>1, <1>2, FitsLess
  <1> QED BY <1>3 DEF Sound

\* One child of many has another record.
LEMMA ProcIs ==
  ASSUME World \in WorldType, NEW p \in Proc, NEW s \in ChildType,
         proc' = [proc EXCEPT ![p] = s], test' = test, copy' = copy, odd' = odd, par' \in ParType
  PROVE  /\ World' \in WorldType /\ World'.par = par' /\ World'.odd = odd /\ World'.proc[p] = s
         /\ \A q \in Proc \ {p} : World'.proc[q] = World.proc[q]
  <1>1. proc \in [Proc -> ChildType] BY DEF World, WorldType
  <1>2. proc' \in [Proc -> ChildType] /\ proc'[p] = s /\ \A q \in Proc \ {p} : proc'[q] = proc[q]
    BY <1>1
  <1>3. World' \in WorldType BY <1>2 DEF World, WorldType
  <1> QED BY <1>2, <1>3 DEF World

\* A record of a child with other fields.
LEMMA ChildSet ==
  ASSUME NEW s \in ChildType
  PROVE  /\ LET t == [s EXCEPT !.phase = "ready"]
            IN /\ t \in ChildType /\ t.phase = "ready" /\ t.kind = s.kind /\ t.hup = s.hup
               /\ t.term = s.term
         /\ LET t == [s EXCEPT !.phase = "reloading", !.hup = FALSE]
            IN /\ t \in ChildType /\ t.phase = "reloading" /\ t.kind = s.kind /\ ~t.hup
               /\ t.term = s.term
         /\ \A c \in Confs \cup {Torn} :
              LET t == [s EXCEPT !.phase = "running", !.conf = c]
              IN /\ t \in ChildType /\ t.phase = "running" /\ t.kind = s.kind /\ t.hup = s.hup
                 /\ t.term = s.term
         /\ \A h \in {"crashed", "config"} :
              LET t == [s EXCEPT !.phase = h, !.hup = FALSE, !.term = FALSE]
              IN t \in ChildType /\ t.phase = h /\ t.kind = s.kind
  BY Zenon DEF ChildType

\* A child that has read a configuration runs.
LEMMA RunningSet ==
  ASSUME NEW s \in ChildType, NEW c \in Confs \cup {Torn}
  PROVE  LET t == [s EXCEPT !.phase = "running", !.conf = c]
         IN /\ t \in ChildType /\ t.phase = "running" /\ t.kind = s.kind /\ t.hup = s.hup
            /\ t.term = s.term
  BY Zenon, ChildSet

\* A child that ends is reaped later, or is gone with its parent.
LEMMA EndedIs ==
  ASSUME NEW s \in ChildType, NEW h \in {"crashed", "config"}
  PROVE  /\ Ended(s, h) \in ChildType
         /\ Ended(s, h).phase = "free" \/ Ended(s, h).kind = s.kind
         /\ par.phase = "gone" \/ Ended(s, h).phase = h
  <1> DEFINE t == [s EXCEPT !.phase = h, !.hup = FALSE, !.term = FALSE]
  <1>1. t \in ChildType /\ t.phase = h /\ t.kind = s.kind BY Zenon, ChildSet
  <1>2. Ended(s, h) = IF par.phase = "gone" THEN Free ELSE t BY DEF Ended
  <1> HIDE DEF t
  <1> QED BY <1>1, <1>2, FreeType

WorldFacts ==
  /\ World \in WorldType /\ World.par = par /\ World.proc = proc /\ World.odd = odd
  /\ World.test = test /\ World.copy = copy
  /\ par \in ParType /\ proc \in [Proc -> ChildType] /\ copy \in Confs \cup {Torn}

\* The parts of a sound world.
LEMMA WorldHas ==
  ASSUME Sound(World)
  PROVE  WorldFacts
  <1>1. World \in WorldType BY DEF Sound
  <1>2. /\ World.par = par /\ World.proc = proc /\ World.odd = odd
        /\ World.test = test /\ World.copy = copy
    BY DEF World
  <1>3. World.par \in ParType /\ World.proc \in [Proc -> ChildType] /\ World.copy \in Confs \cup {Torn}
    BY <1>1 DEF WorldType
  <1> QED BY <1>1, <1>2, <1>3 DEF WorldFacts

\* start_vrrp_child(): the child sets its signals up.
LEMMA ChildReadyKeeps ==
  ASSUME Sound(World), NEW p \in Proc, ChildReady(p)
  PROVE  Sound(World')
  <1> DEFINE s == [proc[p] EXCEPT !.phase = "ready"]
  <1>1. WorldFacts BY WorldHas
  <1>2. /\ proc[p].phase = "forked" /\ proc' = [proc EXCEPT ![p] = s] /\ test' = test /\ copy' = copy
        /\ odd' = odd /\ par' = par
    BY DEF ChildReady, Child
  <1>3. proc[p] \in ChildType BY <1>1 DEF WorldFacts
  <1>4. s \in ChildType /\ s.phase = "ready" /\ s.kind = proc[p].kind /\ s.hup = proc[p].hup
        /\ s.term = proc[p].term
    BY Zenon, <1>3, ChildSet
  <1> HIDE DEF s
  <1>5. /\ World' \in WorldType /\ World'.par = par /\ World'.odd = odd /\ World'.proc[p] = s
        /\ \A q \in Proc \ {p} : World'.proc[q] = World.proc[q]
    BY Zenon, <1>1, <1>2, <1>4, ProcIs DEF WorldFacts
  <1> DEFINE w == World  v == World'
  <1>6. w.par = par /\ w.odd = odd /\ w.proc = proc BY <1>1 DEF WorldFacts
  <1>7. Sound(w) OBVIOUS
  <1>8. v \in WorldType /\ v.par = w.par /\ v.odd = w.odd /\ v.proc[p] = s
        /\ \A q \in Proc \ {p} : v.proc[q] = w.proc[q]
    BY <1>5, <1>6
  <1>9. w.proc[p].phase = "forked" /\ s.hup = w.proc[p].hup /\ s.kind = w.proc[p].kind
        /\ s.term = w.proc[p].term
    BY <1>2, <1>4, <1>6
  <1> HIDE DEF w, v
  <1>10. Reading(v) = Reading(w) BY <1>4, <1>8, <1>9 DEF Reading
  <1>11. Asked(v) = Asked(w) BY <1>8, <1>9 DEF Asked
  <1>12. Owed(v) = Owed(w) BY <1>10, <1>11 DEF Owed
  <1>13. /\ v.par.pid = w.par.pid /\ v.par.timers = w.par.timers /\ v.par.num = w.par.num
         /\ v.par.conf = w.par.conf /\ v.par.phase = w.par.phase /\ v.par.back = w.par.back
         /\ v.par.evt + Owed(v) = w.par.evt + Owed(w)
    BY Zenon, <1>8, <1>12
  <1>14. /\ w.proc[p].phase \in {"forked", "ready", "running", "reloading"}
         /\ v.proc[p].phase \in {"forked", "ready", "running", "reloading"}
         /\ v.proc[p].kind = w.proc[p].kind /\ v.proc[p].term = w.proc[p].term
    BY <1>4, <1>8, <1>9
  <1>15. Sound(v) BY Zenon, <1>7, <1>8, <1>13, <1>14, ChildKeeps
  <1> QED BY <1>15 DEF v

\* sigreload_vrrp(): the request that was noticed becomes a reload.
LEMMA ChildHupKeeps ==
  ASSUME Sound(World), NEW p \in Proc, ChildHup(p)
  PROVE  Sound(World')
  <1> DEFINE s == [proc[p] EXCEPT !.phase = "reloading", !.hup = FALSE]
  <1>1. WorldFacts BY WorldHas
  <1>2. /\ proc[p].phase = "running" /\ proc[p].hup
        /\ proc' = [proc EXCEPT ![p] = s] /\ test' = test /\ copy' = copy
        /\ odd' = odd /\ par' = par
    BY DEF ChildHup, Child
  <1>3. proc[p] \in ChildType BY <1>1 DEF WorldFacts
  <1>4. s \in ChildType /\ s.phase = "reloading" /\ s.kind = proc[p].kind /\ ~s.hup
        /\ s.term = proc[p].term
    BY Zenon, <1>3, ChildSet
  <1> HIDE DEF s
  <1>5. /\ World' \in WorldType /\ World'.par = par /\ World'.odd = odd /\ World'.proc[p] = s
        /\ \A q \in Proc \ {p} : World'.proc[q] = World.proc[q]
    BY Zenon, <1>1, <1>2, <1>4, ProcIs DEF WorldFacts
  <1> DEFINE w == World  v == World'
  <1>6. w.par = par /\ w.odd = odd /\ w.proc = proc BY <1>1 DEF WorldFacts
  <1>7. Sound(w) OBVIOUS
  <1>8. v \in WorldType /\ v.par = w.par /\ v.odd = w.odd /\ v.proc[p] = s
        /\ \A q \in Proc \ {p} : v.proc[q] = w.proc[q]
    BY <1>5, <1>6
  <1>9. w.proc[p].phase = "running" /\ w.proc[p].hup /\ s.kind = w.proc[p].kind
        /\ s.term = w.proc[p].term
    BY <1>2, <1>4, <1>6
  <1> HIDE DEF w, v
  <1>10. Reading(v) = Reading(w) \cup {p} /\ p \notin Reading(w) BY <1>4, <1>8, <1>9 DEF Reading
  <1>11. Asked(v) = Asked(w) \ {p} /\ p \in Asked(w) BY <1>4, <1>8, <1>9 DEF Asked
  <1>12. Cardinality(Reading(v)) = Cardinality(Reading(w)) + 1 BY <1>10, SizeMore DEF Reading
  <1>13. Cardinality(Asked(v)) + 1 = Cardinality(Asked(w)) BY <1>11, SizeLess DEF Asked
  <1>14. Owed(v) = Owed(w) BY <1>12, <1>13, OwedType DEF Owed
  <1>15. Sound(v) BY <1>4, <1>7, <1>8, <1>9, <1>14, ChildKeeps
  <1> QED BY <1>15 DEF v

\* start_vrrp() and reload_vrrp_thread(): a child reads the copy, and answers; or it
\* rejects the configuration, and the parent will exit.
LEMMA ReadsCopyKeeps ==
  ASSUME Sound(World), NEW p \in Proc, proc[p].phase \in {"ready", "reloading"}, ReadsCopy(p)
  PROVE  Sound(World')
  <1> DEFINE s == [proc[p] EXCEPT !.phase = "running", !.conf = copy]
             w == World  v == World'
  <1>1. WorldFacts BY WorldHas
  <1>2. proc[p] \in ChildType BY <1>1 DEF WorldFacts
  <1>3. /\ w \in WorldType /\ w.par = par /\ w.odd = odd /\ w.proc = proc /\ Sound(w)
        /\ par \in ParType
    BY <1>1 DEF WorldFacts
  <1>4. CASE Child(p, s) /\ par' = Told(par)
    <2>1. proc' = [proc EXCEPT ![p] = s] /\ test' = test /\ copy' = copy /\ odd' = odd
      BY <1>4 DEF Child
    <2>2. s \in ChildType /\ s.phase = "running" /\ s.kind = proc[p].kind /\ s.hup = proc[p].hup
          /\ s.term = proc[p].term
      <3>1. copy \in Confs \cup {Torn} BY <1>1 DEF WorldFacts
      <3> QED BY Zenon, <1>2, <3>1, RunningSet
    <2> HIDE DEF s
    <2> DEFINE e == par.evt + IF par.phase = "gone" THEN 0 ELSE 1
    <2>3. e \in Nat /\ (par.phase # "gone" => e = par.evt + 1)
      <3>1. par.evt \in Nat BY <1>3 DEF ParType
      <3> QED BY <3>1
    <2>4. par' = [par EXCEPT !.evt = e] BY <1>4 DEF Told
    <2> HIDE DEF e
    <2>5. par' \in ParType BY <1>3, <2>3, <2>4, ParSet
    <2>6. /\ par'.phase = par.phase /\ par'.back = par.back /\ par'.conf = par.conf /\ par'.pid = par.pid
          /\ par'.timers = par.timers /\ par'.num = par.num /\ par'.evt = e
      BY <1>3, <2>4 DEF ParType
    <2>7. /\ v \in WorldType /\ v.par = par' /\ v.odd = odd /\ v.proc[p] = s
          /\ \A q \in Proc \ {p} : v.proc[q] = w.proc[q]
      BY Zenon, <1>3, <2>1, <2>2, <2>5, ProcIs
    <2> HIDE DEF w, v
    <2>8. w.proc[p].phase \in {"ready", "reloading"} /\ w.proc[p] = proc[p] BY <1>3
    <2>9. Reading(v) = Reading(w) \ {p} /\ p \in Reading(w) BY <2>2, <2>7, <2>8 DEF Reading
    <2>10. Asked(v) = Asked(w) BY <2>2, <2>7, <2>8 DEF Asked
    <2>11. Cardinality(Reading(v)) + 1 = Cardinality(Reading(w)) BY <2>9, SizeLess DEF Reading
    <2>12. Owed(v) + 1 = Owed(w)
      <3>1. Cardinality(Reading(v)) \in Nat /\ Cardinality(Asked(v)) \in Nat BY OwedType
      <3> QED BY <2>10, <2>11, <3>1 DEF Owed
    <2>13. Started(w) => v.par.evt + Owed(v) = w.par.evt + Owed(w)
      <3>1. Started(w) => par.phase # "gone" BY <1>3 DEF Started
      <3>2. par.evt \in Nat /\ Owed(v) \in Nat BY <1>3, OwedType DEF ParType
      <3> QED BY <1>3, <2>3, <2>6, <2>7, <2>12, <3>1, <3>2
    <2>14. /\ v.par.pid = w.par.pid /\ v.par.timers = w.par.timers /\ v.par.num = w.par.num
           /\ v.par.conf = w.par.conf /\ v.par.phase = w.par.phase /\ v.par.back = w.par.back
           /\ v.odd = w.odd
      BY <1>3, <2>6, <2>7
    <2>15. /\ w.proc[p].phase \in {"forked", "ready", "running", "reloading"}
           /\ v.proc[p].phase \in {"forked", "ready", "running", "reloading"}
           /\ v.proc[p].kind = w.proc[p].kind /\ v.proc[p].term = w.proc[p].term
      BY <2>2, <2>7, <2>8
    <2>16. Sound(v) BY Zenon, <1>3, <2>7, <2>13, <2>14, <2>15, ChildKeeps
    <2> QED BY <2>16 DEF v
  <1>5. CASE Child(p, Ended(proc[p], "config")) /\ UNCHANGED par
    <2> DEFINE t == Ended(proc[p], "config")
    <2>1. proc' = [proc EXCEPT ![p] = t] /\ test' = test /\ copy' = copy /\ odd' = odd /\ par' = par
      BY <1>5 DEF Child
    <2>2. /\ t \in ChildType /\ (t.phase = "free" \/ t.kind = proc[p].kind)
          /\ par.phase = "gone" \/ t.phase = "config"
      BY <1>2, EndedIs
    <2> HIDE DEF t
    <2>3. /\ v \in WorldType /\ v.par = par' /\ v.odd = odd /\ v.proc[p] = t
          /\ \A q \in Proc \ {p} : v.proc[q] = w.proc[q]
      BY Zenon, <1>3, <2>1, <2>2, ProcIs
    <2> HIDE DEF w, v
    <2>4. v.par = w.par /\ v.odd = w.odd /\ w.proc[p] = proc[p] BY <1>3, <2>1, <2>3
    <2>5. Orderly(v)
      <3>1. CASE par.phase = "gone" BY <1>3, <2>4, <3>1, OrderlyVoid
      <3>2. CASE t.phase = "config"
        <4>1. ~NoConfig(v) BY <2>3, <3>2 DEF NoConfig
        <4>2. ~(Smooth(w) /\ Scripted(w)) BY Zenon, <1>3, <2>4 DEF Sound, Orderly, Blank
        <4>3. ~(Smooth(v) /\ Scripted(v)) BY <2>4, <4>2 DEF Smooth, Scripted
        <4> QED BY <4>1, <4>3 DEF Orderly
      <3> QED BY <2>2, <3>1, <3>2
    <2>6. w.proc[p].phase # "free" BY <2>4
    <2>7. Sound(v) BY <1>3, <2>2, <2>3, <2>4, <2>5, <2>6, ChildGoes
    <2> QED BY <2>7 DEF v
  <1> QED BY <1>4, <1>5 DEF ReadsCopy

\* A child that was told to stop ends.
LEMMA ChildEndsKeeps ==
  ASSUME Sound(World), NEW p \in Proc, ChildEnds(p)
  PROVE  Sound(World')
  <1> DEFINE t == Ended(proc[p], "crashed")  w == World  v == World'
  <1>1. WorldFacts BY WorldHas
  <1>2. proc[p] \in ChildType BY <1>1 DEF WorldFacts
  <1>3. /\ w \in WorldType /\ w.par = par /\ w.odd = odd /\ w.proc = proc /\ Sound(w)
        /\ par \in ParType
    BY <1>1 DEF WorldFacts
  <1>4. /\ proc[p].phase = "running" /\ proc[p].term
        /\ proc' = [proc EXCEPT ![p] = t] /\ test' = test /\ copy' = copy /\ odd' = odd /\ par' = par
    BY DEF ChildEnds, Child
  <1>5. /\ t \in ChildType /\ (t.phase = "free" \/ t.kind = proc[p].kind)
        /\ par.phase = "gone" \/ t.phase = "crashed"
    BY <1>2, EndedIs
  <1> HIDE DEF t
  <1>6. /\ v \in WorldType /\ v.par = par' /\ v.odd = odd /\ v.proc[p] = t
        /\ \A q \in Proc \ {p} : v.proc[q] = w.proc[q]
    BY Zenon, <1>3, <1>4, <1>5, ProcIs
  <1> HIDE DEF w, v
  <1>7. v.par = w.par /\ v.odd = w.odd /\ w.proc[p] = proc[p] BY <1>3, <1>4, <1>6
  <1>8. Disorder(w) BY <1>3, <1>4, <1>7, TermDisorder DEF Sound
  <1>9. NoConfig(v) => NoConfig(w) BY <1>4, <1>6, <1>7 DEF NoConfig
  <1>10. Orderly(v) BY <1>7, <1>8, <1>9, DisorderUnmoved DEF Unmoved
  <1>11. Sound(v) BY <1>3, <1>4, <1>5, <1>6, <1>7, <1>10, ChildGoes
  <1> QED BY <1>11 DEF v

\* A child dies by itself: the history has it.
LEMMA ChildDiesKeeps ==
  ASSUME Sound(World), NEW p \in Proc, ChildDies(p)
  PROVE  Sound(World')
  <1> DEFINE t == Ended(proc[p], "crashed")  w == World  v == World'
  <1>1. WorldFacts BY WorldHas
  <1>2. proc[p] \in ChildType BY <1>1 DEF WorldFacts
  <1>3. /\ w \in WorldType /\ w.par = par /\ w.odd = odd /\ w.proc = proc /\ Sound(w)
        /\ proc \in [Proc -> ChildType] /\ w.test = test /\ w.copy = copy
    BY <1>1 DEF WorldFacts
  <1>4. /\ Alive(proc[p]) /\ proc' = [proc EXCEPT ![p] = t] /\ test' = test /\ copy' = copy
        /\ odd' = [odd EXCEPT !.died = TRUE] /\ par' = par
    BY DEF ChildDies
  <1>5. proc[p].phase # "free" BY <1>4 DEF Alive
  <1>6. t \in ChildType /\ (t.phase = "free" \/ t.kind = proc[p].kind) BY <1>2, EndedIs
  <1> HIDE DEF t
  <1>7. odd \in OddType BY <1>3 DEF WorldType, OddType
  <1>8. odd' \in OddType /\ odd'.died /\ odd'.early = odd.early BY Zenon, <1>4, <1>7 DEF OddType
  <1>9. proc' \in [Proc -> ChildType] /\ proc'[p] = t /\ \A q \in Proc \ {p} : proc'[q] = proc[q]
    BY <1>3, <1>4, <1>6
  <1>10. v.par = par' /\ v.proc = proc' /\ v.odd = odd' BY DEF World
  <1>11. v \in WorldType
    <2>1. par \in ParType /\ test \in Seq({"forked", "writing", "good", "bad", "killed"})
          /\ copy \in Confs \cup {Torn}
      BY <1>3 DEF WorldType
    <2> QED BY Zenon, <1>4, <1>8, <1>9, <2>1 DEF World, WorldType, OddType
  <1> HIDE DEF w, v
  <1>12. Orderly(v)
    <2>1. ~Smooth(v) BY <1>8, <1>10 DEF Smooth
    <2> QED BY <2>1, OrderlyVoid
  <1>13. /\ v.par = w.par /\ v.odd.early = w.odd.early /\ w.proc[p] = proc[p] /\ v.proc[p] = t
         /\ \A q \in Proc \ {p} : v.proc[q] = w.proc[q]
    BY <1>3, <1>4, <1>8, <1>9, <1>10
  <1>14. Sound(v) BY <1>3, <1>5, <1>6, <1>11, <1>12, <1>13, ChildGoes
  <1> QED BY <1>14 DEF v

-----------------------------------------------------------------------------
(* The validation, the user, and the end of the parent.                    *)

TestSet == {"forked", "writing", "good", "bad", "killed"}

\* A validation that has ended is forgotten.
LEMMA RemoveType ==
  ASSUME NEW s \in Seq(TestSet), NEW i \in DOMAIN s
  PROVE  SubSeq(s, 1, i - 1) \o SubSeq(s, i + 1, Len(s)) \in Seq(TestSet)
  <1> DEFINE a == SubSeq(s, 1, i - 1)  b == SubSeq(s, i + 1, Len(s))
  <1>1. i \in 1..Len(s) /\ Len(s) \in Nat OBVIOUS
  <1>2. \A j \in 1..Len(s) : s[j] \in TestSet OBVIOUS
  <1>3. a \in Seq(TestSet) BY <1>1, <1>2
  <1>4. b \in Seq(TestSet) BY <1>1, <1>2
  <1> HIDE DEF a, b
  <1>5. a \o b \in Seq(TestSet) BY <1>3, <1>4
  <1> QED BY <1>5 DEF a, b

\* The validations are nothing to the children.
LEMMA TestIs ==
  ASSUME NEW w, Sound(w), NEW t \in Seq(TestSet)
  PROVE  LET v == [w EXCEPT !.test = t] IN Sound(v) /\ v.par = w.par
  <1> DEFINE v == [w EXCEPT !.test = t]
  <1>1. v \in WorldType /\ v.par = w.par /\ v.proc = w.proc /\ v.odd = w.odd
    BY DEF Sound, WorldType, TestSet
  <1> HIDE DEF v
  <1>2. v.odd.early = w.odd.early /\ (Smooth(v) => Smooth(w)) BY <1>1 DEF Smooth
  <1> QED BY Zenon, <1>1, <1>2, AsideKeeps DEF v

\* A process that validates a configuration goes on, or is killed.
LEMMA TestStepKeeps ==
  ASSUME Sound(World), file \in Confs, NEW i \in DOMAIN test,
         TestBegin(i) \/ TestEnd(i) \/ TestTimeout(i)
  PROVE  Sound(World')
  <1> DEFINE w == World  v == World'
  <1>1. WorldFacts BY WorldHas
  <1>2. /\ w \in WorldType /\ w.par = par /\ w.odd = odd /\ w.proc = proc /\ Sound(w)
    BY <1>1 DEF WorldFacts
  <1>3. /\ test \in Seq(TestSet) /\ odd \in OddType /\ par \in ParType /\ proc \in [Proc -> ChildType]
        /\ copy \in Confs \cup {Torn}
    BY DEF Sound, World, WorldType, TestSet, OddType
  <1>4. test' \in Seq(TestSet)
    <2>1. \E x \in TestSet : test' = [test EXCEPT ![i] = x]
      BY DEF TestBegin, TestEnd, TestTimeout, TestSet
    <2> QED BY <1>3, <2>1
  <1>5. copy' \in Confs \cup {Torn} BY <1>3 DEF TestBegin, TestEnd, TestTimeout
  <1>6. par' = par /\ proc' = proc BY DEF TestBegin, TestEnd, TestTimeout
  <1>7. odd' \in OddType /\ odd'.early = odd.early /\ (odd' = odd \/ odd'.died)
    <2>1. odd' = odd \/ odd' = [odd EXCEPT !.died = TRUE] BY DEF TestBegin, TestEnd, TestTimeout
    <2> QED BY Zenon, <1>3, <2>1 DEF OddType
  <1>8. v \in WorldType BY Zenon, <1>3, <1>4, <1>5, <1>6, <1>7 DEF World, WorldType, TestSet, OddType
  <1>9. v.par = par /\ v.proc = proc /\ v.odd = odd' BY <1>6 DEF World
  <1> HIDE DEF w, v
  <1>10. Smooth(v) => Smooth(w) BY <1>2, <1>7, <1>9 DEF Smooth
  <1>11. Sound(v) BY <1>2, <1>7, <1>8, <1>9, <1>10, AsideKeeps
  <1> QED BY <1>11 DEF v

\* The asked field of the history is only for liveness.
LEMMA AskedIs ==
  ASSUME NEW w, Sound(w), NEW b \in BOOLEAN
  PROVE  LET v == [w EXCEPT !.odd.asked = b] IN Sound(v) /\ v.par = w.par
  <1> DEFINE o == [w.odd EXCEPT !.asked = b]  v == [w EXCEPT !.odd = o]
  <1>1. w \in WorldType BY DEF Sound
  <1>2. w.odd \in OddType BY <1>1 DEF WorldType, OddType
  <1>3. /\ o \in OddType /\ o.early = w.odd.early /\ o.double = w.odd.double /\ o.died = w.odd.died
    BY <1>2 DEF OddType
  <1> HIDE DEF o
  <1>4. v \in WorldType /\ v.par = w.par /\ v.proc = w.proc /\ v.odd = o
    BY Zenon, <1>1, <1>3 DEF WorldType, OddType
  <1> HIDE DEF v
  <1>5. Smooth(v) => Smooth(w) BY <1>3, <1>4 DEF Smooth
  <1>6. Sound(v) BY <1>3, <1>4, <1>5, AsideKeeps
  <1> QED BY <1>4, <1>6 DEF v, o

\* The user writes the file.
LEMMA EditKeeps ==
  ASSUME Sound(World), NEW conf, Edit(conf)
  PROVE  Sound(World')
  <1> DEFINE o == [odd EXCEPT !.asked = FALSE]
  <1>1. par' = par /\ proc' = proc /\ test' = test /\ copy' = copy /\ odd' = o BY DEF Edit
  <1>2. WorldFacts BY WorldHas
  <1>3. odd \in OddType BY DEF Sound, World, WorldType, OddType
  <1>4. /\ o \in OddType /\ o.early = odd.early /\ o.double = odd.double /\ o.died = odd.died
    BY Zenon, <1>3 DEF OddType
  <1> HIDE DEF o
  <1>5. World \in WorldType BY DEF Sound
  <1>6. World' \in WorldType BY Zenon, <1>1, <1>4, <1>5 DEF World, WorldType, OddType
  <1>7. World'.par = World.par /\ World'.proc = World.proc /\ World'.odd = o /\ World.odd = odd
    BY <1>1 DEF World
  <1>8. Smooth(World') => Smooth(World) BY <1>4, <1>7 DEF Smooth
  <1>9. World'.odd.early = World.odd.early BY <1>4, <1>7
  <1> DEFINE v == World'
  <1>10. v \in WorldType /\ v.par = World.par /\ v.proc = World.proc BY <1>6, <1>7
  <1>11. v.odd.early = World.odd.early /\ (Smooth(v) => Smooth(World)) BY <1>8, <1>9
  <1> HIDE DEF v
  <1>12. Sound(v) BY <1>10, <1>11, AsideKeeps
  <1> QED BY <1>12 DEF v

\* sigend() kills the children that have not ended.
LEMMA KilledKeeps ==
  ASSUME Sound(World), par.phase = "ending"
  PROVE  LET w == Killed(World)
         IN /\ w \in WorldType /\ Kinded(w) /\ Fits(w)
            /\ Sound([w EXCEPT !.par.phase = "stopping"])
  <1> DEFINE pr == [p \in Proc |-> IF Alive(proc[p]) /\ \E k \in KindSet : par.pid[k] = p
                                   THEN Ended(proc[p], "crashed") ELSE proc[p]]
             w == Killed(World)  v == [w EXCEPT !.par.phase = "stopping"]
  <1>1. WorldFacts BY WorldHas
  <1>2. World \in WorldType /\ Kinded(World) /\ Fits(World) BY DEF Sound
  <1>3. /\ World.par = par /\ World.proc = proc /\ World.odd = odd /\ proc \in [Proc -> ChildType]
    BY <1>1 DEF WorldFacts
  <1>4. w = [World EXCEPT !.proc = pr] BY <1>3 DEF Killed
  <1>5. \A p \in Proc : /\ Ended(proc[p], "crashed") \in ChildType
                        /\ Ended(proc[p], "crashed").phase = "free"
                             \/ Ended(proc[p], "crashed").kind = proc[p].kind
    BY <1>3, EndedIs
  <1>6. \A p \in Proc : Alive(proc[p]) => proc[p].phase # "free" BY DEF Alive
  <1>7. /\ pr \in [Proc -> ChildType]
        /\ \A p \in Proc : \/ pr[p].phase = "free"
                           \/ pr[p].kind = proc[p].kind /\ proc[p].phase # "free"
    BY <1>3, <1>5, <1>6
  <1> HIDE DEF pr, w
  <1>8. w \in WorldType /\ w.proc = pr /\ w.par = par /\ w.odd = odd
    BY Zenon, <1>2, <1>3, <1>4, <1>7 DEF WorldType
  <1>9. ~Scripted(w) BY <1>8 DEF Scripted
  <1>10. Fits(w) /\ Kinded(w) BY <1>2, <1>3, <1>7, <1>8, <1>9, FitsLess
  <1>11. "stopping" \in ParPhase BY DEF ParPhase
  <1>12. /\ v \in WorldType /\ v.proc = w.proc /\ v.odd = w.odd /\ v.par.phase = "stopping"
         /\ v.par.pid = w.par.pid /\ v.par.timers = w.par.timers
    BY <1>8, <1>11, PhaseIs
  <1> HIDE DEF v
  <1>13. ~Scripted(v) BY <1>12 DEF Scripted
  <1>14. Fits(v) /\ Kinded(v) BY <1>9, <1>10, <1>12, <1>13, FitsSame
  <1>15. Orderly(v) BY <1>12, OrderlyVoid
  <1> QED BY <1>8, <1>10, <1>12, <1>14, <1>15 DEF Sound, v, w

\* Room for three children.
LEMMA RoomIs ==
  ASSUME Room, World.proc = proc
  PROVE  FreeThree(World)
  BY DEF Room, FreeThree

\* The next state is the world that a handler leaves.
LEMMA BecomesIs ==
  ASSUME NEW v \in WorldType, Becomes(v)
  PROVE  World' = v
  BY DEF Becomes, World, WorldType

\* A handler that leaves a sound world.
LEMMA SoundBecomes ==
  ASSUME NEW v, Sound(v), Becomes(v)
  PROVE  Sound(World')
  BY BecomesIs DEF Sound

-----------------------------------------------------------------------------
(* Every step.                                                             *)

MayType == [name : STRING, first : Confs, edits : SUBSET Confs, reloads : Int,
            deaths : Int, stops : Int, usr1 : BOOLEAN, dump : BOOLEAN]

\* The initial world.
LEMMA InitSound ==
  ASSUME InitParent
  PROVE  Sound(World) /\ may \in MayType /\ file \in Confs
  <1>1. may \in Setups /\ may.first \in Confs /\ may \in MayType
    BY ParentAssumption DEF InitParent, MayType
  <1>2. file \in Confs /\ copy \in Confs BY <1>1 DEF InitParent
  <1>3. par \in ParType
    <2>1. 0 \in 0..(Word - 1) BY ParentAssumption
    <2>2. "script" \in ParPhase /\ "script" \in LoopPhase BY DEF ParPhase, LoopPhase
    <2> QED BY <1>1, <2>1, <2>2 DEF InitParent, ParType
  <1>4. proc \in [Proc -> ChildType] /\ \A p \in Proc : proc[p] = Free BY FreeType DEF InitParent
  <1>5. test = <<>> BY DEF InitParent
  <1>6. odd \in OddType /\ \A k \in KindSet : odd.early[k] = 0 BY DEF InitParent, OddType
  <1>7. World \in WorldType
    <2>1. test \in Seq({"forked", "writing", "good", "bad", "killed"}) BY <1>5
    <2> QED BY <1>2, <1>3, <1>4, <1>6, <2>1 DEF World, WorldType, OddType
  <1>8. World.par = par /\ World.proc = proc /\ World.odd = odd BY DEF World
  <1>9. /\ par.phase = "script" /\ par.num = 0 /\ par.evt = 0
        /\ \A k \in KindSet : par.pid[k] = NoProc /\ par.timers[k] = 0
    BY DEF InitParent
  <1>10. Free.phase = "free" /\ Free.hup = FALSE BY DEF Free
  <1>11. Kinded(World) BY <1>4, <1>8, <1>10 DEF Kinded
  <1>12. Blank(World) BY <1>4, <1>8, <1>9, <1>10 DEF Blank
  <1>13. Orderly(World) BY <1>8, <1>9, <1>12 DEF Orderly, Started
  <1>14. Scripted(World) BY <1>8, <1>9 DEF Scripted
  <1>15. ASSUME NEW k \in KindSet PROVE Fit(World, k)
    <2>1. Taken(World, k) = {} BY <1>4, <1>8, <1>10 DEF Taken
    <2>2. Cardinality(Taken(World, k)) = 0 BY <2>1, FS_EmptySet
    <2>3. Waiting(World, k) = 1 BY <1>8, <1>9, <1>14 DEF Waiting
    <2> QED BY <1>6, <1>8, <2>2, <2>3 DEF Fit
  <1> QED BY <1>1, <1>2, <1>7, <1>11, <1>13, <1>15 DEF Sound, Fits

\* The handlers of the parent.
LEMMA ParentStep ==
  ASSUME Sound(World), file \in Confs,
         \/ Startup \/ Hup \/ Usr1 \/ ConfigRead \/ Event \/ Stop \/ EndWait \/ ShutdownDone
  PROVE  Sound(World')
  <1>1. WorldFacts BY WorldHas
  <1>2. /\ World \in WorldType /\ World.par = par /\ World.proc = proc /\ Kinded(World) /\ Fits(World)
        /\ World.copy = copy /\ copy \in Confs \cup {Torn}
    BY <1>1 DEF WorldFacts, Sound
  <1>3. CASE Startup
    <2>1. Sound(StartKeepalived(World)) BY <1>2, <1>3, RoomIs, StartKeepalivedKeeps DEF Startup
    <2> QED BY <1>3, <2>1, SoundBecomes DEF Startup
  <1>4. CASE Hup
    <2> DEFINE x == [World EXCEPT !.odd.asked = TRUE]
    <2>1. Sound(x) /\ x.par = par BY Zenon, <1>2, AskedIs
    <2>2. x.par.phase \in LoopPhase BY <1>4, <2>1 DEF Hup, Up, LoopPhase
    <2>3. Sound(ProcessReload(x)) BY Zenon, <2>1, <2>2, ProcessReloadKeeps
    <2>4. Becomes(ProcessReload(x)) BY <1>4 DEF Hup
    <2> QED BY <2>3, <2>4, SoundBecomes
  <1>5. CASE Usr1
    <2>1. World.par.phase \in {"script", "up"} /\ FreeThree(World) BY <1>2, <1>5, RoomIs DEF Usr1, Up
    <2>2. Sound(PropagateSignal(World, FALSE)) BY Zenon, <2>1, Usr1Keeps
    <2> QED BY Zenon, <1>5, <2>2, SoundBecomes DEF Usr1
  <1>6. CASE ConfigRead
    <2> DEFINE c == IF par.conf.check THEN copy ELSE file
               back == [World EXCEPT !.par.phase = par.back]
               v == DoReload([back EXCEPT !.copy = c], IF c = Torn THEN par.conf ELSE c)
    <2>1. World.par.phase = "reading" /\ FreeThree(World) BY <1>2, <1>6, RoomIs DEF ConfigRead
    <2>2. c \in Confs \cup {Torn} BY <1>2
    <2>3. Becomes(back) \/ Becomes(v) BY <1>6 DEF ConfigRead
    <2>4. Sound(back) /\ Sound(v)
      <3> HIDE DEF c
      <3> QED BY Zenon, <1>2, <2>1, <2>2, ConfigReadKeeps
    <2> QED BY <2>3, <2>4, SoundBecomes
  <1>7. CASE Event
    <2>1. World.par.phase \in LoopPhase BY <1>2, <1>7 DEF Event, Loop, LoopPhase
    <2>2. Sound(ChildReloaded(World)) BY <2>1, ChildReloadedKeeps
    <2> QED BY <1>7, <2>2, SoundBecomes DEF Event
  <1>8. CASE Stop
    <2>1. Sound(SigEnd(World)) BY <1>2, SigEndKeeps
    <2> QED BY <1>8, <2>1, SoundBecomes DEF Stop
  <1>9. CASE EndWait
    <2> DEFINE w == Killed(World)
    <2>1. w \in WorldType /\ Kinded(w) /\ Fits(w) /\ Sound([w EXCEPT !.par.phase = "stopping"])
      BY <1>9, KilledKeeps DEF EndWait
    <2>2. Becomes(IF par.conf.shutdown THEN [w EXCEPT !.par.phase = "stopping"] ELSE Exit(w))
      BY <1>9 DEF EndWait
    <2> HIDE DEF w
    <2>3. Sound(Exit(w)) BY <2>1, ExitKeeps
    <2> QED BY <2>1, <2>2, <2>3, SoundBecomes
  <1>10. CASE ShutdownDone
    <2>1. Sound(Exit(World)) BY <1>2, ExitKeeps
    <2> QED BY <1>10, <2>1, SoundBecomes DEF ShutdownDone
  <1> QED BY <1>3, <1>4, <1>5, <1>6, <1>7, <1>8, <1>9, <1>10

\* The parent reaps a child.
LEMMA ReapStep ==
  ASSUME Sound(World), NEW p \in Proc,
         (\E long \in BOOLEAN : Reap(p, long)) \/ ReapConfig(p) \/ EndReap(p)
  PROVE  Sound(World')
  <1> DEFINE x == Reaped(World, p)
  <1>1. WorldFacts BY WorldHas
  <1>2. /\ World \in WorldType /\ World.par = par /\ World.proc = proc /\ World.odd = odd
        /\ Kinded(World) /\ Fits(World)
    BY <1>1 DEF WorldFacts, Sound
  <1>3. World.proc[p].phase # "free" BY <1>2 DEF Reap, ReapConfig, EndReap
  <1>4. x \in WorldType /\ Kinded(x) /\ Fits(x) /\ SamePar(x, World)
    BY Zenon, <1>2, <1>3, ReapedIs
  <1>5. CASE \E long \in BOOLEAN : Reap(p, long)
    <2>1. PICK long \in BOOLEAN : Reap(p, long) BY <1>5
    <2>2. World.proc[p].phase = "crashed" BY Zenon, <1>2, <2>1 DEF Reap
    <2>3. Sound(SigEnd(x)) /\ Sound(Respawn(x, proc[p].kind, long)) BY <1>2, <2>2, ReapKeeps
    <2>4. Becomes(IF may.dump THEN SigEnd(x) ELSE Respawn(x, proc[p].kind, long)) BY Zenon, <2>1 DEF Reap
    <2> QED BY <2>3, <2>4, SoundBecomes
  <1>6. CASE ReapConfig(p)
    <2>1. Sound(Exit(x)) BY <1>4, ExitKeeps
    <2> QED BY <1>6, <2>1, SoundBecomes DEF ReapConfig
  <1>7. CASE EndReap(p)
    <2>1. x.par.phase = "ending" BY Zenon, <1>2, <1>4, <1>7 DEF EndReap, SamePar
    <2> HIDE DEF x
    <2>2. Sound(x) BY Zenon, <1>4, <2>1, OrderlyVoid DEF Sound
    <2> QED BY <1>7, <2>2, SoundBecomes DEF EndReap, x
  <1> QED BY <1>5, <1>6, <1>7

\* reload_check_child_thread(): a configuration that was found good is read.
LEMMA TestDoneKeeps ==
  ASSUME Sound(World), NEW i \in DOMAIN test, TestDone(i)
  PROVE  Sound(World')
  <1> DEFINE t == SubSeq(test, 1, i - 1) \o SubSeq(test, i + 1, Len(test))  w == [World EXCEPT !.test = t]
  <1>1. WorldFacts BY WorldHas
  <1>2. test \in Seq(TestSet) /\ World.par = par /\ World.test = test
    BY Zenon, <1>1 DEF WorldFacts, WorldType, World, TestSet
  <1>3. t \in Seq(TestSet) BY <1>2, RemoveType
  <1>4. [World EXCEPT !.test = SubSeq(@, 1, i - 1) \o SubSeq(@, i + 1, Len(@))] = w BY <1>2
  <1> HIDE DEF t
  <1>5. Sound(w) /\ w.par = par BY <1>2, <1>3, TestIs
  <1>6. w.par.phase \in LoopPhase BY <1>5 DEF TestDone, Loop, LoopPhase
  <1>7. Becomes(IF test[i] = "good" THEN BeginReload(w) ELSE w)
    BY <1>4 DEF TestDone
  <1> HIDE DEF w
  <1>8. Sound(BeginReload(w)) BY <1>5, <1>6, BeginReloadKeeps
  <1> QED BY <1>5, <1>7, <1>8, SoundBecomes

\* Every step of the parent, of a child, of a validation and of the user.
LEMMA SoundStep ==
  ASSUME Sound(World), file \in Confs, NextParent
  PROVE  Sound(World')
  <1>1. WorldFacts BY WorldHas
  <1>2. ASSUME NEW k \in KindSet, DelayedRestart(k) PROVE Sound(World')
    <2>1. FreeThree(World) /\ World.par.timers[k] > 0 BY <1>1, <1>2, RoomIs DEF DelayedRestart, WorldFacts
    <2>2. Sound(StartChild([World EXCEPT !.par.timers[k] = @ - 1], k)) BY <2>1, DelayedRestartKeeps
    <2> QED BY <1>2, <2>2, SoundBecomes DEF DelayedRestart
  <1>3. ASSUME NEW p \in Proc, ChildStarts(p) \/ ChildReloads(p) PROVE Sound(World')
    BY <1>3, ReadsCopyKeeps DEF ChildStarts, ChildReloads
  <1> QED BY Zenon, <1>2, <1>3, ParentStep, ReapStep, TestStepKeeps, TestDoneKeeps, ChildReadyKeeps,
             ChildHupKeeps, ChildEndsKeeps, ChildDiesKeeps, EditKeeps DEF NextParent

\* The counts of what may still happen, and the file.
LEMMA MayStep ==
  ASSUME may \in MayType, file \in Confs, NextParent
  PROVE  may' \in MayType /\ file' \in Confs
  <1>1. CASE UNCHANGED <<may, file>> BY <1>1
  <1>2. CASE Hup \/ Usr1
    <2>1. may' = [may EXCEPT !.reloads = may.reloads - 1] /\ file' = file BY Zenon, <1>2 DEF Hup, Usr1
    <2> QED BY <2>1 DEF MayType
  <1>3. CASE Stop BY <1>3 DEF Stop, MayType
  <1>4. CASE \E i \in DOMAIN test : TestTimeout(i) BY <1>4 DEF TestTimeout, MayType
  <1>5. CASE \E p \in Proc : ChildDies(p) BY <1>5 DEF ChildDies, MayType
  <1>6. CASE \E conf \in may.edits : Edit(conf) BY <1>6 DEF Edit, MayType
  <1>7. \/ UNCHANGED <<may, file>> \/ Hup \/ Usr1 \/ Stop \/ \E i \in DOMAIN test : TestTimeout(i)
        \/ (\E p \in Proc : ChildDies(p)) \/ \E conf \in may.edits : Edit(conf)
    BY Zenon DEF NextParent, Startup, ConfigRead, Event, EndWait, ShutdownDone, Reap, ReapConfig, EndReap,
           DelayedRestart, TestBegin, TestEnd, TestDone, ChildReady, ChildStarts, ChildHup, ChildReloads,
           ChildEnds, ReadsCopy, Child
  <1> QED BY <1>1, <1>2, <1>3, <1>4, <1>5, <1>6, <1>7

-----------------------------------------------------------------------------
(* The theorems.                                                           *)

\* Types, and: what the parent knows of its children, what it has asked of them and what
\* the history says fit together, in every state.
THEOREM ParentInvHolds == ParentSpec => []ParentInv
  <1>1. InitParent => ParentInv BY InitSound DEF ParentInv, Sound, MayType
  <1>2. ParentInv /\ [NextParent]_parentVars => ParentInv'
    <2> SUFFICES ASSUME ParentInv, [NextParent]_parentVars PROVE ParentInv' OBVIOUS
    <2>1. Sound(World) /\ may \in MayType /\ file \in Confs BY DEF ParentInv, Sound, MayType
    <2>2. Sound(World') /\ may' \in MayType /\ file' \in Confs
      <3>1. CASE NextParent BY <2>1, <3>1, SoundStep, MayStep
      <3>2. CASE UNCHANGED parentVars
        <4>1. World' = World /\ may' = may /\ file' = file BY <3>2 DEF parentVars, World
        <4> QED BY <2>1, <4>1
      <3> QED BY <3>1, <3>2
    <2> QED BY <2>2 DEF ParentInv, Sound, MayType
  <1> QED BY <1>1, <1>2, PTL DEF ParentSpec

\* num_reloading is the number of answers still to come (main.c, config_notify.c), for
\* every set of configurations and any number of reloads.
THEOREM AnswersCounted == ParentSpec => []CountExact
  <1>1. ParentInv => CountExact BY Zenon DEF ParentInv, Orderly, Counted, CountExact, World
  <1> QED BY <1>1, ParentInvHolds, PTL

\* No kind gets a second child except by a request that came too early
\* (propagate_signal(), vrrp_respawn_thread()).
THEOREM NoSecondChild == ParentSpec => []OneChildPerKind
  <1>1. ASSUME ParentInv PROVE OneChildPerKind
    <2> SUFFICES ASSUME NEW k \in KindSet PROVE Cardinality(Live(k)) <= 1 + odd.early[k]
      BY DEF OneChildPerKind
    <2>1. World \in WorldType /\ Fit(World, k) /\ World.odd = odd /\ World.proc = proc
      BY <1>1 DEF ParentInv, Fits, World
    <2>2. Live(k) \subseteq Taken(World, k) BY <2>1 DEF Live, Taken, Alive
    <2>3. Live(k) \in SUBSET Proc /\ Taken(World, k) \in SUBSET Proc BY DEF Live, Taken
    <2>4. Cardinality(Live(k)) <= Cardinality(Taken(World, k)) BY <2>2, <2>3, SizeLeq
    <2>5. Cardinality(Live(k)) \in Nat BY <2>3, SizeType
    <2>6. /\ Cardinality(Taken(World, k)) \in Nat /\ Waiting(World, k) \in Nat
          /\ World.odd.early[k] \in Nat
      BY <2>1, FitType
    <2> QED BY <2>1, <2>4, <2>5, <2>6 DEF Fit
  <1> QED BY <1>1, ParentInvHolds, PTL
=============================================================================
