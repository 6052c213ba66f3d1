--------------------------- MODULE PidFileProofs ---------------------------
(***************************************************************************)
(* The pid file lets one daemon run, whatever the number of daemons and of *)
(* files, and implements DaemonLock.                                       *)
(***************************************************************************)
EXTENDS PidFile, TLAPS

(* The provers a leaf is tried with, in this order, unless it names one. *)
USE SMT, Zenon, Z3T(60)

\* Nothing is open, locked or running at the start.
LEMMA InitInv == Init => LockInv
  BY DEF Init, LockInv, Type, PcOf, Opened, Locked, Has

\* Two daemons that have the file are one: each holds the lock of the same file.
LEMMA Alone ==
  ASSUME LockInv, NEW x \in Daemon, NEW y \in Daemon, Has(x), Has(y)
  PROVE  x = y
  BY DEF LockInv, Opened, Locked, Has

\* Closing a file disturbs nobody else: only the closing daemon's locks go.
LEMMA CloseInv ==
  ASSUME LockInv, NEW x \in Daemon, NEW l \in {"off", "again"}, Close(x, l)
  PROVE  LockInv'
  <1>1. Type' BY DEF LockInv, Type, PcOf, Close, Goto
  <1>2. \A y \in Daemon : y # x => pc'[y] = pc[y] /\ fd'[y] = fd[y]
    BY DEF LockInv, Type, Close, Goto
  <1>3. pc'[x] = l BY DEF LockInv, Type, Close, Goto
  <1>4. ASSUME NEW y \in Daemon, Locked(y)' PROVE \A i \in fd'[y] : lock'[i] = {y}
    <2>1. y # x BY <1>3, <1>4 DEF Locked
    <2>2. Locked(y) BY <1>2, <1>4, <2>1 DEF Locked
    <2>3. fd'[y] \in SUBSET Inode BY <1>1 DEF Type
    <2> QED BY <1>2, <2>1, <2>2, <2>3 DEF LockInv, Close
  <1> QED BY <1>1, <1>2, <1>3, <1>4 DEF LockInv, Opened, Has, Locked, Close

\* Every step keeps the invariant.
LEMMA StepInv == LockInv /\ [Next]_vars => LockInv'
  <1> SUFFICES ASSUME LockInv, [Next]_vars PROVE LockInv' OBVIOUS
  <1>1. CASE UNCHANGED vars
    BY <1>1 DEF vars, LockInv, Type, Opened, Locked, Has
  <1>2. ASSUME NEW x \in Daemon, Open(x) PROVE LockInv'
    <2>1. path' # {} /\ path' \in SUBSET Inode
      BY <1>2 DEF Open, LockInv, Type
    <2>2. \A y \in Daemon : Has(y) => path' = path
      BY <1>2 DEF Open, LockInv, Opened, Has
    <2> QED BY <1>2, <2>1, <2>2 DEF Open, Goto, LockInv, Type, PcOf, Opened, Locked, Has
  <1>3. ASSUME NEW x \in Daemon, Lock(x) PROVE LockInv'
    <2>1. CASE Close(x, "off") BY <2>1, CloseInv
    <2>2. CASE /\ \A i \in fd[x] : lock[i] = {}
               /\ lock' = [i \in Inode |-> IF i \in fd[x] THEN {x} ELSE lock[i]]
               /\ Goto(x, "check")
               /\ UNCHANGED <<path, made, text, fd>>
      <3>1. Type' BY <2>2 DEF LockInv, Type, PcOf, Goto
      <3>2. ASSUME NEW y \in Daemon, Locked(y)' PROVE \A i \in fd'[y] : lock'[i] = {y}
        <4>1. CASE y = x BY <2>2, <4>1 DEF LockInv, Type
        <4>2. CASE y # x
          <5>1. Locked(y) BY <2>2, <3>2, <4>2 DEF LockInv, Type, Goto, Locked
          <5> QED BY <2>2, <4>2, <5>1 DEF LockInv, Type
        <4> QED BY <4>1, <4>2
      <3> QED BY ZenonT(40), <1>3, <2>2, <3>1, <3>2 DEF Lock, LockInv, Type, Opened, Has, Goto, Locked
    <2> QED BY <1>3, <2>1, <2>2 DEF Lock
  <1>4. ASSUME NEW x \in Daemon, Check(x) PROVE LockInv'
    <2>1. CASE Close(x, "again") BY <2>1, CloseInv
    <2>2. CASE path = fd[x] /\ Goto(x, "write")
               /\ text' = [i \in Inode |-> IF i \in fd[x] THEN {} ELSE text[i]]
               /\ UNCHANGED <<path, made, lock, fd>>
      <3>1. Type' BY <2>2 DEF LockInv, Type, PcOf, Goto
      <3>2. \A y \in Daemon : pc[y] = "running" => y # x /\ \A i \in fd[y] : i \notin fd[x]
        BY <1>4 DEF Check, LockInv, Locked
      <3> QED BY <1>4, <2>2, <3>1, <3>2 DEF Check, LockInv, Type, Opened, Has, Locked, Goto
    <2> QED BY <1>4, <2>1, <2>2 DEF Check
  <1>5. ASSUME NEW x \in Daemon, Write(x) PROVE LockInv'
    <2>1. \A y \in Daemon : pc[y] = "running" => y = x
      BY <1>5, Alone DEF Write, Has
    <2> QED BY <1>5, <2>1 DEF Write, Goto, LockInv, Type, PcOf, Opened, Locked, Has
  <1>6. ASSUME NEW x \in Daemon, Unlink(x) PROVE LockInv'
    <2>1. \A y \in Daemon : Has(y) => y = x
      BY <1>6, Alone DEF Unlink, Has
    <2> QED BY <1>6, <2>1 DEF Unlink, Goto, LockInv, Type, PcOf, Opened, Locked, Has
  <1>7. ASSUME NEW x \in Daemon, CloseRemoved(x) \/ Crash(x) PROVE LockInv'
    BY <1>7, CloseInv DEF CloseRemoved, Crash
  <1> QED BY <1>1, <1>2, <1>3, <1>4, <1>5, <1>6, <1>7 DEF Next

\* The invariant holds in every reachable state.
THEOREM LockInvHolds == Spec => []LockInv
  BY InitInv, StepInv, PTL DEF Spec

\* At most one daemon runs, and the pid in the file is its own (core/pidfile.c).
THEOREM OneDaemonRuns == Spec => []OneDaemon
  <1>1. LockInv => OneDaemon
    BY Alone DEF LockInv, OneDaemon, Has
  <1> QED BY <1>1, LockInvHolds, PTL

\* The pid file implements the lock: it is acquired by create_pidfile()'s last
\* comparison, and released by the unlink or by a crash.
THEOREM PidFileImplementsLock == Spec => ImplementsLock
  <1> DEFINE own == {x \in Daemon : Has(x)}
  <1>1. Init => L!Init
    BY DEF Init, L!Init, Has
  <1>2. LockInv /\ [Next]_vars => [L!Next]_own
    <2> SUFFICES ASSUME LockInv, [Next]_vars PROVE L!Next \/ own' = own
      OBVIOUS
    <2>1. CASE UNCHANGED vars BY <2>1 DEF vars, Has
    <2>2. ASSUME NEW x \in Daemon, NEW l \in PcOf, Goto(x, l),
                 Has(x) <=> l \in {"write", "running"}
          PROVE  own' = own
      BY <2>2 DEF Goto, Has, LockInv, Type
    <2>3. ASSUME NEW x \in Daemon, Has(x), Goto(x, "off") \/ Goto(x, "closing")
          PROVE  L!Release(x)
      <3>1. own = {x} BY <2>3, Alone
      <3>2. own' = {} BY <2>3, <3>1 DEF Goto, Has, LockInv, Type
      <3> QED BY <3>1, <3>2 DEF L!Release
    <2>4. ASSUME NEW x \in Daemon, Open(x) PROVE own' = own
      BY <2>4, <2>2 DEF Open, Has, PcOf
    <2>5. ASSUME NEW x \in Daemon, Lock(x) PROVE own' = own
      BY <2>5, <2>2 DEF Lock, Close, Has, PcOf
    <2>6. ASSUME NEW x \in Daemon, Check(x) PROVE L!Next \/ own' = own
      <3>1. CASE Close(x, "again") BY <2>6, <2>2, <3>1 DEF Check, Close, Has, PcOf
      <3>2. CASE path = fd[x] /\ Goto(x, "write") /\ lock' = lock /\ fd' = fd /\ path' = path
        <4>1. own = {}
          BY <2>6, <3>2 DEF Check, LockInv, Opened, Locked, Has
        <4>2. own' = {x} BY <3>2, <4>1 DEF Goto, Has, LockInv, Type
        <4> QED BY <4>1, <4>2 DEF L!Next, L!Acquire
      <3> QED BY <2>6, <3>1, <3>2 DEF Check
    <2>7. ASSUME NEW x \in Daemon, Write(x) PROVE own' = own
      BY <2>7, <2>2 DEF Write, Has, PcOf
    <2>8. ASSUME NEW x \in Daemon, Unlink(x) PROVE L!Next
      BY <2>8, <2>3 DEF Unlink, Has, L!Next
    <2>9. ASSUME NEW x \in Daemon, CloseRemoved(x) \/ Crash(x) PROVE L!Next \/ own' = own
      <3>1. CASE Has(x) BY <2>9, <2>3, <3>1 DEF CloseRemoved, Crash, Close, Has, L!Next
      <3>2. CASE ~Has(x) BY <2>9, <2>2, <3>2 DEF CloseRemoved, Crash, Close, Has, PcOf
      <3> QED BY <3>1, <3>2
    <2> QED BY <2>1, <2>4, <2>5, <2>6, <2>7, <2>8, <2>9 DEF Next
  <1> QED BY <1>1, <1>2, LockInvHolds, PTL DEF Spec, ImplementsLock, L!Spec

=============================================================================
