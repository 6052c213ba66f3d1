------------------------------ MODULE PidFile ------------------------------
(***************************************************************************)
(* The pid file that keeps a second keepalived from starting               *)
(* (core/pidfile.c).  The lock is on the open file (F_OFD_SETLK), the file *)
(* may be unlinked while it is open, and its name may come to mean another *)
(* file between two system calls.  A file, a lock holder and a pid are     *)
(* sets of at most one element.                                            *)
(***************************************************************************)

CONSTANTS
  Daemon,     \* the daemons that start, stop and crash
  Inode       \* the files that may be created

VARIABLES
  path,       \* the file that the name stands for
  made,       \* the files created so far
  lock,       \* who holds the lock of a file
  text,       \* the pid in a file
  pc, fd      \* of each daemon: where it is, the file it has open

vars == <<path, made, lock, text, pc, fd>>

Init ==
  /\ path = {} /\ made = {}
  /\ lock = [i \in Inode |-> {}]
  /\ text = [i \in Inode |-> {}]
  /\ pc = [x \in Daemon |-> "off"]
  /\ fd = [x \in Daemon |-> {}]

Goto(x, l) == pc' = [pc EXCEPT ![x] = l]

\* Closing the file gives the lock up.
Close(x, l) ==
  /\ lock' = [i \in Inode |-> lock[i] \ {x}]
  /\ fd' = [fd EXCEPT ![x] = {}]
  /\ Goto(x, l)
  /\ UNCHANGED <<path, made, text>>

\* create_pidfile(): open with O_CREAT, ...
Open(x) ==
  /\ pc[x] \in {"off", "again"}
  /\ \/ path # {} /\ UNCHANGED <<path, made>>
     \/ /\ path = {} /\ Inode \ made # {}
        /\ path' = {CHOOSE i \in Inode : i \notin made}
        /\ made' = made \cup path'
  /\ fd' = [fd EXCEPT ![x] = path']
  /\ Goto(x, "lock")
  /\ UNCHANGED <<lock, text>>

\* ... lock, without waiting: a daemon that does not get the lock ends, ...
Lock(x) ==
  /\ pc[x] = "lock"
  /\ \/ /\ \A i \in fd[x] : lock[i] = {}
        /\ lock' = [i \in Inode |-> IF i \in fd[x] THEN {x} ELSE lock[i]]
        /\ Goto(x, "check")
        /\ UNCHANGED <<path, made, text, fd>>
     \/ /\ \E i \in fd[x] : lock[i] # {}
        /\ Close(x, "off")

\* Mutant: the file is not compared with the one that has the name now.
Check_no_compare(x) ==
  /\ pc[x] = "check"
  /\ \/ path = {} /\ Close(x, "again")
     \/ path # {} /\ Goto(x, "write")
        /\ text' = [i \in Inode |-> IF i \in fd[x] THEN {} ELSE text[i]]
        /\ UNCHANGED <<path, made, lock, fd>>

\* ... start over if the name no longer stands for this file, and truncate it.
Check(x) ==
  /\ pc[x] = "check"
  /\ \/ path # fd[x] /\ Close(x, "again")
     \/ path = fd[x] /\ Goto(x, "write")
        /\ text' = [i \in Inode |-> IF i \in fd[x] THEN {} ELSE text[i]]
        /\ UNCHANGED <<path, made, lock, fd>>

\* pidfile_write(), once keepalived_running() has found no other daemon.
Write(x) ==
  /\ pc[x] = "write"
  /\ text' = [i \in Inode |-> IF i \in fd[x] THEN {x} ELSE text[i]]
  /\ Goto(x, "running")
  /\ UNCHANGED <<path, made, lock, fd>>

\* pidfile_rm(): unlink, then pidfile_close().
Unlink(x) ==
  /\ pc[x] = "running"
  /\ path' = {}
  /\ Goto(x, "closing")
  /\ UNCHANGED <<made, lock, text, fd>>
CloseRemoved(x) == pc[x] = "closing" /\ Close(x, "off")

\* A daemon that crashes leaves the file behind, unlocked.
Crash(x) == pc[x] # "off" /\ Close(x, "off")

Next == \E x \in Daemon : Open(x) \/ Lock(x) \/ Check(x) \/ Write(x) \/ Unlink(x)
                          \/ CloseRemoved(x) \/ Crash(x)

Spec == Init /\ [][Next]_vars

Has(x) == pc[x] \in {"write", "running"}

\* A daemon that has passed the pid file check is alone, and the pid others read in
\* the file is its own: opening, locking and comparing are three system calls,
\* unlinking and closing two more, of daemons that know nothing of each other.
OneDaemon ==
  \A x \in Daemon : Has(x) =>
    /\ fd[x] = path
    /\ pc[x] = "running" => \A i \in path : text[i] = {x}
    /\ \A y \in Daemon : Has(y) => y = x

\* The pid file implements the lock it stands for.
L == INSTANCE DaemonLock WITH owner <- {x \in Daemon : Has(x)}
ImplementsLock == L!Spec

(***************************************************************************)
(* The inductive invariant.  A daemon past its lock owns the lock of the   *)
(* one file it has open; one past the check has the file with the name.    *)
(***************************************************************************)
PcOf == {"off", "again", "lock", "check", "write", "running", "closing"}
Type ==
  /\ path \in SUBSET Inode /\ made \in SUBSET Inode
  /\ lock \in [Inode -> SUBSET Daemon]
  /\ text \in [Inode -> SUBSET Daemon]
  /\ pc \in [Daemon -> PcOf]
  /\ fd \in [Daemon -> SUBSET Inode]
Opened(x) == pc[x] \notin {"off", "again"}
Locked(x) == pc[x] \in {"check", "write", "running", "closing"}
LockInv ==
  /\ Type
  /\ \A x \in Daemon : Opened(x) => fd[x] # {}
  /\ \A x \in Daemon : Locked(x) => \A i \in fd[x] : lock[i] = {x}
  /\ \A x \in Daemon : Has(x) => fd[x] = path
  /\ \A x \in Daemon : pc[x] = "running" => \A i \in fd[x] : text[i] = {x}

=============================================================================
