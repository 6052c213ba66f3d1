----------------------------- MODULE DaemonLock -----------------------------
(***************************************************************************)
(* What the pid file is for: of the daemons that use one name, at most one *)
(* has it at a time, and it is had and given back, never taken away.       *)
(***************************************************************************)
CONSTANT Daemon
VARIABLE owner      \* the daemon that has the name, as a set of at most one

Init == owner = {}
Acquire(x) == owner = {} /\ owner' = {x}
Release(x) == owner = {x} /\ owner' = {}
Next == \E x \in Daemon : Acquire(x) \/ Release(x)
Spec == Init /\ [][Next]_owner
=============================================================================
