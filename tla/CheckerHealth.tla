---------------------------- MODULE CheckerHealth ----------------------------
(***************************************************************************)
(* CheckerPool with the servers that its checks look at: "health" says     *)
(* which checks would succeed now, and every check reports what it finds.  *)
(* Health changes a bounded number of times, so that it settles.           *)
(***************************************************************************)
EXTENDS CheckerPool

VARIABLES
  health,
  changes,       \* of health; with none allowed, results are inputs
  tick           \* the checker that ran last; changes with every run

hvars == <<vars, health, changes, tick>>

Observed == may.changes > 0

InitHealth ==
  /\ Init
  /\ health \in [Checker -> IF Observed THEN BOOLEAN ELSE {TRUE}]
  /\ changes = 0
  /\ tick = <<None, FALSE>>

HealthChanges(c) ==
  /\ changes < may.changes
  /\ health' = [health EXCEPT ![c] = ~@]
  /\ changes' = changes + 1
  /\ UNCHANGED <<vars, tick>>

\* The timer of a checker starts a check again and again.
CheckRuns(c) ==
  /\ TcpCheck(c, health[c]) \/ MiscCheck(c, IF health[c] THEN 0 ELSE 1)
  /\ tick' = <<c, ~tick[2]>>
  /\ UNCHANGED <<may, health, changes>>

ReloadRuns(conf, value) == Reload(conf, value) /\ UNCHANGED <<may, health, changes, tick>>

NextHealth ==
  \/ ~Observed /\ Next /\ UNCHANGED <<health, changes, tick>>
  \/ Observed /\ \E c \in Checker : HealthChanges(c)
  \/ Observed /\ \E c \in Checker : CheckRuns(c)
  \/ Observed /\ \E conf \in may.later, value \in may.values : ReloadRuns(conf, value)

\* register_checkers_thread() and the epilog of every check leave a timer for the
\* next one, so every check runs again and again: each of them is always enabled.
\* (Where results are inputs there is no tick: only the setups in which health is
\* observed have fair behaviours.)
LiveSpec ==
  /\ InitHealth
  /\ [][NextHealth]_hvars
  /\ \A c \in Checker : []<><<tick' = <<c, ~tick[2]>>>>_hvars

Healthy(r) == \A c \in Checks(w, r) : health[c]

HealthyWeight == MapThenSumSet(LAMBDA r : RealWeight(w.srv[r].eff), {r \in Pool(w) : Healthy(r)})

\* Once health has settled, exactly the healthy servers are alive: a failure is
\* retried a bounded number of times, and after a command that the kernel refused
\* the next result of the check tries again (update_svr_checker_state()).
ConvergesToHealth == <>[](Working => \A r \in Pool(w) : w.srv[r].alive = Healthy(r))

=============================================================================
