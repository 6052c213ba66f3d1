------------------------------ MODULE MCParent ------------------------------
(***************************************************************************)
(* The parent process for TLC: its children and reloads (Supervisor), its  *)
(* pid file (PidFile) and its reload timer (ReloadMonitor).  They share no *)
(* state, so a behaviour is about one of them.                             *)
(***************************************************************************)
EXTENDS Supervisor, PidFile, ReloadMonitor

VARIABLE part

all == <<part, parentVars, vars, monitorVars>>

Conf(n, valid, ns, check) ==
  [n |-> n, valid |-> valid, ns |-> ns, check |-> check, kinds |-> {"checker", "vrrp"},
   startup |-> FALSE, shutdown |-> FALSE]
Plain == Conf(1, TRUE, "a", FALSE)
Checked == Conf(1, TRUE, "a", TRUE)

Setup(name, first, edits, reloads, deaths, stops) ==
  [name |-> name, first |-> first, edits |-> edits, reloads |-> reloads, deaths |-> deaths,
   stops |-> stops, usr1 |-> FALSE, dump |-> FALSE]

\* The cases of the supervisor: reloads queued behind a reload; a validation before
\* each; children that die; startup and shutdown scripts; --dont-respawn.
SetupSet ==
  { Setup("reloads", [Plain EXCEPT !.kinds = {"vrrp"}],
          {Conf(2, TRUE, "a", FALSE), Conf(3, TRUE, "b", FALSE)}, 3, 0, 1),
    Setup("checks", Checked, {Conf(2, FALSE, "a", TRUE), Conf(3, TRUE, "a", TRUE)}, 2, 1, 0),
    [Setup("deaths", Plain, {Conf(2, TRUE, "a", FALSE)}, 1, 2, 0) EXCEPT !.usr1 = TRUE],
    [Setup("scripts", [Plain EXCEPT !.startup = TRUE, !.shutdown = TRUE], {}, 1, 0, 1)
       EXCEPT !.usr1 = TRUE],
    [Setup("dump", Plain, {}, 0, 1, 0) EXCEPT !.dump = TRUE] }

TextSet == {[kind |-> "date", at |-> 1], [kind |-> "date", at |-> 3],
            [kind |-> "daily", at |-> 1], [kind |-> "bad", at |-> 1]}

MCInit ==
  /\ part \in {"children", "pid file", "reload timer"}
  /\ InitParent /\ (part # "children" => may.name = "dump")
  /\ Init
  /\ InitMonitor /\ (part # "reload timer" => repeat = FALSE)

MCNext ==
  \/ part = "children" /\ NextParent /\ UNCHANGED <<part, vars, monitorVars>>
  \/ part = "pid file" /\ Next /\ UNCHANGED <<part, parentVars, monitorVars>>
  \/ part = "reload timer" /\ NextMonitor /\ UNCHANGED <<part, parentVars, vars>>

\* Every process goes on as long as it has something to do.
FairSpec ==
  MCInit /\ [][MCNext]_all /\ (<>[](part # "children" \/ Still) \/ []<><<MCNext>>_all)

\* All children run in the end, and run what the parent took (see Supervisor).
ChildrenSettle == part = "children" => Settles

=============================================================================
