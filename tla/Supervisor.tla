----------------------------- MODULE Supervisor -----------------------------
(***************************************************************************)
(* The parent process of keepalived and its children (core/main.c,         *)
(* core/config_notify.c, core/pidfile.c, the parts of vrrp_daemon.c,       *)
(* check_daemon.c and bfd_daemon.c that start, reload and stop a child, and*)
(* lib/signals.c).                                                         *)
(*                                                                         *)
(* The parent reads the configuration file into a copy in memory that the  *)
(* children read.  It starts one child of each kind, starts it again when  *)
(* it dies, passes a reload on and counts the children's answers.          *)
(*                                                                         *)
(* A handler of the parent runs to its end, except where it reads the      *)
(* configuration (the children may read the copy meanwhile) and where it   *)
(* waits for the children at a stop.                                       *)
(***************************************************************************)
EXTENDS Integers, FiniteSets, Sequences

CONSTANTS
  Proc,       \* process numbers of children: a set of integers above 0
  Word,       \* num_reloading is an unsigned modulo Word
  Torn,       \* what a reader finds in a copy that is being written
  Setups      \* what may happen: records of
              \*   first    the configuration at the start
              \*   edits    configurations the file may be given later
              \*   reloads, deaths, stops   how often a reload is requested, a child
              \*            dies by itself, a stop is requested
              \*   usr1     may SIGUSR1 be sent in place of a reload?
              \*   dump     the option --dont-respawn

KindSet == {"checker", "vrrp", "bfd"}

\* A configuration is a record: valid (children accept it), ns (the settings that
\* a reload may not change), check (reload_check_config), kinds (the children it
\* needs), startup and shutdown (scripts).

Confs == UNION {{s.first} \cup s.edits : s \in Setups}
ASSUME ParentAssumption ==
  /\ IsFiniteSet(Proc) /\ Proc \subseteq Nat \ {0}
  /\ Word \in Nat /\ Word > 3
  /\ Setups \subseteq [name : STRING, first : Confs, edits : SUBSET Confs, reloads : Nat,
                       deaths : Nat, stops : Nat, usr1 : BOOLEAN, dump : BOOLEAN]

VARIABLES
  may,        \* the setup, its counts going down
  par,        \* the parent
  proc,       \* the children
  test,       \* the processes that validate a configuration before a reload
  file,       \* the configuration file
  copy,       \* the copy of it in memory
  odd         \* history: early[k], children of kind k asked for while another start
              \* was due; double: two reloads were under way at a time; died: a child
              \* or a validation died; asked: a reload was requested after the last
              \* edit of the file

parentVars == <<may, par, proc, test, file, copy, odd>>

NoProc == 0
Free == [kind |-> "none", phase |-> "free", conf |-> Torn, hup |-> FALSE, term |-> FALSE]
Alive(s) == s.phase \notin {"free", "crashed", "config", "ended"}

\* Nobody reaps a child whose parent has gone.
Ended(s, how) == IF par.phase = "gone" THEN Free
                 ELSE [s EXCEPT !.phase = how, !.hup = FALSE, !.term = FALSE]

Live(k) == {p \in Proc : proc[p].kind = k /\ Alive(proc[p])}

-----------------------------------------------------------------------------
(* The handlers of the parent work on a record of what they change: the    *)
(* parent, the children, the validators and the copy.                      *)

World == [par |-> par, proc |-> proc, test |-> test, copy |-> copy, odd |-> odd]
Becomes(w) ==
  /\ par' = w.par /\ proc' = w.proc /\ test' = w.test /\ copy' = w.copy /\ odd' = w.odd

\* start_vrrp_child() and its like, in the parent.
StartChild(w, k) ==
  LET p == CHOOSE q \in Proc : w.proc[q].phase = "free"
  IN [w EXCEPT !.par.pid[k] = p, !.proc[p] = [Free EXCEPT !.kind = k, !.phase = "forked"]]

\* A start of this kind is due: the startup script has not ended, or the delay
\* before a restart has not.
Due(w, k) == w.par.phase = "script" \/ w.par.timers[k] > 0

StartEarly(w, k) == StartChild([w EXCEPT !.odd.early[k] = @ + IF Due(w, k) THEN 1 ELSE 0], k)

\* propagate_signal()
Signal(w, k) == IF w.proc[w.par.pid[k]].phase = "forked" THEN w
                ELSE [w EXCEPT !.proc[w.par.pid[k]].hup = TRUE]
PropagateOne(w, k, hup) ==
  CASE w.par.pid[k] # NoProc -> IF hup THEN Signal(w, k) ELSE w
    [] w.par.pid[k] = NoProc /\ k \in w.par.conf.kinds /\ (hup \/ k # "vrrp") -> StartEarly(w, k)
    [] OTHER -> w
PropagateSignal(w, hup) ==
  PropagateOne(PropagateOne(PropagateOne(w, "vrrp", hup), "checker", hup), "bfd", hup)

\* The end of do_reload()
Runs(w, k) == IF w.par.pid[k] # NoProc THEN 1 ELSE 0
CountReloading(w) ==
  [w EXCEPT !.par.num = (@ + Runs(w, "vrrp") + Runs(w, "checker") + Runs(w, "bfd")) % Word]

\* reload_config() and do_reload() once the configuration has been read; a change
\* that a reload cannot make is refused.
DoReload(w, conf) ==
  IF conf.ns # w.par.conf.ns THEN w
  ELSE CountReloading(PropagateSignal([w EXCEPT !.par.conf = conf], TRUE))

\* start_validate_reload_conf_child()
StartValidate(w) ==
  [w EXCEPT !.test = Append(@, "forked"), !.odd.double = @ \/ w.test # <<>>]

\* reload_config() starts to read the file and to write the copy; after a
\* validation the copy is there already and is what the parent reads.
BeginReload(w) ==
  [w EXCEPT !.par.back = w.par.phase, !.par.phase = "reading",
            !.copy = IF w.par.conf.check THEN @ ELSE Torn,
            !.odd.double = @ \/ w.par.num # 0]

\* start_reload()
StartReload(w) == IF w.par.conf.check THEN StartValidate(w) ELSE BeginReload(w)

\* process_reload_signal() and queue_reload()
ProcessReload(w) == IF w.par.num = 0 THEN StartReload(w) ELSE [w EXCEPT !.par.queued = TRUE]

\* Mutant: the reload that was asked for meanwhile is forgotten.
Completed_forgets(w) == IF w.par.num # 0 THEN w ELSE [w EXCEPT !.par.queued = FALSE]

\* child_reloaded_thread(): the eventfd adds up what the children wrote.
Completed(w) ==
  IF w.par.num # 0 THEN w
  ELSE IF w.par.queued THEN StartReload([w EXCEPT !.par.queued = FALSE]) ELSE w

\* Mutant: one answer is taken for each wake-up.
ChildReloaded_one(w) ==
  LET x == [w EXCEPT !.par.evt = 0]
  IN IF w.par.num >= w.par.evt THEN Completed([x EXCEPT !.par.num = @ - 1]) ELSE x
ChildReloaded(w) ==
  LET x == [w EXCEPT !.par.evt = 0]
  IN IF w.par.num >= w.par.evt THEN Completed([x EXCEPT !.par.num = @ - w.par.evt]) ELSE x

\* calc_restart_delay(): a child that ran for a minute is restarted at once.
RestartDelay(delay, long) == IF long THEN 0 ELSE delay
NextDelay(delay, long) ==
  CASE long -> 0
    [] ~long /\ delay = 0 -> 1
    [] ~long /\ delay > 30 -> 60
    [] OTHER -> 2 * delay

\* Mutant: a child is started and a restart scheduled as well.
Respawn_twice(w, k, long) ==
  LET x == [w EXCEPT !.par.delay[k] = NextDelay(@, long)]
  IN IF RestartDelay(w.par.delay[k], long) = 0 THEN StartChild(x, k)
     ELSE StartChild([x EXCEPT !.par.timers[k] = @ + 1], k)

\* vrrp_respawn_thread() and its like: whichever process of the kind has died.
Respawn(w, k, long) ==
  LET x == [w EXCEPT !.par.delay[k] = NextDelay(@, long)]
  IN IF RestartDelay(w.par.delay[k], long) = 0 THEN StartChild(x, k)
     ELSE [x EXCEPT !.par.timers[k] = @ + 1]

Reaped(w, p) == [w EXCEPT !.proc[p] = Free, !.par.pid[w.proc[p].kind] = NoProc]

\* sigend(): every child is told to stop; one that has not set its signals up
\* does not notice.
Terminate(s) == IF s.phase \in {"forked", "free"} \/ ~Alive(s) THEN s
                ELSE [s EXCEPT !.term = TRUE]
SigEnd(w) ==
  [w EXCEPT !.par.phase = "ending",
            !.proc = [p \in Proc |-> IF \E k \in KindSet : w.par.pid[k] = p
                                     THEN Terminate(w.proc[p]) ELSE w.proc[p]]]

\* The parent exits, and the kernel sends its children SIGTERM (PR_SET_PDEATHSIG).
Exit(w) ==
  [w EXCEPT !.par.phase = "gone", !.par.evt = 0,
            !.proc = [p \in Proc |-> IF Alive(w.proc[p]) THEN Terminate(w.proc[p]) ELSE Free]]

-----------------------------------------------------------------------------
(* The parent.                                                             *)

Up == par.phase \in {"script", "up"}
Loop == par.phase \in {"script", "up", "stopping"}

\* start_keepalived()
StartIf(w, k) ==
  IF k \in w.par.conf.kinds THEN StartChild([w EXCEPT !.par.num = (@ + 1) % Word], k) ELSE w
StartKeepalived(w) ==
  StartIf(StartIf(StartIf([w EXCEPT !.par.phase = "up"], "checker"), "vrrp"), "bfd")

InitParent ==
  /\ may \in Setups
  /\ file = may.first /\ copy = may.first
  /\ par = [phase |-> "script", back |-> "script", conf |-> may.first,
            pid |-> [k \in KindSet |-> NoProc], timers |-> [k \in KindSet |-> 0],
            delay |-> [k \in KindSet |-> 0], num |-> 0, queued |-> FALSE, evt |-> 0]
  /\ proc = [p \in Proc |-> Free]
  /\ test = <<>>
  /\ odd = [early |-> [k \in KindSet |-> 0], double |-> FALSE, died |-> FALSE, asked |-> FALSE]

\* There are process numbers for a child of each kind: a bound.
Room == \E p, q, r \in Proc : /\ p # q /\ q # r /\ p # r
                             /\ \A x \in {p, q, r} : proc[x].phase = "free"

\* The startup script has ended, or there is none.
Startup ==
  /\ par.phase = "script" /\ Room
  /\ Becomes(StartKeepalived(World)) /\ UNCHANGED <<may, file>>

\* SIGHUP, from the user or at the time that the reload time file gives.  Without
\* a startup script nothing comes before start_keepalived().
Hup ==
  /\ Up /\ may.reloads > 0
  /\ par.phase = "script" => may.first.startup
  /\ may' = [may EXCEPT !.reloads = @ - 1]
  /\ Becomes(ProcessReload([World EXCEPT !.odd.asked = TRUE]))
  /\ UNCHANGED file

Usr1 ==
  /\ Up /\ may.usr1 /\ may.reloads > 0 /\ Room
  /\ par.phase = "script" => may.first.startup
  /\ may' = [may EXCEPT !.reloads = @ - 1]
  /\ Becomes(PropagateSignal(World, FALSE))
  /\ UNCHANGED file

\* The end of reload_config().
ConfigRead ==
  /\ par.phase = "reading" /\ Room
  /\ LET back == [World EXCEPT !.par.phase = par.back]
         conf == IF par.conf.check THEN copy ELSE file
     IN \/ conf = Torn /\ Becomes(back)
        \/ Becomes(DoReload([back EXCEPT !.copy = conf], IF conf = Torn THEN par.conf ELSE conf))
  /\ UNCHANGED <<may, file>>

Event == Loop /\ par.evt > 0 /\ Becomes(ChildReloaded(World)) /\ UNCHANGED <<may, file>>

\* The parent reaps a child: one that ended by itself, or that rejected the
\* configuration.
Reap(p, long) ==
  /\ Loop /\ proc[p].phase = "crashed"
  /\ LET w == Reaped(World, p)
     IN Becomes(IF may.dump THEN SigEnd(w) ELSE Respawn(w, proc[p].kind, long))
  /\ UNCHANGED <<may, file>>

ReapConfig(p) ==
  /\ Loop /\ proc[p].phase = "config"
  /\ Becomes(Exit(Reaped(World, p)))
  /\ UNCHANGED <<may, file>>

\* delayed_restart_vrrp_child_thread() and its like.
DelayedRestart(k) ==
  /\ Loop /\ par.timers[k] > 0 /\ Room
  /\ Becomes(StartChild([World EXCEPT !.par.timers[k] = @ - 1], k))
  /\ UNCHANGED <<may, file>>

\* SIGTERM
Stop ==
  /\ Up /\ may.stops > 0
  /\ may' = [may EXCEPT !.stops = @ - 1]
  /\ Becomes(SigEnd(World))
  /\ UNCHANGED file

\* sigend() reaps the children it waits for ...
EndReap(p) ==
  /\ par.phase = "ending" /\ ~Alive(proc[p]) /\ proc[p].phase # "free"
  /\ \E k \in KindSet : par.pid[k] = p
  /\ Becomes(Reaped(World, p))
  /\ UNCHANGED <<may, file>>

\* ... and kills those that have not ended in child_wait_time; a shutdown script
\* runs while the parent's other handlers go on.
Killed(w) ==
  [w EXCEPT !.proc = [p \in Proc |-> IF Alive(w.proc[p]) /\ \E k \in KindSet : w.par.pid[k] = p
                                     THEN Ended(w.proc[p], "crashed") ELSE w.proc[p]]]
EndWait ==
  /\ par.phase = "ending"
  /\ LET w == Killed(World)
     IN Becomes(IF par.conf.shutdown THEN [w EXCEPT !.par.phase = "stopping"] ELSE Exit(w))
  /\ UNCHANGED <<may, file>>

ShutdownDone == par.phase = "stopping" /\ Becomes(Exit(World)) /\ UNCHANGED <<may, file>>

-----------------------------------------------------------------------------
(* The validation of a configuration: a process of its own, which writes   *)
(* the copy as it reads the file.                                          *)

TestBegin(i) ==
  /\ test[i] = "forked"
  /\ test' = [test EXCEPT ![i] = "writing"] /\ copy' = Torn
  /\ UNCHANGED <<may, par, proc, file, odd>>

TestEnd(i) ==
  /\ test[i] = "writing"
  /\ test' = [test EXCEPT ![i] = IF file.valid THEN "good" ELSE "bad"]
  /\ copy' = IF \E j \in DOMAIN test : j # i /\ test[j] = "writing" THEN Torn ELSE file
  /\ UNCHANGED <<may, par, proc, file, odd>>

\* It takes too long and is killed (handle_child_timeout()).
TestTimeout(i) ==
  /\ test[i] \in {"forked", "writing"} /\ may.deaths > 0
  /\ may' = [may EXCEPT !.deaths = @ - 1]
  /\ test' = [test EXCEPT ![i] = "killed"]
  /\ odd' = [odd EXCEPT !.died = TRUE]
  /\ UNCHANGED <<par, proc, file, copy>>

\* reload_check_child_thread()
TestDone(i) ==
  /\ Loop /\ test[i] \in {"good", "bad", "killed"}
  /\ LET w == [World EXCEPT !.test = SubSeq(@, 1, i - 1) \o SubSeq(@, i + 1, Len(@))]
     IN Becomes(IF test[i] = "good" THEN BeginReload(w) ELSE w)
  /\ UNCHANGED <<may, file>>

-----------------------------------------------------------------------------
(* A child.                                                                *)

Child(p, s) == proc' = [proc EXCEPT ![p] = s] /\ UNCHANGED <<may, test, file, copy, odd>>

\* start_vrrp_child(), in the child: the signals it inherited are dropped, its own
\* are set up.
ChildReady(p) ==
  /\ proc[p].phase = "forked"
  /\ Child(p, [proc[p] EXCEPT !.phase = "ready"]) /\ UNCHANGED par

\* start_vrrp(): the child reads the copy, and tells the parent.
Told(q) == [q EXCEPT !.evt = @ + IF q.phase = "gone" THEN 0 ELSE 1]
ReadsCopy(p) ==
  \/ /\ copy # Torn => copy.valid
     /\ Child(p, [proc[p] EXCEPT !.phase = "running", !.conf = copy])
     /\ par' = Told(par)
  \/ /\ copy # Torn => ~copy.valid
     /\ Child(p, Ended(proc[p], "config")) /\ UNCHANGED par
ChildStarts(p) == proc[p].phase = "ready" /\ ReadsCopy(p)

\* sigreload_vrrp(): requests that come before reload_vrrp_thread() runs are one.
ChildHup(p) ==
  /\ proc[p].phase = "running" /\ proc[p].hup /\ ~proc[p].term
  /\ Child(p, [proc[p] EXCEPT !.phase = "reloading", !.hup = FALSE]) /\ UNCHANGED par

\* reload_vrrp_thread()
ChildReloads(p) == proc[p].phase = "reloading" /\ ReadsCopy(p)

\* sigend_vrrp(), vrrp_terminate_phase1() and vrrp_terminate_phase2(); a child that
\* ends with EXIT_SUCCESS while the parent runs is started again.
ChildEnds(p) ==
  /\ proc[p].phase = "running" /\ proc[p].term
  /\ Child(p, Ended(proc[p], "crashed"))
  /\ UNCHANGED par

\* A fault.
ChildDies(p) ==
  /\ Alive(proc[p]) /\ may.deaths > 0 /\ par.phase # "gone"
  /\ may' = [may EXCEPT !.deaths = @ - 1]
  /\ proc' = [proc EXCEPT ![p] = Ended(@, "crashed")]
  /\ odd' = [odd EXCEPT !.died = TRUE]
  /\ UNCHANGED <<par, test, file, copy>>

\* The user writes a new configuration.
Edit(conf) ==
  /\ conf # file /\ par.phase # "gone"
  /\ file' = conf
  /\ may' = [may EXCEPT !.edits = @ \ {conf}]
  /\ odd' = [odd EXCEPT !.asked = FALSE]
  /\ UNCHANGED <<par, proc, test, copy>>

NextParent ==
  \/ Startup \/ Hup \/ Usr1 \/ ConfigRead \/ Event \/ Stop \/ EndWait \/ ShutdownDone
  \/ \E p \in Proc : \E long \in BOOLEAN : Reap(p, long)
  \/ \E p \in Proc : ReapConfig(p) \/ EndReap(p)
  \/ \E k \in KindSet : DelayedRestart(k)
  \/ \E i \in DOMAIN test : TestBegin(i) \/ TestEnd(i) \/ TestTimeout(i) \/ TestDone(i)
  \/ \E p \in Proc : ChildReady(p) \/ ChildStarts(p) \/ ChildHup(p) \/ ChildReloads(p) \/ ChildEnds(p)
  \/ \E p \in Proc : ChildDies(p)
  \/ \E conf \in may.edits : Edit(conf)

ParentSpec == InitParent /\ [][NextParent]_parentVars

\* Only the user, a fault or a stop can do anything.
Still ==
  /\ par.phase \in {"up", "gone"}
  /\ par.phase = "up" => par.evt = 0 /\ test = <<>> /\ \A k \in KindSet : par.timers[k] = 0
  /\ \A p \in Proc :
       \/ proc[p].phase = "free"
       \/ proc[p].phase = "running" /\ ~proc[p].hup /\ ~proc[p].term
  /\ \A i \in DOMAIN test : test[i] \notin {"forked", "writing"}

\* Every process goes on as long as it has something to do.
ParentFairSpec == ParentSpec /\ (<>[]Still \/ []<><<NextParent>>_parentVars)

-----------------------------------------------------------------------------
(* Properties.                                                             *)

\* No child has died, no child was asked for twice and no two reloads overlapped.
Smooth(w) == ~w.odd.double /\ ~w.odd.died /\ \A k \in KindSet : w.odd.early[k] = 0

\* The children have been started, and no stop was requested.
Started(w) == w.par.phase = "up" \/ (w.par.phase = "reading" /\ w.par.back = "up")

\* The children that owe an answer: those that read the copy or are about to, and those
\* that have not noticed a SIGHUP yet (one child may owe both).
Reading(w) == {p \in Proc : w.proc[p].phase \in {"forked", "ready", "reloading"}}
Asked(w) == {p \in Proc : w.proc[p].hup}

\* No child has rejected the configuration.
NoConfig(w) == \A p \in Proc : w.proc[p].phase # "config"

\* num_reloading is the number of answers still to come, from the children that
\* start or reload and from the eventfd: do_reload() counts the children it
\* signals, and each of them writes once (notify_config_read()), however requests
\* and answers are interleaved.  A child that rejects the configuration never
\* answers; the parent exits when it finds out.
CountExact ==
  Smooth(World) /\ Started(World) /\ NoConfig(World)
    => par.num = par.evt + Cardinality(Reading(World)) + Cardinality(Asked(World))

\* A kind has one child, and one more for each request that came while the start of
\* a child was due already (a reload or SIGUSR1 during the startup script or during
\* the delay before a restart: propagate_signal() looks at the pid only).
OneChildPerKind == \A k \in KindSet : Cardinality(Live(k)) <= 1 + odd.early[k]

\* A reload to this configuration is refused.
Refused(conf) == conf.ns # par.conf.ns \/ (par.conf.check /\ ~conf.valid)

\* In the end every child that the configuration needs runs again, whatever has
\* died; and unless something died or overlapped, no answer is waited for, no
\* reload stays queued, every child runs the configuration that the parent took,
\* and that is the one in the file if a SIGHUP came after the file was written.
Settles ==
  <>[](\/ par.phase = "gone"
       \/ /\ \A k \in par.conf.kinds : Live(k) # {}
          /\ Smooth(World) =>
               /\ par.num = 0 /\ ~par.queued
               /\ \A p \in Proc : Alive(proc[p]) => proc[p].conf = par.conf
               /\ odd.asked => par.conf = file \/ Refused(file))

\* A child that runs without a parent has been told to stop: "We want to ensure that
\* any children of child process don't miss the termination of their immediate
\* parent" (core/main.c), and start_vrrp_child() checks "our parent hasn't already
\* changed since the fork".
NoOrphan ==
  par.phase = "gone" => \A p \in Proc : proc[p].phase = "running" => proc[p].term

(***************************************************************************)
(* The inductive invariant, of a world.                                    *)
(***************************************************************************)
ParPhase == {"script", "up", "reading", "ending", "stopping", "gone"}
LoopPhase == {"script", "up", "stopping"}
ParType ==
  [phase : ParPhase, back : LoopPhase, conf : Confs, pid : [KindSet -> Proc \cup {NoProc}],
   timers : [KindSet -> Nat], delay : [KindSet -> Nat], num : 0..(Word - 1),
   queued : BOOLEAN, evt : Nat]
ChildType ==
  [kind : KindSet \cup {"none"}, conf : Confs \cup {Torn}, hup : BOOLEAN, term : BOOLEAN,
   phase : {"free", "forked", "ready", "running", "reloading", "crashed", "config"}]
WorldType ==
  [par : ParType, proc : [Proc -> ChildType], copy : Confs \cup {Torn},
   test : Seq({"forked", "writing", "good", "bad", "killed"}),
   odd : [early : [KindSet -> Nat], double : BOOLEAN, died : BOOLEAN, asked : BOOLEAN]]

\* The startup script has not ended.
Scripted(w) == w.par.phase = "script" \/ (w.par.phase = "reading" /\ w.par.back = "script")

\* Every child is of a kind.
Kinded(w) == \A p \in Proc : w.proc[p].phase # "free" => w.proc[p].kind \in KindSet

\* Every child of a kind, and every start that is due, was asked for: one of them in the
\* ordinary way, the others too early.
Taken(w, k) == {p \in Proc : w.proc[p].kind = k /\ w.proc[p].phase # "free"}
Waiting(w, k) == w.par.timers[k] + IF Scripted(w) THEN 1 ELSE 0
Fit(w, k) ==
  /\ Cardinality(Taken(w, k)) + Waiting(w, k) <= w.odd.early[k] + 1
  /\ w.par.pid[k] = NoProc /\ Waiting(w, k) = 0 => Cardinality(Taken(w, k)) <= w.odd.early[k]
Fits(w) == \A k \in KindSet : Fit(w, k)

\* Before the children are started there are none.
Blank(w) ==
  /\ \A p \in Proc : w.proc[p].phase = "free" /\ ~w.proc[p].hup
  /\ \A k \in KindSet : w.par.pid[k] = NoProc /\ w.par.timers[k] = 0
  /\ w.par.num = 0 /\ w.par.evt = 0

\* Afterwards the parent knows each child by its kind, and counts its answers.
Known(w) ==
  /\ \A p \in Proc : w.proc[p].phase # "free" =>
       /\ w.proc[p].kind \in KindSet /\ w.par.pid[w.proc[p].kind] = p /\ ~w.proc[p].term
       /\ w.proc[p].phase \in {"forked", "ready", "running", "reloading"}
  /\ \A p \in Proc : w.proc[p].phase = "free" => ~w.proc[p].hup
  /\ \A k \in KindSet : w.par.pid[k] # NoProc =>
       w.proc[w.par.pid[k]].phase # "free" /\ w.proc[w.par.pid[k]].kind = k
  /\ \A k \in KindSet : w.par.timers[k] = 0
Counted(w) ==
  /\ \A k \in KindSet : k \in w.par.conf.kinds => w.par.pid[k] # NoProc
  /\ w.par.num = w.par.evt + Cardinality(Reading(w)) + Cardinality(Asked(w))
  /\ w.par.phase = "reading" => w.par.num = 0

Orderly(w) ==
  /\ Smooth(w) /\ Scripted(w) => Blank(w)
  /\ Smooth(w) /\ Started(w) /\ NoConfig(w) => Known(w) /\ Counted(w)

ParentInv ==
  /\ may \in [name : STRING, first : Confs, edits : SUBSET Confs, reloads : Int,
              deaths : Int, stops : Int, usr1 : BOOLEAN, dump : BOOLEAN]
  /\ file \in Confs
  /\ World \in WorldType
  /\ Kinded(World)
  /\ Fits(World)
  /\ Orderly(World)

=============================================================================
