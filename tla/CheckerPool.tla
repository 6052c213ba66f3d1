----------------------------- MODULE CheckerPool -----------------------------
(***************************************************************************)
(* The checker process: its start, the results of its health checks, its   *)
(* reload, its stop and its death (keepalived/check/check_daemon.c,        *)
(* check_tcp.c, check_misc.c, check_bfd.c, check_file.c and the reload part*)
(* of ipwrapper.c), acting on one virtual server (IpvsPool).               *)
(*                                                                         *)
(* What a check finds is an input: every result is possible at every time. *)
(***************************************************************************)
EXTENDS IpvsPool, FiniteSets

CONSTANT Setups    \* what may happen, a set of records of
                   \*   first     the configurations the first start may read
                   \*   later     those a reload or another start may read
                   \*   exits     exit statuses of the scripts of MISC_CHECKs
                   \*   signals   may such a script be killed, as at its timeout?
                   \*   values    values the tracked file may have
                   \*   flush     lvs_flush: empty the kernel's tables at start
                   \*   onstop    lvs_flush_on_stop: "no", "vs" or "full"
                   \* and the bounds
                   \*   refused   handlers in which the kernel refuses a command,
                   \*   commands  commands of a handler that may be refused,
                   \*   reloads, deaths

VARIABLES
  may,           \* the setup, without the configurations of the first start
  w,             \* the world of IpvsPool
  phase,         \* "up": running, "stopped", "dead"
  refusals, reloads, deaths

vars == <<may, w, phase, refusals, reloads, deaths>>

-----------------------------------------------------------------------------
(* The configuration as read, and what the process makes of it.            *)

\* The part of validate_check_config() that changes a virtual server's numbers.
Validate(conf) ==
  LET sum == MapThenSumSet(LAMBDA r : conf.iweight[r], Range(conf.pool))
      quorum == Min({conf.quorum, sum})
  IN [conf EXCEPT
        !.quorum = quorum,
        !.hysteresis = IF @ >= quorum THEN (quorum - 1) % Word ELSE @,
        !.sinhibit = IF conf.sorry \in Range(conf.pool) THEN conf.inhibit[conf.sorry] ELSE @]

\* "slip" is not in the code: it is the weight that effective_weight still holds
\* although the checker it came from has forgotten it (see Forgets).
FreshServer(conf, x) ==
  [alive |-> FALSE, set |-> FALSE, nfail |-> 0, reloaded |-> FALSE, peff |-> 0, slip |-> 0,
   inhibit |-> IF x = Sorry THEN conf.sinhibit ELSE conf.inhibit[x],
   eff |-> IF x = Sorry THEN 1 ELSE conf.iweight[x]]

\* queue_checker(), and add_rs_to_track_files() for a FILE_CHECK.
FreshChecker(conf, c) ==
  [is_up |-> TRUE, has_run |-> conf.kind[c] = "file", retry_it |-> 0, cur |-> 0, exit |-> 0]

\* cur_weight is an int: a longer product is cut to its low bits.
IntOf(x) == ((x - WeightFault) % (2 * (WeightMax + 1))) + WeightFault

\* The parsed configuration, with the tracked file read (init_track_files(),
\* set_track_file_weights()), on top of an older world's kernel table.
Parsed(conf, value, old) ==
  [conf |-> conf,
   srv |-> [x \in Addr \cup {Sorry} |-> FreshServer(conf, x)],
   ck |-> [c \in Checker |->
             [FreshChecker(conf, c) EXCEPT
                !.cur = IF conf.kind[c] = "file" /\ c \in Range(AllChecks(conf))
                        THEN IntOf(FileProduct(conf, c, value)) ELSE 0]],
   up |-> FALSE, valive |-> FALSE, file |-> value, svc |-> old.svc, k |-> old.k,
   told |-> old.told, n |-> 0, refuse |-> old.refuse, ok |-> TRUE]

\* The end of validate_check_config() at a start: alpha mode checkers count as
\* failed until they have run, and one failure is enough for every checker.
AlphaDown(v) ==
  FoldLeft(LAMBDA x, c :
             IF x.conf.kind[c] = "file" THEN x
             ELSE [(IF x.conf.alpha[c] THEN SetCheckerState(x, c, FALSE) ELSE x)
                     EXCEPT !.ck[c].retry_it = x.conf.retry],
           v, AllChecks(v.conf))

\* set_effective_weights()
SetEffectiveWeights(v) ==
  [v EXCEPT !.srv = [x \in Addr \cup {Sorry} |->
     IF x \notin Pool(v) THEN @[x]
     ELSE [@[x] EXCEPT !.slip = 0,
                       !.eff = v.conf.iweight[x]
                               + MapThenSumSet(LAMBDA c : v.ck[c].cur, Checks(v, x))]]]

\* History: cur_weight is overwritten, and effective_weight keeps "weight" of it.
Forgets(v, r, weight) == [v EXCEPT !.srv[r].slip = @ + weight]

WeightRange(x) == Max({WeightFault, Min({x, WeightMax})})

\* The status a FILE_CHECK makes of a value of the file.
FileStatus(conf, c, value) ==
  IF conf.fweight[c] = 0 THEN IF (value = 0) = conf.freverse[c] THEN WeightFault ELSE 0
  ELSE WeightRange(FileProduct(conf, c, value))

\* The weight of a FILE_CHECK that fails is taken back.
WeightTaken(v, c, r) == [v EXCEPT !.srv[r].eff = @ - v.ck[c].cur, !.ck[c].cur = 0]

\* process_update_checker_track_file_status(): v.file is the last status.  What the
\* check contributed is taken to be nothing if it failed, and else the last status,
\* but set_track_file_weights() had set cur_weight to the product itself, even of a
\* check that fails from the start, and as an int.
ProcessFileStatus(v, c, status) ==
  LET r == RsOf(v, c)
      previous == FileStatus(v.conf, c, v.file)
      up == [Forgets(v, r, v.ck[c].cur) EXCEPT !.ck[c].cur = status, !.srv[r].eff = @ + status]
      moved == UpdateSvrWgt(Forgets(v, r, v.ck[c].cur - previous),
                            v.srv[r].eff + status - previous, r, TRUE)
  IN CASE status = previous -> v
       [] status # previous /\ status = WeightFault ->
            WeightTaken(UpdateSvrCheckerState(v, FALSE, c), c, r)
       [] status # previous /\ status # WeightFault /\ previous = WeightFault ->
            UpdateSvrCheckerState(up, TRUE, c)
       [] OTHER -> [moved EXCEPT !.ck[c].cur = status]

FileChecks(conf) == SelectSeq(AllChecks(conf), LAMBDA c : conf.kind[c] = "file")

\* set_track_file_checkers_down(): at a reload the file is passed off as
\* having been 0 before.
TrackFileCheckersDown(v, reload) ==
  LET Failing(c) == v.conf.fweight[c] = 0 \/ FileProduct(v.conf, c, v.file) <= WeightFault
      Fudged(x, c) ==
        [ProcessFileStatus([x EXCEPT !.file = 0], c,
                           IF v.conf.freverse[c] THEN 0 ELSE WeightFault)
           EXCEPT !.file = x.file]
      Step(x, c) == IF ~Failing(c) THEN x
                    ELSE IF reload THEN Fudged(x, c)
                    ELSE [x EXCEPT !.ck[c].is_up = FALSE]
  IN IF v.file = 0 THEN v ELSE FoldLeft(Step, v, FileChecks(v.conf))

Empty == [svc |-> FALSE, k |-> [a \in Addr |-> Absent], told |-> "none", refuse |-> 0]

\* start_check() at a start: with lvs_flush the old table is emptied first.
StartWorld(conf, value, old) ==
  LET base == IF may.flush THEN [Empty EXCEPT !.refuse = old.refuse] ELSE old
      new == Parsed(Validate(conf), value, base)
      v == TrackFileCheckersDown(SetQuorumStates(AlphaDown(new)), FALSE)
  IN IF conf.present THEN InitServiceVs(SetEffectiveWeights(v), FALSE) ELSE new

-----------------------------------------------------------------------------
(* A reload: o is the old world, v the new one being filled in.            *)

Carry(x, y) == [x EXCEPT !.svc = y.svc, !.k = y.k, !.n = y.n, !.told = y.told]

\* A checker of the old configuration hands its state to the same checker of
\* the new one.  The weight a dynamic MISC_CHECK had set is computed anew from
\* its last exit status (migrate_misc_check()).
MigrateChecker(o, v, r, c) ==
  LET old == o.ck[c]
      up == IF old.has_run THEN old.is_up ELSE v.ck[c].is_up
      status == old.exit
  IN [v EXCEPT !.ck[c] =
        [@ EXCEPT !.is_up = up,
                  !.has_run = old.has_run,
                  !.retry_it = IF up THEN Min({old.retry_it, v.conf.retry})
                                     ELSE v.conf.retry + 1,
                  !.exit = status,
                  !.cur = IF v.conf.kind[c] = "dynamic" /\ status # 1
                          THEN status - (IF status = 0 THEN 0 ELSE 2) - v.conf.iweight[r]
                          ELSE @]]

\* The checkers that both configurations have.  FILE_CHECKs are not compared.
Common(o, v, r) ==
  SelectSeq(v.conf.checks[r], LAMBDA c : c \in Checks(o, r) /\ v.conf.kind[c] # "file")

CountFailed(v, r) ==
  [v EXCEPT !.srv[r].nfail = Cardinality({c \in Checks(v, r) : v.ck[c].has_run /\ ~v.ck[c].is_up})]

\* Checkers that have not run yet start as they do in an alpha mode start, if the
\* server is down anyway.
HoldOne(v, c) ==
  IF v.ck[c].has_run THEN v
  ELSE [(IF v.conf.alpha[c] THEN SetCheckerState(v, c, FALSE) ELSE v)
          EXCEPT !.ck[c].retry_it = v.conf.retry]
HoldNotRun(v, r) ==
  IF \/ v.srv[r].nfail > 0
     \/ ~v.srv[r].alive /\ \A c \in Checks(v, r) : ~v.ck[c].has_run
  THEN FoldLeft(HoldOne, v, v.conf.checks[r]) ELSE v

\* The server goes where its failed checkers put it.
Rejoin(v, r) ==
  LET s == v.srv[r]
  IN IF s.nfail = 0 /\ ~s.alive THEN PerformSvrState(v, TRUE, r)
     ELSE IF s.nfail > 0 /\ s.set # s.inhibit
     THEN [IpvsCmd([v EXCEPT !.srv[r].alive = s.set],
                   IF s.inhibit THEN "ADDDEST" ELSE "DELDEST", r) EXCEPT !.srv[r].alive = FALSE]
     ELSE v

\* Mutant: the state of the checkers moves, the count of the failed ones does not.
MigrateCheckers_no_count(o, v, r) ==
  FoldLeft(LAMBDA x, c : MigrateChecker(o, x, r, c), v, Common(o, v, r))

\* migrate_checkers(): FILE_CHECKs are not compared.
MigrateCheckers(o, v, r) ==
  Rejoin(HoldNotRun(CountFailed(FoldLeft(LAMBDA x, c : MigrateChecker(o, x, r, c), v,
                                            Common(o, v, r)),
                                   r), r),
         r)

NewDone(o, v) == [old |-> Carry(o, v), new |-> v]
OldDone(o, v) == [old |-> o, new |-> Carry(v, o)]

\* clear_diff_rs(), one real server of the old pool.
ClearDiffOne(p, r) ==
  LET s == p.old.srv[r]
      kept == [p.new EXCEPT !.srv[r] =
                 [@ EXCEPT !.alive = s.alive, !.set = s.set, !.eff = s.eff,
                           !.peff = s.eff, !.reloaded = TRUE]]
  IN IF r \in Pool(p.new) THEN NewDone(p.old, MigrateCheckers(p.old, kept, r))
     ELSE OldDone(ClearServiceRs(p.old, r), p.new)

NotifyOld(p) == OldDone(UpdateVsNotifies(p.old, FALSE), p.new)
ClearDiffRs(o, v) ==
  IF o.conf.pool = <<>> THEN [old |-> o, new |-> v]
  ELSE NotifyOld(FoldLeft(ClearDiffOne, [old |-> o, new |-> v], o.conf.pool))

\* Mutant: the sorry server is taken for a new one.
ClearDiffSorry_forgets(o, v) == v

\* clear_diff_s_srv()
ClearDiffSorry(o, v) ==
  LET old == o.srv[Sorry]
      same == v.conf.sorry = o.conf.sorry
      kept == IF same THEN [v EXCEPT !.srv[Sorry] = [@ EXCEPT !.alive = old.alive,
                                                              !.set = old.set]]
              ELSE v
      idle == old.inhibit /\ ~old.alive
      del == IpvsCmd(IF idle THEN [o EXCEPT !.srv[Sorry].inhibit = FALSE] ELSE o,
                     "DELDEST", Sorry)
      x == Carry([kept EXCEPT !.srv[Sorry].set = IF HasSorry(v) THEN FALSE ELSE @], del)
  IN CASE ~HasSorry(o) -> v
       [] HasSorry(o) /\ same /\ (old.inhibit = kept.srv[Sorry].inhibit \/ old.alive) -> kept
       [] HasSorry(o) /\ ~(same /\ (old.inhibit = kept.srv[Sorry].inhibit \/ old.alive))
          /\ (old.alive \/ idle) ->
            IF old.alive /\ ~HasSorry(v) THEN PerformQuorumState(x, TRUE) ELSE x
       [] OTHER -> kept

\* check_new_rs_state()
CheckNewRsState(v) ==
  FoldLeft(LAMBDA x, c :
             IF x.srv[RsOf(x, c)].reloaded \/ ~x.conf.alpha[c] THEN x
             ELSE [SetCheckerState(x, c, FALSE) EXCEPT !.srv[RsOf(x, c)].alive = FALSE],
           v, AllChecks(v.conf))

\* start_check() at a reload, with clear_diff_services().
ReloadWorld(o, conf, value) ==
  LET new == Parsed(Validate(conf), value, o)
      v == [new EXCEPT !.valive = o.valive, !.up = o.up]
      d == ClearDiffRs(o, v)
      s == ClearDiffSorry(d.old, d.new)
      i == IF o.conf.present THEN s ELSE SetQuorumStates(new)
  IN IF ~conf.present
     THEN IF o.conf.present
          THEN Carry(new, ClearServiceVs(o, FALSE, may.onstop # "no"))
          ELSE new
     ELSE InitServiceVs(CheckNewRsState(SetEffectiveWeights(TrackFileCheckersDown(i, TRUE))),
                        TRUE)

-----------------------------------------------------------------------------
(* The results of checks.                                                  *)

\* Mutant: only the first success counts.
TcpEpilog_no_return(v, c, success) ==
  LET k == v.ck[c]
      changes == IF success THEN ~k.has_run ELSE k.is_up \/ ~k.has_run
      decided == success \/ (changes /\ k.retry_it >= v.conf.retry)
      d == [v EXCEPT !.ck[c].retry_it = 0]
      x == CASE decided /\ changes -> UpdateSvrCheckerState(d, success, c)
             [] decided /\ ~changes -> d
             [] ~decided /\ k.is_up -> [v EXCEPT !.ck[c].retry_it = @ + 1]
             [] OTHER -> v
  IN [x EXCEPT !.ck[c].has_run = TRUE]

\* tcp_epilog(), and its like in the UDP and PING checkers.
TcpEpilog(v, c, success) ==
  LET k == v.ck[c]
      changes == IF success THEN ~k.is_up \/ ~k.has_run ELSE k.is_up \/ ~k.has_run
      decided == success \/ (changes /\ k.retry_it >= v.conf.retry)
      d == [v EXCEPT !.ck[c].retry_it = 0]
      x == CASE decided /\ changes -> UpdateSvrCheckerState(d, success, c)
             [] decided /\ ~changes -> d
             [] ~decided /\ k.is_up -> [v EXCEPT !.ck[c].retry_it = @ + 1]
             [] OTHER -> v
  IN [x EXCEPT !.ck[c].has_run = TRUE]

\* misc_check_child_thread() when the script has failed: retries first.
MiscFailed(v, c, lost) ==
  LET k == v.ck[c]
      down == UpdateSvrCheckerState([lost EXCEPT !.ck[c].retry_it = 0], FALSE, c)
  IN IF k.retry_it < v.conf.retry THEN [v EXCEPT !.ck[c].retry_it = @ + 1]
     ELSE [down EXCEPT !.ck[c].cur = 0]

\* Mutant: the weight of the last result is not taken back.
MiscExit_adds(v, c, status) ==
  LET r == RsOf(v, c)
      k == v.ck[c]
      good == status = 0 \/ (v.conf.kind[c] = "dynamic" /\ status >= 2)
      cur == IF status = 0 THEN 0 ELSE status - 2 - v.conf.iweight[r]
      weighed == [UpdateSvrWgt([v EXCEPT !.ck[c].cur = cur], v.srv[r].eff + cur, r, TRUE)
                    EXCEPT !.ck[c].exit = status]
      g == [(IF status # k.exit THEN weighed ELSE v) EXCEPT !.ck[c].retry_it = 0]
      x == IF good THEN UpdateSvrCheckerState(g, TRUE, c) ELSE UpdateSvrCheckerState(v, FALSE, c)
  IN [x EXCEPT !.ck[c].has_run = TRUE]

\* ... when the script has exited.
MiscExit(v, c, status) ==
  LET r == RsOf(v, c)
      k == v.ck[c]
      good == status = 0 \/ (v.conf.kind[c] = "dynamic" /\ status >= 2)
      cur == IF status = 0 THEN 0 ELSE status - 2 - v.conf.iweight[r]
      weighed == [UpdateSvrWgt([v EXCEPT !.ck[c].cur = cur],
                               v.srv[r].eff - k.cur + cur, r, TRUE)
                    EXCEPT !.ck[c].exit = status]
      g == [(IF status # k.exit THEN weighed ELSE v) EXCEPT !.ck[c].retry_it = 0]
      lost == [v EXCEPT !.srv[r].eff = @ - k.cur, !.ck[c].cur = 0, !.ck[c].exit = status]
      x == CASE good -> IF ~k.is_up \/ ~k.has_run THEN UpdateSvrCheckerState(g, TRUE, c) ELSE g
             [] ~good /\ (k.is_up \/ ~k.has_run) -> MiscFailed(v, c, lost)
             [] OTHER -> [v EXCEPT !.ck[c].exit = status]
  IN [x EXCEPT !.ck[c].has_run = TRUE]

\* ... when the script was killed by a signal: cur_weight is set to 0 as above, but
\* what it was is not taken from effective_weight.
MiscSignalled(v, c) ==
  LET k == v.ck[c]
      lost == Forgets(v, RsOf(v, c), k.cur)
      x == IF k.is_up \/ ~k.has_run THEN MiscFailed(v, c, lost) ELSE v
  IN [x EXCEPT !.ck[c].has_run = TRUE]

\* bfd_check_handle_event(): every checker of the BFD session.
BfdEvent(v, up) ==
  FoldLeft(LAMBDA x, c : IF x.conf.kind[c] # "bfd" \/ (up = x.ck[c].is_up /\ x.ck[c].has_run)
                         THEN x ELSE UpdateSvrCheckerState(x, up, c),
           v, AllChecks(v.conf))

\* update_track_file_status(): every FILE_CHECK of the file.
FileChange(v, value) ==
  [FoldLeft(LAMBDA x, c : ProcessFileStatus(x, c, FileStatus(v.conf, c, value)), v, FileChecks(v.conf))
     EXCEPT !.file = value]

-----------------------------------------------------------------------------
(* The process.                                                            *)

\* What a handler leaves behind that no later one reads is reset.
Settle(v) ==
  [v EXCEPT !.n = 0, !.refuse = 0, !.ok = TRUE,
            !.srv = [x \in DOMAIN @ |-> [@[x] EXCEPT !.reloaded = FALSE, !.peff = 0]]]

\* When the process has gone only the kernel's table is left.
Gone(v) == [Parsed(v.conf, 0, v) EXCEPT !.told = "none", !.n = v.n]

\* A handler: the kernel may refuse one of its commands.
Handle(Op(_)) ==
  \E f \in 0 .. IF refusals < may.refused THEN may.commands ELSE 0 :
    LET v == Op([w EXCEPT !.refuse = f])
    IN /\ f <= v.n
       /\ w' = Settle(v)
       /\ refusals' = refusals + IF f > 0 THEN 1 ELSE 0

Init ==
  /\ \E s \in Setups :
       /\ may = [s EXCEPT !.first = {}]
       /\ \E conf \in s.first, value \in s.values : w = Settle(StartWorld(conf, value, Empty))
  /\ phase = "up"
  /\ refusals = 0 /\ reloads = 0 /\ deaths = 0

Running(c) == phase = "up" /\ w.conf.present /\ c \in Range(AllChecks(w.conf))

TcpCheck(c, success) ==
  /\ Running(c) /\ w.conf.kind[c] = "tcp"
  /\ Handle(LAMBDA v : TcpEpilog(v, c, success))
  /\ UNCHANGED <<phase, reloads, deaths>>

MiscCheck(c, status) ==
  /\ Running(c) /\ w.conf.kind[c] \in {"misc", "dynamic"}
  /\ Handle(LAMBDA v : MiscExit(v, c, status))
  /\ UNCHANGED <<phase, reloads, deaths>>

\* Bound: one script per server is killed while it contributes a weight, as each
\* such kill may move effective_weight further.
SlipBound(c) == w.ck[c].cur # 0 => w.srv[RsOf(w, c)].slip = 0

MiscKilled(c) ==
  /\ may.signals
  /\ Running(c) /\ w.conf.kind[c] \in {"misc", "dynamic"} /\ SlipBound(c)
  /\ Handle(LAMBDA v : MiscSignalled(v, c))
  /\ UNCHANGED <<phase, reloads, deaths>>

BfdCheck(up) ==
  /\ \E c \in Checker : Running(c) /\ w.conf.kind[c] = "bfd"
  /\ Handle(LAMBDA v : BfdEvent(v, up))
  /\ UNCHANGED <<phase, reloads, deaths>>

FileCheck(value) ==
  /\ \E c \in Checker : Running(c) /\ w.conf.kind[c] = "file"
  /\ value # w.file
  /\ Handle(LAMBDA v : FileChange(v, value))
  /\ UNCHANGED <<phase, reloads, deaths>>

\* The file may have changed since it was last read.
Reload(conf, value) ==
  /\ phase = "up" /\ reloads < may.reloads
  /\ Handle(LAMBDA v : ReloadWorld(v, conf, value))
  /\ reloads' = reloads + 1
  /\ UNCHANGED <<phase, deaths>>

\* clear_services()
ClearServices(v) ==
  CASE ~v.conf.present -> v
    [] v.conf.present /\ may.onstop = "full" ->
         UpdateVsNotifies(IpvsService(v, "DEL"), TRUE)
    [] OTHER -> ClearServiceVs(v, TRUE, may.onstop = "vs")

Stop ==
  /\ phase = "up"
  /\ Handle(LAMBDA v : Gone(ClearServices(v)))
  /\ phase' = "stopped"
  /\ UNCHANGED <<reloads, deaths>>

Die ==
  /\ phase = "up" /\ deaths < may.deaths
  /\ w' = Gone(w)
  /\ phase' = "dead"
  /\ deaths' = deaths + 1
  /\ UNCHANGED <<refusals, reloads>>

\* The parent starts a dead child again.
Start(conf, value) ==
  /\ phase = "dead"
  /\ Handle(LAMBDA v : StartWorld(conf, value, v))
  /\ phase' = "up"
  /\ UNCHANGED <<reloads, deaths>>

Next ==
  /\ \/ \E c \in Checker, success \in BOOLEAN : TcpCheck(c, success)
     \/ \E c \in Checker, status \in may.exits : MiscCheck(c, status)
     \/ \E c \in Checker : MiscKilled(c)
     \/ \E up \in BOOLEAN : BfdCheck(up)
     \/ \E value \in may.values : FileCheck(value)
     \/ \E conf \in may.later, value \in may.values : Reload(conf, value)
     \/ Stop
     \/ Die
     \/ \E conf \in may.later, value \in may.values : Start(conf, value)
  /\ UNCHANGED may

Spec == Init /\ [][Next]_vars

-----------------------------------------------------------------------------
(* Properties.                                                             *)

Working == phase = "up" /\ w.conf.present

\* The kernel's entry for an address that the state of the process calls for.
Wanted(a) ==
  LET server == IF a \notin Pool(w) THEN Absent
                ELSE IF w.srv[a].alive /\ PoolServes(w) THEN RealWeight(w.srv[a].eff)
                ELSE IF w.srv[a].inhibit THEN 0 ELSE Absent
      sorry == IF a # w.conf.sorry THEN Absent
               ELSE IF w.srv[Sorry].alive THEN 1
               ELSE IF w.srv[Sorry].inhibit THEN 0 ELSE Absent
  IN Max({server, sorry})

\* No reload changes the pool, or the sorry server.
PoolStays == \A conf \in may.later : conf.pool = w.conf.pool
SorryStays == \A conf \in may.later : conf.sorry = w.conf.sorry

\* Between any two handlers the kernel's table is the one that the state of the
\* real servers, of the quorum and of the sorry server calls for: the additions,
\* edits and removals that ipvs_cmd() has sent since the start add up, as long as
\* the kernel has accepted them all.  (A reload that replaces the sorry server and
\* lowers the quorum loses the pool: update_quorum_state() puts it back only if the
\* new sorry server was alive.)
TableAsWanted == Working /\ refusals = 0 /\ SorryStays => w.svc /\ \A a \in Addr : w.k[a] = Wanted(a)

\* num_failed_checkers is the number of checkers that are down, and a server is
\* alive exactly if there are none (update_svr_checker_state(), migrate_checkers()).
AliveIffChecksPass ==
  Working => \A r \in Pool(w) :
    /\ w.srv[r].nfail = Cardinality({c \in Checks(w, r) : ~w.ck[c].is_up})
    /\ w.srv[r].alive = (w.srv[r].nfail = 0)

\* The quorum is up only while the live weight allows it, and down only while it
\* does not, with the hysteresis in between (update_quorum_state()).
QuorumRight ==
  Working => IF w.up THEN WeighLive(w) > 0 /\ WeighLive(w) >= LossThreshold(w)
             ELSE WeighLive(w) < GainThreshold(w)

\* While the kernel sends traffic to the sorry server it sends none to the real
\* servers: "all real servers will be brought down when the quorum is not achieved
\* and be replaced with the sorry server" (keepalived.conf(5)).
SorryAlone ==
  Working /\ refusals = 0 /\ HasSorry(w) /\ w.k[w.conf.sorry] > 0 => \A r \in Pool(w) : w.k[r] <= 0

\* effective_weight is the configured weight plus what each of the checkers now
\* contributes (update_svr_wgt(), misc_check_child_thread(),
\* process_update_checker_track_file_status()), plus, to the unit, what two places
\* leave in it: a dynamic script that is killed while it contributes a weight
\* (check_misc.c:480-484), and the first change of a file whose weight does not fit
\* or fails the check at the start (check_file.c:222, track_file.c:743-771).  A
\* reload clears that (set_effective_weights()), and no server without such a check
\* is ever off.
WeightExact ==
  Working => \A r \in Pool(w) :
    /\ w.srv[r].eff = w.conf.iweight[r] + w.srv[r].slip
                      + MapThenSumSet(LAMBDA c : w.ck[c].cur, Checks(w, r))
    /\ w.srv[r].slip # 0 =>
         \E c \in Checks(w, r) : IF w.conf.kind[c] = "file" THEN w.conf.fweight[c] # 0
                                 ELSE w.conf.kind[c] = "dynamic" /\ may.signals

\* The last quorum notification told what is true (do_vs_notifies()), unless a
\* reload took servers out of the pool: update_vs_notifies() then speaks for the
\* old virtual server.
ToldTheTruth == Working /\ PoolStays /\ w.told # "none" => w.told = IF w.up THEN "up" ELSE "down"

=============================================================================
