------------------------------ MODULE IpvsPool ------------------------------
(***************************************************************************)
(* One virtual server of the checker process, its pool of real servers and *)
(* the kernel's IPVS table (keepalived/check/ipwrapper.c, ipvswrapper.c).  *)
(*                                                                         *)
(* The handlers of this process run to their end, so each of them is an    *)
(* operator from a "world" to the world it leaves behind.  A world holds   *)
(*   conf   the virtual server's configuration, as validated: its pool, the*)
(*          checks of each server, their kind ("tcp", "misc", "dynamic",   *)
(*          "bfd", "file"), the weight and the reverse option of a         *)
(*          FILE_CHECK, quorum, hysteresis, sorry server and so on;        *)
(*   srv    the real_server_t of every real server and of the sorry server;*)
(*   ck     the checker_t of every checker;                                *)
(*   up     quorum_state_up;      valive  the virtual_server_t's alive;    *)
(*   file   last_status of the tracked file;                               *)
(*   svc, k the kernel's side: is there a service, and the weight of every *)
(*          destination in its table;                                      *)
(*   told   the state the last quorum notification spoke of;               *)
(*   n, refuse, ok   commands this handler has sent to the kernel, which   *)
(*          of them the kernel refuses (0: none) and whether the last one  *)
(*          succeeded.                                                     *)
(***************************************************************************)
EXTENDS Integers, Sequences, FiniteSetsExt, SequencesExt

CONSTANTS
  Addr,          \* addresses of real servers and sorry servers
  Sorry,         \* the name of the sorry server's real_server_t
  None,          \* no sorry server configured
  Checker,       \* checkers
  WeightMax,     \* IPVS_WEIGHT_MAX
  Word           \* unsigned int counts modulo Word

ASSUME NamesDiffer == Sorry \notin Addr /\ None \notin Addr
ASSUME LimitsPositive == WeightMax \in Nat \ {0} /\ Word \in Nat \ {0}

Absent == -1
WeightFault == -WeightMax - 1

Pool(w) == Range(w.conf.pool)
Checks(w, r) == Range(w.conf.checks[r])
AllChecks(conf) == FlattenSeq([i \in DOMAIN conf.pool |-> conf.checks[conf.pool[i]]])
RsOf(w, c) == CHOOSE r \in Pool(w) : c \in Checks(w, r)
HasSorry(w) == w.conf.sorry # None
AddrOf(w, x) == IF x = Sorry THEN w.conf.sorry ELSE x

RealWeight(weight) == IF weight < 0 THEN 0 ELSE Min({weight, WeightMax})

-----------------------------------------------------------------------------
(* The kernel and the commands sent to it.                                 *)

\* The service is deleted with every destination of its table.
KernelEffect(w, cmd, a, weight) ==
  CASE cmd = "ADD" -> [w EXCEPT !.svc = TRUE]
    [] cmd = "DEL" -> [w EXCEPT !.svc = FALSE, !.k = [x \in Addr |-> Absent]]
    [] cmd = "ADDDEST" /\ w.k[a] # Absent -> w
    [] cmd \in {"ADDDEST", "EDITDEST"} -> [w EXCEPT !.k[a] = weight]
    [] cmd = "DELDEST" -> [w EXCEPT !.k[a] = Absent]

Answered(w, cmd, a, weight, fails) ==
  [(IF fails THEN w ELSE KernelEffect(w, cmd, a, weight)) EXCEPT !.n = @ + 1, !.ok = ~fails]

\* EEXIST for an addition and ENOENT for a removal are no errors, and an edit
\* that meets ENOENT adds the destination.  What is left is a table without
\* the service, and a kernel that refuses the command.
IpvsTalk(w, cmd, a, weight) ==
  Answered(w, cmd, a, weight, w.n + 1 = w.refuse \/ (cmd \notin {"ADD", "DEL"} /\ ~w.svc))

IpvsService(w, cmd) == IpvsTalk(w, cmd, None, 0)

\* A server with inhibit_on_failure is not taken out of the table but gets
\* weight 0.
SentCmd(cmd, s) ==
  IF s.inhibit /\ (cmd = "DELDEST" \/ (cmd = "ADDDEST" /\ s.set)) THEN "EDITDEST" ELSE cmd
SentWeight(cmd, s) ==
  IF s.inhibit /\ (cmd = "DELDEST" \/ (cmd = "ADDDEST" /\ ~s.set /\ s.nfail > 0)) THEN 0
  ELSE RealWeight(s.eff)
SetAfter(cmd, s) ==
  CASE cmd = "DELDEST" -> s.set /\ s.inhibit [] cmd = "ADDDEST" -> TRUE [] OTHER -> s.set

\* rs->set changes before the kernel has been asked, and stays changed if the
\* kernel refuses.
IpvsCmd(w, cmd, x) ==
  IpvsTalk([w EXCEPT !.srv[x].set = SetAfter(cmd, w.srv[x])],
           SentCmd(cmd, w.srv[x]), AddrOf(w, x), SentWeight(cmd, w.srv[x]))

-----------------------------------------------------------------------------
(* The quorum.                                                             *)

WeighLive(w) ==
  MapThenSumSet(LAMBDA r : RealWeight(w.srv[r].eff), {r \in Pool(w) : w.srv[r].alive})

\* The thresholds are sums of unsigned ints.
GainThreshold(w) == (w.conf.quorum + w.conf.hysteresis) % Word
LossThreshold(w) == (w.conf.quorum - w.conf.hysteresis) % Word

DoVsNotifies(w) == [w EXCEPT !.told = IF w.up THEN "up" ELSE "down"]

\* Mutant: a server with inhibit_on_failure is left alone.
PerformQuorumState_inhibited(w, add) ==
  FoldLeft(LAMBDA v, r : IF v.srv[r].alive /\ (add \/ ~v.srv[r].inhibit)
                         THEN IpvsCmd(v, IF add THEN "ADDDEST" ELSE "DELDEST", r)
                         ELSE v,
           w, w.conf.pool)

\* Only servers that are alive are touched, and they stay alive.
PerformQuorumState(w, add) ==
  FoldLeft(LAMBDA v, r : IF v.srv[r].alive
                         THEN IpvsCmd(v, IF add THEN "ADDDEST" ELSE "DELDEST", r)
                         ELSE v,
           w, w.conf.pool)

SorryDown(w) == [IpvsCmd(w, "DELDEST", Sorry) EXCEPT !.srv[Sorry].alive = FALSE]
SorryUp(w) == [IpvsCmd(w, "ADDDEST", Sorry) EXCEPT !.srv[Sorry].alive = TRUE]

\* update_quorum_state(), the quorum has been gained.
GainQuorum(w) ==
  LET u == [w EXCEPT !.up = TRUE]
  IN DoVsNotifies(IF HasSorry(w) /\ w.srv[Sorry].alive
                  THEN PerformQuorumState(SorryDown(u), TRUE)
                  ELSE u)

\* Mutant: no notification.
LoseQuorum_silent(w) ==
  LET d == [w EXCEPT !.up = FALSE]
  IN IF HasSorry(w) /\ ~w.srv[Sorry].alive THEN SorryUp(PerformQuorumState(d, FALSE)) ELSE d

\* ... or lost, or is missing at the start.
LoseQuorum(w) ==
  LET d == [w EXCEPT !.up = FALSE]
  IN DoVsNotifies(IF HasSorry(w) /\ ~w.srv[Sorry].alive
                  THEN SorryUp(PerformQuorumState(d, FALSE))
                  ELSE d)

QuorumChange(w, init, sum) ==
  IF ~w.up /\ sum >= GainThreshold(w) THEN GainQuorum(w)
  ELSE IF \/ w.up /\ (sum = 0 \/ sum < LossThreshold(w))
          \/ ~w.up /\ init /\ HasSorry(w) /\ ~w.srv[Sorry].alive
       THEN LoseQuorum(w)
  ELSE w

UpdateQuorumState(w, init) == QuorumChange(w, init, WeighLive(w))

SetQuorumStates(w) == [w EXCEPT !.up = WeighLive(w) >= GainThreshold(w)]

\* update_vs_notifies(): a quorum lost by removals, without a sorry server.
UpdateVsNotifies(w, stopping) ==
  IF stopping \/ (w.up /\ (WeighLive(w) = 0 \/ WeighLive(w) < LossThreshold(w)))
  THEN DoVsNotifies([w EXCEPT !.up = FALSE])
  ELSE w

-----------------------------------------------------------------------------
(* A real server goes up or down, or changes its weight.                   *)

\* The pool is served, rather than the sorry server.
PoolServes(w) == w.up \/ ~HasSorry(w) \/ ~w.srv[Sorry].alive

SvrStateSent(w, alive, r) ==
  IF ~w.ok THEN w
  ELSE [UpdateQuorumState([w EXCEPT !.srv[r].alive = alive], FALSE) EXCEPT !.ok = TRUE]

\* A command that the kernel refuses changes nothing but rs->set.
PerformSvrState(w, alive, r) ==
  IF w.srv[r].alive = alive THEN [w EXCEPT !.ok = TRUE]
  ELSE SvrStateSent(IF PoolServes(w)
                    THEN IpvsCmd(w, IF alive THEN "ADDDEST" ELSE "DELDEST", r)
                    ELSE [w EXCEPT !.ok = TRUE],
                    alive, r)

QuorumIf(update_quorum, w) == IF update_quorum THEN UpdateQuorumState(w, FALSE) ELSE w

WeightSent(w, s, v, r) ==
  IF s.set /\ s.alive /\ PoolServes(w) THEN IpvsCmd(v, "EDITDEST", r) ELSE v

\* Mutant: the quorum is not looked at.
UpdateSvrWgt_no_quorum(w, weight, r, update_quorum) ==
  IF RealWeight(weight) = RealWeight(w.srv[r].eff) THEN [w EXCEPT !.srv[r].eff = weight]
  ELSE WeightSent(w, w.srv[r], [w EXCEPT !.srv[r].eff = weight], r)

\* The kernel and the quorum are told of a weight that differs as a real weight.
UpdateSvrWgt(w, weight, r, update_quorum) ==
  IF RealWeight(weight) = RealWeight(w.srv[r].eff) THEN [w EXCEPT !.srv[r].eff = weight]
  ELSE QuorumIf(update_quorum, WeightSent(w, w.srv[r], [w EXCEPT !.srv[r].eff = weight], r))

SetCheckerState(w, c, up) ==
  LET r == RsOf(w, c)
  IN IF w.ck[c].is_up = up THEN w
     ELSE [w EXCEPT !.ck[c].is_up = up,
                    !.srv[r].nfail = IF up THEN Max({@ - 1, 0}) ELSE @ + 1]

StateDecided(w, alive, c) == IF w.ok THEN SetCheckerState(w, c, alive) ELSE w

\* A refused command leaves the checker in its old state, so that its next
\* result tries again.
UpdateSvrCheckerState(w, alive, c) ==
  LET r == RsOf(w, c)
      run == [w EXCEPT !.ck[c].has_run = TRUE]
      last == w.srv[r].nfail <= IF alive THEN 1 ELSE 0
  IN IF w.ck[c].is_up = alive THEN run
     ELSE StateDecided(IF last THEN PerformSvrState(run, alive, r) ELSE [run EXCEPT !.ok = TRUE],
                       alive, c)

-----------------------------------------------------------------------------
(* Start, and removal.                                                     *)

FileProduct(conf, c, value) ==
  value * conf.fweight[c] * (IF conf.freverse[c] THEN -1 ELSE 1)

\* The file checkers of a server that fail already count as failed.
FilesFailing(w, r) ==
  Cardinality({c \in Checks(w, r) :
                 /\ w.conf.kind[c] = "file"
                 /\ IF w.conf.fweight[c] = 0 THEN w.file # 0
                    ELSE FileProduct(w.conf, c, w.file) <= WeightFault})

ActivateRs(w, s, r) ==
  IF (s.nfail = 0 /\ ~s.alive) \/ (s.inhibit /\ ~s.set)
  THEN [IpvsCmd(w, "ADDDEST", r) EXCEPT !.srv[r].alive = IF s.nfail = 0 THEN TRUE ELSE @]
  ELSE w

\* init_service_rs(); "reload" tells a start from a reload.
InitServiceRs(w, r, reload) ==
  LET s == w.srv[r]
      failing == IF reload THEN 0 ELSE FilesFailing(w, r)
  IN IF ~s.reloaded
     THEN ActivateRs([w EXCEPT !.srv[r].nfail = @ + failing],
                     [s EXCEPT !.nfail = @ + failing], r)
     ELSE IF s.eff = s.peff THEN w
     ELSE UpdateSvrWgt([w EXCEPT !.srv[r].eff = s.peff], s.eff, r, FALSE)

\* A sorry server with inhibit_on_failure is added with weight 0.
AddInhibitedSorry(w) ==
  IF ~(HasSorry(w) /\ w.srv[Sorry].inhibit /\ ~w.srv[Sorry].set) THEN w
  ELSE IF w.conf.sorry \in Pool(w) THEN [w EXCEPT !.srv[Sorry].set = TRUE]
  ELSE [IpvsCmd([w EXCEPT !.srv[Sorry].nfail = 1], "ADDDEST", Sorry)
          EXCEPT !.srv[Sorry].nfail = 0]

InitServiceVs(w, reload) ==
  LET v == IF w.valive THEN w ELSE [IpvsService(w, "ADD") EXCEPT !.valive = TRUE]
      p == FoldLeft(LAMBDA x, r : InitServiceRs(x, r, reload), v, v.conf.pool)
  IN AddInhibitedSorry(UpdateQuorumState(p, TRUE))

\* clear_service_rs(): inhibit_on_failure does not protect from removal.
ClearServiceRs(w, r) ==
  LET s == w.srv[r]
      del == IpvsCmd([w EXCEPT !.srv[r].inhibit = FALSE], "DELDEST", r)
  IN IF ~s.set THEN w
     ELSE [del EXCEPT !.srv[r].inhibit = s.inhibit, !.srv[r].alive = FALSE]

\* clear_service_vs() without lvs_flush_on_stop, and with "VS".
ClearServiceVs(w, stopping, flush) ==
  LET ss == w.srv[Sorry]
      gone == IF w.conf.sorry \in Pool(w) THEN [w EXCEPT !.srv[Sorry].set = FALSE]
              ELSE [IpvsCmd([w EXCEPT !.srv[Sorry].inhibit = FALSE], "DELDEST", Sorry)
                      EXCEPT !.srv[Sorry].inhibit = ss.inhibit]
      a == IF HasSorry(w) /\ ss.set
           THEN [(IF flush THEN w ELSE gone) EXCEPT !.srv[Sorry].alive = FALSE]
           ELSE w
      b == IF flush THEN a ELSE FoldLeft(ClearServiceRs, a, w.conf.pool)
      c == UpdateVsNotifies(b, stopping)
  IN [IpvsService(c, "DEL") EXCEPT !.valive = FALSE]

=============================================================================
