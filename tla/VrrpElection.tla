---------------------------- MODULE VrrpElection -----------------------------
(* The election of the master of one virtual router by several keepalived     *)
(* processes: adverts, master down timers, priorities, preemption, two        *)
(* address owners, and routers that stop, crash or lose their link.           *)
(*                                                                            *)
(* The version is VRRPv3: a backup takes over the advert interval of its      *)
(* master.  Time is counted in ticks; a timer is the number of ticks until it *)
(* expires.  Handlers take no time and run when they are due; an advert takes *)
(* at most MaxDelay ticks, adverts between two routers stay in order.         *)
EXTENDS Integers, Sequences, FiniteSets

CONSTANTS
    Range,              \* what 256 is to VRRP_TIMER_SKEW
    down_timer_adverts,
    MaxDelay,           \* bound of the network
    Setups              \* the configurations of the routers

Owner == Range - 1      \* VRRP_PRIO_OWNER
None == -999            \* a timer that is not running; an expired one is 0 or less
NoRouter == 0

(* A configuration of the routers, and the bounds of a behaviour: lost        *)
(* adverts, faults, crashes and shutdowns, recoveries and starts, and changes *)
(* of priority.                                                               *)
Setup(s) ==
    /\ s.routers \subseteq Nat \ {NoRouter} /\ IsFiniteSet(s.routers)
    /\ s.priority \in [s.routers -> 1 .. Owner]
    /\ s.advert_int \in [s.routers -> Nat \ {0}]
    /\ \E r \in s.routers : \A q \in s.routers : s.advert_int[q] <= s.advert_int[r]
    /\ s.preempt_delay \in [s.routers -> Nat]
    /\ s.nopreempt \subseteq {r \in s.routers : s.priority[r] # Owner /\ s.preempt_delay[r] = 0}
    /\ s.rogues \subseteq {r \in s.routers : s.priority[r] = Owner}
    /\ s.mismatched \subseteq SUBSET s.routers
    /\ s.log_detail \in BOOLEAN
    /\ s.tracked \subseteq 1 .. Owner - 1
    /\ {s.lost, s.stops, s.starts, s.prios} \subseteq Nat

ASSUME ElectionAssumption ==
    /\ Range \in Nat /\ Range > 2
    /\ down_timer_adverts \in Nat \ {0}
    /\ MaxDelay \in Nat
    /\ \A s \in Setups : Setup(s)

VARIABLES
    conf,       \* the configuration
    rt,         \* the instance of each router, a vrrp_t
    chan,       \* the adverts on their way from one router to another
    left,       \* what may still happen, of the bounds above
    dual,       \* for how many ticks there have been two masters,
    gap,        \* and for each backup, for how many ticks there was no master;
    last        \* what each backup heard last, and how long ago

vars == <<conf, rt, chan, left, dual, gap, last>>

Routers == conf.routers             \* numbers, in the order of their primary addresses
BasePrio == conf.priority
AdverInt == conf.advert_int         \* in ticks
NoPreempt == conf.nopreempt         \* the routers with nopreempt
preempt_delay == conf.preempt_delay \* 0 for no delay
LowerPrioNoAdvert == conf.lower_prio_no_advert
HigherPrioSendAdvert == conf.higher_prio_send_advert
Rogues == conf.rogues               \* address owners of another make, that never give up
Mismatched == conf.mismatched       \* pairs of routers that reject each other's adverts
LogDetail == conf.log_detail        \* keepalived -D
TrackedPrios == conf.tracked        \* the priorities tracking can lead to

Pairs == {p \in Routers \X Routers : p[1] # p[2]}
------------------------------------------------------------------------------
(* One instance.                                                              *)

(* VRRP_TIMER_SKEW *)
TimerSkew(r, x) ==
    LET prio == IF BasePrio[r] = Owner THEN Owner ELSE x.effective_priority
    IN  ((Range - prio) * x.master_adver_int) \div Range

(* VRRP_MS_DOWN_TIMER *)
MsDownTimer(r, x) == down_timer_adverts * x.master_adver_int + TimerSkew(r, x)

(* vrrp_init_instance_sands() *)
InitSands(r, x) ==
    [x EXCEPT !.sands = CASE x.state = "MAST" -> AdverInt[r]
                          [] x.state = "BACK" -> x.ms_down_timer
                          [] OTHER -> None]

(* vrrp_state_leave_master(), without what it sends *)
LeaveMaster(r, x, want) ==
    InitSands(r, [x EXCEPT !.state = want,
                           !.preempt_time = IF want = "BACK" THEN None ELSE @,
                           !.ms_down_timer = MsDownTimer(r, x),
                           !.rogue_timer = None,
                           !.rogue_counter = IF x.rogue_timer # None THEN @ ELSE 0])

(* vrrp_state_leave_fault() to BACKUP or, also from BACKUP, to FAULT state *)
LeaveFault(r, x, want) ==
    LET y == [x EXCEPT !.state = want,
                       !.preempt_time = IF want = "BACK" THEN None ELSE @,
                       !.master_adver_int = AdverInt[r]]
    IN  InitSands(r, [y EXCEPT !.ms_down_timer = MsDownTimer(r, y)])

(* vrrp_state_become_master(): an owner that had given way is one again. *)
BecomeMaster(r, x) ==
    [x EXCEPT !.state = "MAST",
              !.effective_priority = IF BasePrio[r] = Owner THEN Owner ELSE @,
              !.master_adver_int = IF LogDetail THEN AdverInt[r] ELSE @]

(* vrrp_init_state(): an address owner times out at once. *)
StartState(r) ==
    LET x == [state |-> "BACK", sands |-> None, ms_down_timer |-> 1,
              effective_priority |-> BasePrio[r],
              master_adver_int |-> AdverInt[r], master_saddr |-> NoRouter,
              preempt_time |-> None, rogue_counter |-> 0, rogue_timer |-> None,
              rogue_adver_int |-> 0]
    IN  InitSands(r, IF BasePrio[r] = Owner THEN x
                     ELSE [x EXCEPT !.ms_down_timer = MsDownTimer(r, x)])

OffState(r) == [StartState(r) EXCEPT !.state = "OFF", !.sands = None]
------------------------------------------------------------------------------
(* An advert m from router q is read.                                         *)

(* Whether vrrp_check_packet() accepts adverts between q and r *)
CheckPacket(q, r) == {q, r} \notin Mismatched

(* MUTANT of Accepts: nopreempt is not looked at. *)
Accepts_preempting(r, x, prio) ==
    \/ prio >= x.effective_priority
    \/ preempt_delay[r] > 0 /\ (x.preempt_time = None \/ x.preempt_time > 0)

(* MUTANT of Accepts: the preempt delay is not looked at. *)
Accepts_no_delay(r, x, prio) ==
    r \in NoPreempt \/ prio >= x.effective_priority

(* Whether a backup takes the sender for its master *)
Accepts(r, x, prio) ==
    \/ r \in NoPreempt
    \/ prio >= x.effective_priority
    \/ preempt_delay[r] > 0 /\ (x.preempt_time = None \/ x.preempt_time > 0)

(* preempt_time after an advert of priority prio was accepted *)
PreemptTime(r, x, prio) ==
    IF preempt_delay[r] = 0 THEN x.preempt_time
    ELSE IF prio >= x.effective_priority THEN None
    ELSE IF x.preempt_time = None THEN preempt_delay[r]
    ELSE x.preempt_time

(* An advert that is accepted: interval, timer and preempt delay *)
Accepted(r, x, q, m) ==
    LET y == [x EXCEPT !.master_adver_int = m.int]
    IN  [y EXCEPT !.ms_down_timer = MsDownTimer(r, y), !.master_saddr = q,
                  !.preempt_time = PreemptTime(r, x, m.prio)]

(* MUTANT of Stopping: priority 0 counts as any advert. *)
Stopping_full(r, x) == [x EXCEPT !.ms_down_timer = MsDownTimer(r, x)]

(* An advert with priority 0 *)
Stopping(r, x) == [x EXCEPT !.ms_down_timer = TimerSkew(r, x)]

TimeLeft(x) == IF x.sands < 0 THEN 0 ELSE x.sands

(* An owner that had given way is one again when the other owner has gone. *)
Restored(r, x, q, m) ==
    IF /\ BasePrio[r] = Owner /\ x.effective_priority = Owner - 1
       /\ x.master_saddr # q \/ m.prio # Owner
    THEN [x EXCEPT !.effective_priority = Owner] ELSE x

(* vrrp_state_backup(), and the new timer; what is not accepted leaves the    *)
(* time that is left.                                                         *)
StateBackup(r, x, q, m) ==
    LET y == Restored(r, x, q, m)
    IN  InitSands(r,
          IF ~CheckPacket(q, r) THEN [x EXCEPT !.ms_down_timer = TimeLeft(x)]
          ELSE IF m.prio = 0 THEN Stopping(r, y)
          ELSE IF Accepts(r, y, m.prio) THEN Accepted(r, y, q, m)
          ELSE [y EXCEPT !.ms_down_timer = TimeLeft(x), !.master_saddr = q])

(* MUTANT of Higher: the address does not decide. *)
Higher_priority_only(r, x, q, m) == m.prio > x.effective_priority

(* MUTANT of Higher: only the address decides, among equals. *)
Higher_equals(r, x, q, m) == m.prio = x.effective_priority /\ q > r

(* Whether an advert comes before this master's own *)
Higher(r, x, q, m) ==
    m.prio > x.effective_priority \/ (m.prio = x.effective_priority /\ q > r)

(* Two address owners: the one with the higher address waits for the other to *)
(* give way and gives way itself if it does not.                              *)
OwnerConflict(r, x, q, m) ==
    IF m.prio # Owner \/ x.effective_priority # Owner \/ q > r THEN x
    ELSE IF x.rogue_timer # None
    THEN [x EXCEPT !.rogue_timer = None, !.effective_priority = Owner - 1]
    ELSE [x EXCEPT !.rogue_counter = IF @ = 0 THEN 2 ELSE @, !.rogue_adver_int = m.int]

(* Whether reading an advert restarts the timer of a router that stays master *)
TimerRestarts(r) == r \notin LowerPrioNoAdvert

(* vrrp_state_master_rx(), and the leaving of MASTER state it leads to *)
StateMasterRx(r, x, q, m) ==
    LET y == IF CheckPacket(q, r) /\ m.prio # 0 THEN OwnerConflict(r, x, q, m) ELSE x
    IN  IF CheckPacket(q, r) /\ Higher(r, y, q, m)
        THEN LeaveMaster(r, [y EXCEPT !.master_adver_int = m.int, !.master_saddr = q], "BACK")
        ELSE IF TimerRestarts(r) THEN InitSands(r, y) ELSE y

(* The adverts vrrp_state_master_rx() sends *)
MasterReplies(r, x, q, m) ==
    LET y == OwnerConflict(r, x, q, m)
    IN  IF ~CheckPacket(q, r) THEN <<>>
        ELSE IF m.prio = 0 \/ (Higher(r, x, q, m) /\ r \in HigherPrioSendAdvert)
        THEN <<x.effective_priority>>
        ELSE IF ~Higher(r, y, q, m) /\ r \notin LowerPrioNoAdvert THEN <<y.effective_priority>>
        ELSE <<>>
------------------------------------------------------------------------------
(* The network, and what the properties observe.                              *)

(* r sends an advert with each of the priorities ps. *)
Sent(ch, r, ps) ==
    [p \in Pairs |-> IF p[1] # r THEN ch[p]
                     ELSE ch[p] \o [i \in DOMAIN ps |-> [prio |-> ps[i], int |-> AdverInt[r],
                                                         due |-> MaxDelay]]]

Ints == {AdverInt[r] : r \in Routers}
MaxInt == CHOOSE i \in Ints : \A j \in Ints : j <= i
MaxDown == down_timer_adverts * MaxInt + ((Range - 1) * MaxInt) \div Range

(* The observations are counted up to what the properties tell apart. *)
Count(n, cap) == IF n < cap THEN n + 1 ELSE n
MaxGap == MaxDown + MaxDelay + 1
MaxDual == (5 + conf.lost) * MaxInt + 2 * MaxDelay

MastersOf(f) == {r \in Routers : f[r].state = "MAST"}
Nothing == [prio |-> None, age |-> 0, held |-> None]

(* Router r goes to state x and sends adverts with priorities ps, after the   *)
(* adverts in ch; heard is what it heard last.                                *)
Step(r, x, ch, ps, heard) ==
    LET masters == MastersOf(rt')
    IN  /\ rt' = [rt EXCEPT ![r] = x]
        /\ chan' = Sent(ch, r, ps)
        /\ dual' = IF Cardinality(masters) < 2 THEN 0 ELSE dual
        /\ gap' = [q \in Routers |-> IF masters = {} /\ rt'[q].state = "BACK" THEN gap[q] ELSE 0]
        /\ last' = [last EXCEPT ![r] = heard]

(* What r, as x, heard last, and since when adverts of a lower priority hold  *)
(* it back                                                                    *)
Heard(r, x, prio) ==
    [prio |-> prio, age |-> 0,
     held |-> IF prio = 0 THEN last[r].held
              ELSE IF preempt_delay[r] = 0 \/ prio >= x.effective_priority THEN None
              ELSE IF last[r].held = None THEN 0 ELSE last[r].held]

Use(what) == left[what] > 0 /\ left' = [left EXCEPT ![what] = @ - 1]
------------------------------------------------------------------------------
Init ==
    /\ conf \in Setups
    /\ rt \in [Routers -> UNION {{StartState(r), OffState(r)} : r \in Routers}]
    /\ \A r \in Routers : rt[r] \in {StartState(r), OffState(r)}
    /\ chan = [p \in Pairs |-> <<>>]
    /\ left = [lost |-> conf.lost, stops |-> conf.stops, starts |-> conf.starts,
               prios |-> conf.prios]
    /\ dual = 0
    /\ gap = [r \in Routers |-> 0]
    /\ last = [r \in Routers |-> Nothing]

(* A backup that heard nothing for its master down time becomes master: an    *)
(* advert is sent first, with the priority from before vrrp_state_become_     *)
(* master().                                                                  *)
BackupTimeout(r) ==
    /\ rt[r].state = "BACK" /\ rt[r].sands <= 0
    /\ Step(r, InitSands(r, BecomeMaster(r, rt[r])), chan, <<rt[r].effective_priority>>, Nothing)
    /\ UNCHANGED left

(* vrrp_state_master_tx(): the second advert since another owner was heard    *)
(* starts the rogue timer.                                                    *)
MasterTx(r) ==
    LET x == rt[r]
        longer == IF x.rogue_adver_int > AdverInt[r] THEN x.rogue_adver_int ELSE AdverInt[r]
        counted == [x EXCEPT !.rogue_counter = IF @ > 0 THEN @ - 1 ELSE 0,
                             !.rogue_timer = IF x.rogue_counter = 1 THEN (longer * 12) \div 10 ELSE @]
    IN  /\ x.state = "MAST" /\ x.sands = 0
        /\ Step(r, InitSands(r, IF BasePrio[r] = Owner THEN counted ELSE x),
                chan, <<x.effective_priority>>, last[r])
        /\ UNCHANGED left

(* vrrp_rogue_timer_thread() *)
RogueTimer(r) ==
    /\ rt[r].rogue_timer = 0
    /\ Step(r, [rt[r] EXCEPT !.rogue_timer = None], chan, <<>>, last[r])
    /\ UNCHANGED left

(* vrrp_dispatcher_read() *)
Receive(p) ==
    LET q == p[1]  r == p[2]  x == rt[r]
        m == Head(chan[p])
        rest == [chan EXCEPT ![p] = Tail(@)]
        heard(y) == IF CheckPacket(q, r) THEN Heard(r, y, m.prio) ELSE last[r]
    IN  /\ chan[p] # <<>>
        /\ UNCHANGED left
        /\ \/ /\ x.state = "BACK"
              /\ Step(r, StateBackup(r, x, q, m), rest, <<>>, heard(Restored(r, x, q, m)))
           \/ /\ x.state = "MAST" /\ r \notin Rogues
              /\ LET y == StateMasterRx(r, x, q, m)
                 IN  Step(r, y, rest, MasterReplies(r, x, q, m),
                          IF y.state = "BACK" THEN heard(x) ELSE last[r])
           \/ /\ x.state \in {"FAULT", "OFF"} \/ (r \in Rogues /\ x.state = "MAST")
              /\ Step(r, x, rest, <<>>, last[r])

(* down_instance(): a fault of the link, when nothing can be sent, or of a    *)
(* tracked object; priority 0 is sent by vrrp_state_leave_master() and again  *)
(* by vrrp_restore_interface().                                               *)
Fault(r) ==
    /\ Use("stops")
    /\ \/ /\ rt[r].state = "MAST"
          /\ \E sent \in {<<>>, <<0, 0>>} :
                Step(r, LeaveMaster(r, rt[r], "FAULT"), chan, sent, Nothing)
       \/ /\ rt[r].state = "BACK"
          /\ Step(r, LeaveFault(r, rt[r], "FAULT"), chan, <<>>, Nothing)

(* try_up_instance(): wantstate is FAULT, also for an address owner. *)
FaultEnd(r) ==
    /\ rt[r].state = "FAULT"
    /\ Use("starts")
    /\ Step(r, LeaveFault(r, rt[r], "BACK"), chan, <<>>, Nothing)

(* shutdown_vrrp_instances() *)
Shutdown(r) ==
    /\ rt[r].state # "OFF"
    /\ Use("stops")
    /\ Step(r, OffState(r), chan, IF rt[r].state = "MAST" THEN <<0>> ELSE <<>>, Nothing)

Crash(r) ==
    /\ rt[r].state # "OFF"
    /\ Use("stops")
    /\ Step(r, OffState(r), chan, <<>>, Nothing)

Start(r) ==
    /\ rt[r].state = "OFF"
    /\ Use("starts")
    /\ Step(r, StartState(r), chan, <<>>, Nothing)

(* MUTANT of NewSands: the timer starts again. *)
NewSands_restart(x, z) == z.ms_down_timer

(* The time left when the instance changes from x to z *)
NewSands(x, z) ==
    x.sands + z.ms_down_timer - x.ms_down_timer

(* vrrp_set_effective_priority(): the time left changes by what the master    *)
(* down timer changes.                                                        *)
SetEffectivePriority(r, prio) ==
    LET x == rt[r]
        y == [x EXCEPT !.effective_priority = prio]
        z == [y EXCEPT !.ms_down_timer = MsDownTimer(r, y)]
    IN  /\ BasePrio[r] # Owner /\ x.effective_priority # prio
        /\ x.state # "OFF"
        /\ Use("prios")
        /\ Step(r, IF x.state # "BACK" THEN z
                   ELSE [z EXCEPT !.sands = NewSands(x, z)],
                chan, <<>>, last[r])

(* The network loses an advert. *)
Lose(p) ==
    /\ chan[p] # <<>>
    /\ Use("lost")
    /\ chan' = [chan EXCEPT ![p] = Tail(@)]
    /\ UNCHANGED <<rt, dual, gap, last>>

Less(t) == IF t > 0 THEN t - 1 ELSE t

(* A tick passes when nothing is due. *)
Tick ==
    /\ \A r \in Routers :
          (rt[r].state \in {"BACK", "MAST"} => rt[r].sands > 0) /\ rt[r].rogue_timer # 0
    /\ \A p \in Pairs : \A i \in DOMAIN chan[p] : chan[p][i].due > 0
    /\ rt' = [r \in Routers |-> [rt[r] EXCEPT !.sands = Less(@), !.preempt_time = Less(@),
                                              !.rogue_timer = Less(@)]]
    /\ chan' = [p \in Pairs |-> [i \in DOMAIN chan[p] |-> [chan[p][i] EXCEPT !.due = @ - 1]]]
    /\ LET masters == MastersOf(rt)
       IN  /\ dual' = IF Cardinality(masters) < 2 THEN 0 ELSE Count(dual, MaxDual)
           /\ gap' = [r \in Routers |-> IF masters = {} /\ rt[r].state = "BACK"
                                        THEN Count(gap[r], MaxGap) ELSE 0]
    /\ last' = [r \in Routers |->
                   IF rt[r].state # "BACK" THEN last[r]
                   ELSE [last[r] EXCEPT !.age = Count(@, MaxGap),
                                        !.held = IF @ = None THEN @ ELSE Count(@, preempt_delay[r])]]
    /\ UNCHANGED left

Next ==
    /\ \/ \E r \in Routers :
             \/ BackupTimeout(r) \/ MasterTx(r) \/ RogueTimer(r)
             \/ Fault(r) \/ FaultEnd(r) \/ Shutdown(r) \/ Crash(r) \/ Start(r)
             \/ \E prio \in TrackedPrios : SetEffectivePriority(r, prio)
       \/ \E p \in Pairs : Receive(p) \/ Lose(p)
       \/ Tick
    /\ UNCHANGED conf

Spec == Init /\ [][Next]_vars

(* The timers of a running router expire and adverts are read or lost: time   *)
(* goes on, unless no router runs.  Nothing is assumed of faults, starts and  *)
(* changes of priority.                                                       *)
Still ==
    /\ \A r \in Routers : rt[r].state \in {"OFF", "FAULT"}
    /\ \A p \in Pairs : chan[p] = <<>>
FairSpec == Spec /\ (<>[]Still \/ []<><<Next>>_vars)
------------------------------------------------------------------------------
(* Properties                                                                 *)

Masters == MastersOf(rt)

OwnersOf(s) == {r \in s.routers : s.priority[r] = Owner}

(* Two masters find out about each other: without losses, the advert of the   *)
(* new one and the answer to it end it; where the answer is configured away   *)
(* (lower_prio_no_advert) or lost, the next regular advert.  Of two address   *)
(* owners, one of which does not give way, the other one gives way after it   *)
(* has sent two adverts and heard the first again before the rogue timer      *)
(* expires, as the comment in vrrp_state_master_rx() says.  (An owner that    *)
(* answers every advert starts its timer again with each, and counts only     *)
(* adverts its timer sends: this holds for one with lower_prio_no_advert.)    *)
DualBounded ==
    /\ Mismatched = {} /\ Cardinality(OwnersOf(conf)) < 2 =>
          dual <= 2 * MaxDelay + MaxInt * (conf.lost - left.lost)
                    + (IF LowerPrioNoAdvert = {} THEN 0 ELSE MaxInt)
    /\ Rogues # {} /\ Routers = Rogues \cup LowerPrioNoAdvert =>
          dual <= 4 * MaxInt + MaxDelay + MaxInt * (conf.lost - left.lost)

(* While there is no master, no router stays backup for longer than the       *)
(* longest master down time and the delay of the last advert.                 *)
GapBounded == \A r \in Routers : gap[r] <= MaxDown + MaxDelay

(* A backup that was told that the master stops is master, or has heard of    *)
(* another one, after its skew time: that is what priority 0 is sent for.     *)
(* vrrp_set_effective_priority() makes a full master down time of the skew    *)
(* time, so this is for behaviours without changes of priority.               *)
FastHandover ==
    left.prios = conf.prios =>
       \A r \in Routers :
          rt[r].state = "BACK" /\ last[r].prio = 0 => last[r].age <= TimerSkew(r, rt[r])

(* A backup that is needed takes over in time: within its skew time if the    *)
(* master said that it stops, within the longest master down time if there is *)
(* no master for another reason (vrrp_state_backup()).                        *)
TakesOverInTime == FastHandover /\ GapBounded

(* A backup becomes master only when for a whole master down time, as its     *)
(* priority is now, it has not heard an advert of at least its priority (any  *)
(* advert, with nopreempt); or the master said that it stops; or it is an     *)
(* address owner that just started.                                           *)
TakesOver(r) ==
    rt[r].state = "BACK" /\ rt'[r].state = "MAST" =>
       \/ last[r].age >= MsDownTimer(r, rt[r])
       \/ last[r].prio = 0
       \/ last[r].prio = None /\ BasePrio[r] = Owner
       \/ r \notin NoPreempt /\ last[r].prio \in 1 .. rt[r].effective_priority - 1
TakesOverAfterSilence == [][\A r \in Routers : TakesOver(r)]_vars

(* A router with a preempt_delay takes over from a master of lower priority   *)
(* that goes on sending adverts only when these have been coming for as long  *)
(* as the delay.                                                              *)
WaitsToPreempt(r) ==
    /\ rt[r].state = "BACK" /\ rt'[r].state = "MAST"
    /\ preempt_delay[r] > 0
    /\ last[r].prio \in 1 .. rt[r].effective_priority - 1
    /\ last[r].age < MsDownTimer(r, rt[r])
    => last[r].held >= preempt_delay[r]
PreemptsAfterDelay == [][\A r \in Routers : WaitsToPreempt(r)]_vars

(* Routers that understand each other and give way *)
Sound == Mismatched = {} /\ Rogues = {}

(* Once nothing more goes wrong there is one master for good, if any router   *)
(* is up, also when two routers are configured as address owner; and it has   *)
(* the highest priority of the routers that may preempt.                      *)
Converges ==
    Sound =>
       \/ <>[](\A r \in Routers : rt[r].state \in {"OFF", "FAULT"})
       \/ <>[](/\ Cardinality(Masters) = 1
              /\ \A m \in Masters, r \in Routers :
                    rt[r].state = "BACK" /\ r \notin NoPreempt
                       => rt[m].effective_priority >= rt[r].effective_priority)

==============================================================================
