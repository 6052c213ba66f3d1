----------------------------- MODULE BfdSession ------------------------------
(* The BFD child: a session between two neighbours, each a keepalived process *)
(* (bfd/bfd_scheduler.c, bfd/bfd.c), with the three timers of a session, the  *)
(* poll sequence, demand mode, passive sessions, an output socket that cannot *)
(* be opened, reloads that change the timers, and processes that crash.       *)
(*                                                                            *)
(* Time is counted in ticks; a timer is the number of ticks until it expires. *)
(* Handlers take no time and run when they are due, in any order; a packet    *)
(* takes at most setup.delay ticks, the packets of one direction stay in      *)
(* order.                                                                     *)
EXTENDS Integers, Sequences, FiniteSets

CONSTANTS
    Nodes,          \* the two neighbours
    RetryTime,      \* of bfd_open_fd_out_thread
    NumDiscr,       \* discriminators are 1 .. NumDiscr, 0 is none
    Setups          \* the configurations of the neighbours

None == -1          \* a thread that is not scheduled

(* A configuration: the timers each neighbour may be configured with, the     *)
(* ones it starts with, idle_tx, the multiplier, the nodes with "passive",    *)
(* those where another session keeps fd_in open, and those that are of        *)
(* another make (demand mode, AdminDown packets).  And the bounds: the delay  *)
(* of a packet, how long the parent may take to start the child, and how many *)
(* packets are lost, processes die, reloads and failures to open a socket.    *)
Setup(s) ==
    /\ \A n \in Nodes : s.confs[n] \subseteq [tx : Nat \ {0}, rx : Nat \ {0}] /\ s.first[n] \in s.confs[n]
    /\ \A n \in Nodes : \E c, d \in s.confs[n] : \A e \in s.confs[n] : e.rx <= c.rx /\ e.tx <= d.tx
    /\ s.idle_tx \in [Nodes -> Nat \ {0}]
    /\ s.multiplier \in [Nodes -> Nat \ {0}]
    /\ s.passive \subseteq Nodes /\ s.shared \subseteq Nodes /\ s.foreign \subseteq Nodes
    /\ {s.delay, s.dead, s.lost, s.crashes, s.reloads, s.fails} \subseteq Nat

ASSUME BfdAssumption ==
    /\ IsFiniteSet(Nodes) /\ Cardinality(Nodes) = 2
    /\ RetryTime \in Nat \ {0} /\ NumDiscr \in Nat \ {0, 1}
    /\ \A s \in Setups : Setup(s)

VARIABLES
    setup,      \* the configuration
    ses,        \* the session of each node, a bfd_t
    chan,       \* the packets on their way to each node
    left,       \* what may still happen, of the bounds above
    dead,       \* for how many ticks the process of each node has been dead,
    oneSided    \* and for how many only one of two live nodes has been Up

vars == <<setup, ses, chan, left, dead, oneSided>>

Confs == setup.confs
FirstConf == setup.first
IdleTx == setup.idle_tx
DetectMult == setup.multiplier
Passive == setup.passive
Shared == setup.shared
Foreign == setup.foreign

Peer(n) == CHOOSE p \in Nodes : p # n
Larger(x, y) == IF x > y THEN x ELSE y
Smaller(x, y) == IF x < y THEN x ELSE y
States == {"ADMINDOWN", "DOWN", "INIT", "UP"}
------------------------------------------------------------------------------
(* One session.                                                               *)

(* bfd_update_local_tx_intv() *)
UpdateLocalTxIntv(s) == [s EXCEPT !.local_tx_intv = Larger(s.conf.tx, s.remote_min_rx_intv)]

(* bfd_update_remote_tx_intv() *)
UpdateRemoteTxIntv(s) == [s EXCEPT !.remote_tx_intv = Larger(s.conf.rx, s.remote_min_tx_intv)]

(* bfd_idle_local_tx_intv() *)
IdleLocalTxIntv(n, s) == [s EXCEPT !.local_tx_intv = Larger(IdleTx[n], s.remote_min_rx_intv)]

(* bfd_set_poll() *)
SetPoll(s) == [s EXCEPT !.poll = (s.poll \/ ~s.final)]

(* A fresh random discriminator, bfd_get_random_discr(). *)
NextDiscr(d) == (d % NumDiscr) + 1

(* What local_tx_intv - get_jitter() may be: k chooses the random value. *)
JitterChoices == 0 .. 2
TxDelay(s, k) == s.local_tx_intv - Smaller(s.local_tx_intv \div 10 + k, s.local_tx_intv \div 4)

(* bfd_sender_schedule(), bfd_sender_reschedule() *)
SenderSchedule(s, k) == [s EXCEPT !.thread_out = TxDelay(s, k)]

(* bfd_event_send(): the last status written to the VRRP and checker pipes. *)
EventSend(s) == [s EXCEPT !.reported = s.local_state = "UP"]

(* MUTANT of StateFall: the expiry timer goes on running. *)
StateFall_no_cancel(n, s, send_event) ==
    LET t == IdleLocalTxIntv(n, s)
    IN  IF send_event /\ s.remote_state # "ADMINDOWN" THEN EventSend(t) ELSE t

(* MUTANT of StateFall: nobody is told. *)
StateFall_silent(n, s, send_event) == [IdleLocalTxIntv(n, s) EXCEPT !.thread_exp = None]

(* bfd_state_fall() *)
StateFall(n, s, send_event) ==
    LET t == [IdleLocalTxIntv(n, s) EXCEPT !.thread_exp = None]
    IN  IF send_event /\ s.remote_state # "ADMINDOWN" THEN EventSend(t) ELSE t

(* bfd_state_down(): quiet says that the fall was not reported because the    *)
(* neighbour had announced AdminDown.                                         *)
StateDown(n, s) ==
    StateFall(n, [s EXCEPT !.local_discr = IF s.local_state = "UP" THEN NextDiscr(@) ELSE @,
                           !.quiet = IF s.local_state = "UP" THEN s.remote_state = "ADMINDOWN" ELSE @,
                           !.local_state = "DOWN",
                           !.thread_rst = s.local_detect_time,
                           !.thread_out = IF n \in Passive THEN None ELSE @],
              s.local_state = "UP")

(* bfd_state_admindown() *)
StateAdminDown(n, s) ==
    StateFall(n, [s EXCEPT !.local_state = "ADMINDOWN", !.thread_out = None], FALSE)

(* bfd_state_rise() *)
StateRise(s) ==
    [s EXCEPT !.thread_rst = None,
              !.thread_exp = IF @ = None THEN s.local_detect_time ELSE @]

(* MUTANT of StateUp: no poll sequence. *)
StateUp_no_poll(n, s) == EventSend(StateRise([s EXCEPT !.local_state = "UP", !.quiet = FALSE]))

(* bfd_state_up() *)
StateUp(n, s) ==
    LET t == StateRise([s EXCEPT !.local_state = "UP", !.quiet = FALSE])
    IN  EventSend(IF IdleTx[n] # s.conf.tx THEN SetPoll(t) ELSE t)

(* bfd_state_init() *)
StateInit(n, s, k) ==
    LET t == StateRise([s EXCEPT !.local_state = "INIT"])
    IN  IF n \in Passive /\ t.thread_out = None THEN SenderSchedule(t, k) ELSE t

(* bfd_reset_state(): the fields bfd_copy_state() copies unless all_fields. *)
ResetState(n, s) ==
    IdleLocalTxIntv(n, [s EXCEPT !.local_state = "DOWN", !.remote_state = "DOWN",
                                 !.remote_discr = 0, !.remote_demand = FALSE,
                                 !.poll = FALSE, !.final = FALSE])

(* A bfd_t after bfd_init_state(), before bfd_dispatcher_init(). *)
InitState(n, d) ==
    [alive |-> TRUE, conf |-> FirstConf[n],
     local_state |-> "DOWN", remote_state |-> "DOWN", local_discr |-> d, remote_discr |-> 0,
     poll |-> FALSE, final |-> FALSE, remote_demand |-> FALSE,
     remote_min_tx_intv |-> 0, remote_min_rx_intv |-> 0, remote_detect_mult |-> 0,
     local_tx_intv |-> IdleTx[n], remote_tx_intv |-> 0, local_detect_time |-> 0,
     thread_out |-> None, thread_exp |-> None, thread_rst |-> None,
     open_timer |-> None, open_ptr |-> FALSE, events |-> 0,
     fd_out |-> FALSE, fd_in |-> FALSE, reported |-> FALSE, quiet |-> FALSE]
------------------------------------------------------------------------------
(* Packets.                                                                   *)

(* bfd_build_packet(); the poll flag it may clear is cleared by Sent. *)
BuildPacket(n, s) ==
    [state |-> s.local_state, poll |-> s.poll /\ ~s.final, final |-> s.final,
     demand |-> n \in Foreign /\ s.local_state = "UP" /\ s.remote_state = "UP",
     mult |-> DetectMult[n], local_discr |-> s.local_discr, remote_discr |-> s.remote_discr,
     min_tx |-> IF s.local_state = "UP" THEN s.conf.tx ELSE IdleTx[n],
     min_rx |-> s.conf.rx, due |-> setup.delay]

(* The session after bfd_build_packet() and bfd_send_packet(). *)
Sent(s) == [s EXCEPT !.poll = @ /\ ~s.final, !.final = FALSE]

Send(n, s) == [chan EXCEPT ![Peer(n)] = Append(@, BuildPacket(n, s))]

(* bfd_check_packet() and the lookup by discriminator or by address. *)
Accepts(s, p) ==
    /\ p.remote_discr = 0 => p.state \in {"DOWN", "ADMINDOWN"}
    /\ ~(p.poll /\ p.final)
    /\ p.remote_discr \in {0, s.local_discr}

(* The fields of the packet, and the end of a poll sequence. *)
Learn(s, p) ==
    [s EXCEPT !.remote_discr = p.local_discr, !.remote_state = p.state,
              !.remote_min_rx_intv = p.min_rx, !.remote_min_tx_intv = p.min_tx,
              !.remote_demand = p.demand, !.remote_detect_mult = p.mult,
              !.poll = @ /\ ~p.final]

(* The intervals are recalculated on Poll, on Final and while not Up. *)
Renegotiate(n, s, p) ==
    IF s.local_state = "UP" /\ ~p.poll /\ ~p.final
    THEN s
    ELSE UpdateRemoteTxIntv(IF s.remote_state = "UP" /\ s.local_state \in {"INIT", "UP"}
                            THEN UpdateLocalTxIntv(s) ELSE IdleLocalTxIntv(n, s))

(* The BFD state machine. *)
StateMachine(n, s, k) ==
    IF s.remote_state = "ADMINDOWN" /\ s.local_state # "DOWN" THEN StateDown(n, s)
    ELSE IF s.local_state = "DOWN" /\ s.remote_state = "DOWN" THEN StateInit(n, s, k)
    ELSE IF s.local_state = "DOWN" /\ s.remote_state = "INIT" THEN StateUp(n, s)
    ELSE IF s.local_state = "INIT" /\ s.remote_state \in {"INIT", "UP"} THEN StateUp(n, s)
    ELSE IF s.local_state = "UP" /\ s.remote_state = "DOWN" THEN StateDown(n, s)
    ELSE s

(* Demand mode stops the sender, anything else makes sure it is scheduled. *)
DemandMode(s, k) ==
    IF s.remote_demand /\ s.local_state = "UP" /\ s.remote_state = "UP"
    THEN [s EXCEPT !.thread_out = None]
    ELSE IF s.thread_out = None THEN SenderSchedule(s, k) ELSE s

(* The expiry is delayed by a packet, if Up. *)
Refresh(s) ==
    IF s.local_state = "UP" /\ s.thread_exp # None
    THEN [s EXCEPT !.thread_exp = s.local_detect_time] ELSE s

(* MUTANT of HandlePacket: one interval too many in the detection time. *)
HandlePacket_late(n, s0, p, k) ==
    LET s1 == Renegotiate(n, Learn(s0, p), p)
        s2 == [s1 EXCEPT !.local_detect_time = (s1.remote_detect_mult + 1) * s1.remote_tx_intv]
        s3 == IF s2.local_tx_intv < s0.local_tx_intv /\ s2.thread_out # None
              THEN SenderSchedule(s2, k) ELSE s2
        s4 == DemandMode(StateMachine(n, s3, k), k)
        s5 == IF p.poll THEN [s4 EXCEPT !.final = TRUE, !.events = @ + 1] ELSE s4
    IN  Refresh(s5)

(* bfd_handle_packet(), once the session is found and is not AdminDown. *)
HandlePacket(n, s0, p, k) ==
    LET s1 == Renegotiate(n, Learn(s0, p), p)
        s2 == [s1 EXCEPT !.local_detect_time = s1.remote_detect_mult * s1.remote_tx_intv]
        s3 == IF s2.local_tx_intv < s0.local_tx_intv /\ s2.thread_out # None
              THEN SenderSchedule(s2, k) ELSE s2
        s4 == DemandMode(StateMachine(n, s3, k), k)
        s5 == IF p.poll THEN [s4 EXCEPT !.final = TRUE, !.events = @ + 1] ELSE s4
    IN  Refresh(s5)
------------------------------------------------------------------------------
(* The threads of the BFD process.                                            *)

UnchangedBounds == UNCHANGED <<left, dead, oneSided>>

(* bfd_sender_thread(), as a timer. *)
SenderThread(n) ==
    /\ ses[n].thread_out = 0
    /\ chan' = Send(n, ses[n])
    /\ \E k \in JitterChoices : ses' = [ses EXCEPT ![n] = SenderSchedule(Sent(ses[n]), k)]
    /\ UnchangedBounds

(* bfd_sender_thread(), as an event. *)
SenderEvent(n) ==
    /\ ses[n].events > 0
    /\ chan' = Send(n, ses[n])
    /\ ses' = [ses EXCEPT ![n] = [Sent(ses[n]) EXCEPT !.events = @ - 1]]
    /\ UnchangedBounds

(* bfd_expire_thread() *)
ExpireThread(n) ==
    /\ ses[n].thread_exp = 0
    /\ ses' = [ses EXCEPT ![n] = StateDown(n, [ses[n] EXCEPT !.thread_exp = None,
                                                             !.remote_discr = 0])]
    /\ UNCHANGED chan /\ UnchangedBounds

(* bfd_reset_thread() *)
ResetThread(n) ==
    /\ ses[n].thread_rst = 0
    /\ ses' = [ses EXCEPT ![n] = ResetState(n, [ses[n] EXCEPT !.thread_rst = None])]
    /\ UNCHANGED chan /\ UnchangedBounds

(* socket(), bind() and setsockopt() in bfd_open_fd_out() may fail. *)
OpenFdOut(ok) ==
    /\ ~ok => left.fails > 0
    /\ left' = IF ok THEN left ELSE [left EXCEPT !.fails = @ - 1]

(* bfd_open_fd_out_thread(): thread_open_fd_out is not cleared when it        *)
(* succeeds.                                                                  *)
OpenFdOutThread(n) ==
    /\ ses[n].open_timer = 0
    /\ \E ok \in BOOLEAN, k \in JitterChoices :
          LET s == [ses[n] EXCEPT !.fd_out = TRUE, !.local_state = "DOWN", !.open_timer = None]
          IN  /\ OpenFdOut(ok)
              /\ ses' = [ses EXCEPT ![n] =
                            IF ~ok THEN [@ EXCEPT !.open_timer = RetryTime]
                            ELSE IF n \in Passive THEN s ELSE SenderSchedule(s, k)]
    /\ UNCHANGED <<chan, dead, oneSided>>

(* bfd_receiver_thread(): a packet for a session that is AdminDown is only    *)
(* handled if the output socket can be opened now.                            *)
Receive(n) ==
    /\ chan[n] # <<>>
    /\ chan' = [chan EXCEPT ![n] = Tail(@)]
    /\ LET p == Head(chan[n])
           s == ses[n]
       IN  IF ~s.fd_in \/ ~Accepts(s, p)
           THEN UNCHANGED <<ses, left>>
           ELSE \E k \in JitterChoices :
                   IF s.local_state # "ADMINDOWN"
                   THEN /\ ses' = [ses EXCEPT ![n] = HandlePacket(n, s, p, k)]
                        /\ UNCHANGED left
                   ELSE \E ok \in BOOLEAN :
                           LET t == StateInit(n, [s EXCEPT !.fd_out = TRUE, !.open_timer = None,
                                                           !.open_ptr = FALSE], k)
                           IN  /\ OpenFdOut(ok)
                               /\ ses' = IF ok THEN [ses EXCEPT ![n] = HandlePacket(n, t, p, k)]
                                         ELSE ses
    /\ UNCHANGED <<dead, oneSided>>
------------------------------------------------------------------------------
(* Start and reload.                                                          *)

(* bfd_register_workers(): timers that were suspended are resumed, unless     *)
(* the session is AdminDown.  It runs as an event after reload_bfd_thread()   *)
(* has cleared reload, so an active session sends a packet at once after a    *)
(* reload as well.                                                            *)
RegisterWorkers(n, s, k) ==
    LET sender == IF s.thread_out = None
                  THEN IF n \in Passive THEN s ELSE SenderSchedule(s, k)
                  ELSE IF n \in Passive /\ s.local_state # "UP" THEN [s EXCEPT !.thread_out = None] ELSE s
    IN  EventSend(IF s.local_state = "ADMINDOWN"
                  THEN [s EXCEPT !.thread_out = None, !.thread_exp = None, !.thread_rst = None,
                                 !.open_timer = IF s.fd_out THEN None ELSE RetryTime,
                                 !.open_ptr = ~s.fd_out]
                  ELSE [sender EXCEPT !.events = IF n \notin Passive THEN @ + 1 ELSE @])

(* bfd_open_fds(): the listening socket is opened if some session could open  *)
(* its output socket.                                                         *)
OpenFds(n, s, ok) ==
    [IF ok THEN [s EXCEPT !.fd_out = TRUE] ELSE StateAdminDown(n, s)
        EXCEPT !.fd_in = ok \/ n \in Shared]

(* bfd_dispatcher_release() and the end of the old threads: without a         *)
(* listening socket it returns at once, and no timer is suspended.  A stale   *)
(* thread_open_fd_out is cancelled too; with one session nothing has taken    *)
(* its place.                                                                 *)
Release(s) ==
    LET t == [s EXCEPT !.open_timer = None, !.open_ptr = FALSE, !.fd_out = FALSE, !.events = 0]
    IN  IF s.fd_in THEN t
        ELSE [t EXCEPT !.thread_out = None, !.thread_exp = None, !.thread_rst = None]

(* start_bfd_child() *)
Start(n) ==
    /\ ~ses[n].alive
    /\ \E ok \in BOOLEAN, k \in JitterChoices :
          LET s == InitState(n, NextDiscr(ses[n].local_discr))
          IN  /\ OpenFdOut(ok)
              /\ ses' = [ses EXCEPT ![n] = RegisterWorkers(n, OpenFds(n, s, ok), k)]
    /\ dead' = [dead EXCEPT ![n] = 0]
    /\ UNCHANGED <<chan, oneSided>>

(* MUTANT of Reload: the negotiated intervals are not copied. *)
Reload_no_intervals(n) ==
    /\ ses[n].alive
    /\ left.reloads > 0
    /\ \E c \in Confs[n], ok \in BOOLEAN, k \in JitterChoices :
          LET s == [Release(ses[n]) EXCEPT !.conf = c, !.remote_tx_intv = 0, !.local_detect_time = 0]
              t == IF c # ses[n].conf THEN SetPoll(s) ELSE s
          IN  /\ ~ok => left.fails > 0
              /\ left' = [left EXCEPT !.reloads = @ - 1, !.fails = IF ok THEN @ ELSE @ - 1]
              /\ ses' = [ses EXCEPT ![n] = RegisterWorkers(n, OpenFds(n, t, ok), k)]
    /\ UNCHANGED <<chan, dead, oneSided>>

(* reload_bfd_thread() *)
Reload(n) ==
    /\ ses[n].alive
    /\ left.reloads > 0
    /\ \E c \in Confs[n], ok \in BOOLEAN, k \in JitterChoices :
          LET s == [Release(ses[n]) EXCEPT !.conf = c]
              t == IF c # ses[n].conf THEN SetPoll(s) ELSE s
          IN  /\ ~ok => left.fails > 0
              /\ left' = [left EXCEPT !.reloads = @ - 1, !.fails = IF ok THEN @ ELSE @ - 1]
              /\ ses' = [ses EXCEPT ![n] = RegisterWorkers(n, OpenFds(n, t, ok), k)]
    /\ UNCHANGED <<chan, dead, oneSided>>

(* The process of n is gone; the VRRP process keeps its last status. *)
Gone(n) == [InitState(n, ses[n].local_discr) EXCEPT !.alive = FALSE, !.reported = ses[n].reported]

(* External: the process dies or is stopped: no packet says so. *)
Crash(n) ==
    /\ ses[n].alive
    /\ left.crashes > 0
    /\ left' = [left EXCEPT !.crashes = @ - 1]
    /\ ses' = [ses EXCEPT ![n] = Gone(n)]
    /\ oneSided' = 0
    /\ UNCHANGED <<chan, dead>>

(* External: a neighbour of another make announces AdminDown and stops. *)
ForeignAdminDown(n) ==
    /\ n \in Foreign
    /\ ses[n].alive
    /\ left.crashes > 0
    /\ left' = [left EXCEPT !.crashes = @ - 1]
    /\ ses' = [ses EXCEPT ![n] = Gone(n)]
    /\ chan' = Send(n, [ses[n] EXCEPT !.local_state = "ADMINDOWN"])
    /\ UNCHANGED <<dead, oneSided>>

(* External: the network loses a packet. *)
Lose(n) ==
    /\ chan[n] # <<>>
    /\ left.lost > 0
    /\ left' = [left EXCEPT !.lost = @ - 1]
    /\ chan' = [chan EXCEPT ![n] = Tail(@)]
    /\ UNCHANGED <<ses, dead, oneSided>>
------------------------------------------------------------------------------
(* Time, and the specification.                                               *)

(* The largest min_rx of a node; the largest interval that it announces, Up   *)
(* or not: min_tx may be more or less than idle_tx; and the largest at which  *)
(* it sends.                                                                  *)
SlowRx(n) == CHOOSE x \in {c.rx : c \in Confs[n]} : \A c \in Confs[n] : c.rx <= x
SlowTx(n) == Larger(CHOOSE x \in {c.tx : c \in Confs[n]} : \A c \in Confs[n] : c.tx <= x, IdleTx[n])
SlowInterval(n) == Larger(SlowRx(Peer(n)), SlowTx(n))

(* The detection time with the slowest intervals. *)
SlowDetect(n) == DetectMult[Peer(n)] * SlowInterval(Peer(n))

(* How long only one side may be Up: a detection time, and the next handshake *)
(* with its losses.                                                           *)
OneSidedMax ==
    LET bounds == {SlowDetect(n) + (1 + setup.lost) * SlowInterval(n) + 2 * setup.delay : n \in Nodes}
    IN  CHOOSE x \in bounds : \A b \in bounds : b <= x

DemandActive(n) == n \in Foreign /\ ses[n].local_state = "UP" /\ ses[n].remote_state = "UP"

(* External: one tick passes; everything that is due has run.  A neighbour    *)
(* in demand mode does not detect.                                            *)
Tick ==
    /\ \A n \in Nodes :
          /\ \A t \in {"thread_out", "thread_exp", "thread_rst", "open_timer"} : ses[n][t] # 0
          /\ ses[n].events = 0
          /\ \A i \in 1 .. Len(chan[n]) : chan[n][i].due > 0
          /\ ~ses[n].alive => dead[n] < setup.dead
    /\ LET Down(t) == IF t = None THEN t ELSE t - 1
       IN  ses' = [n \in Nodes |->
                     [ses[n] EXCEPT !.thread_out = Down(@), !.thread_rst = Down(@), !.open_timer = Down(@),
                                    !.thread_exp = IF DemandActive(n) THEN @ ELSE Down(@)]]
    /\ chan' = [n \in Nodes |-> [i \in 1 .. Len(chan[n]) |-> [chan[n][i] EXCEPT !.due = @ - 1]]]
    /\ dead' = [n \in Nodes |-> IF ses[n].alive THEN 0 ELSE dead[n] + 1]
    /\ oneSided' = IF /\ \A n \in Nodes : ses[n].alive
                      /\ Cardinality({n \in Nodes : ses[n].local_state = "UP"}) = 1
                   THEN Smaller(oneSided + 1, OneSidedMax + 1) ELSE 0
    /\ UNCHANGED left

Init ==
    /\ setup \in Setups
    /\ ses = [n \in Nodes |-> [InitState(n, 1) EXCEPT !.alive = FALSE]]
    /\ chan = [n \in Nodes |-> <<>>]
    /\ left = [lost |-> setup.lost, crashes |-> setup.crashes, reloads |-> setup.reloads, fails |-> setup.fails]
    /\ dead = [n \in Nodes |-> 0]
    /\ oneSided = 0

Steps(n) ==
    \/ SenderThread(n) \/ SenderEvent(n) \/ ExpireThread(n) \/ ResetThread(n)
    \/ OpenFdOutThread(n) \/ Receive(n) \/ Start(n)

Next ==
    /\ \/ \E n \in Nodes : Steps(n) \/ Reload(n) \/ Crash(n) \/ ForeignAdminDown(n) \/ Lose(n)
       \/ Tick
    /\ UNCHANGED setup

Spec == Init /\ [][Next]_vars

(* No timer runs and no packet is on its way: time passes and nothing happens. *)
Still ==
    \A n \in Nodes :
       /\ ses[n].alive /\ ses[n].events = 0 /\ chan[n] = <<>>
       /\ \A t \in {"thread_out", "thread_exp", "thread_rst", "open_timer"} : ses[n][t] = None

(* The system goes on for as long as anything is left to do: threads that are *)
(* due run, packets arrive or are lost, and time passes.                      *)
FairSpec == Spec /\ (<>[]Still \/ []<><<Next>>_vars)
------------------------------------------------------------------------------
(* Properties.                                                                *)

(* The timers agree with the state, which is what the asserts of the threads  *)
(* rely on: only a session in Init or Up can expire, only one in Down can be  *)
(* reset, and nothing is sent in AdminDown or without a socket.               *)
ThreadsMatchState ==
    \A n \in Nodes :
       LET s == ses[n]
       IN  /\ s.thread_exp # None <=> s.local_state \in {"INIT", "UP"}
           /\ s.thread_rst # None => s.local_state = "DOWN"
           /\ s.thread_out # None \/ s.events > 0 => s.fd_out /\ s.local_state # "ADMINDOWN"
           /\ s.open_timer # None => ~s.fd_out
           /\ s.alive /\ s.local_state # "ADMINDOWN" => s.fd_out

(* The VRRP process was told Up exactly when the session is Up, except after  *)
(* a neighbour announced AdminDown, and while the BFD process is dead.        *)
StatusReported ==
    \A n \in Nodes :
       ses[n].alive => IF ses[n].quiet THEN ses[n].local_state # "UP"
                       ELSE ses[n].reported = (ses[n].local_state = "UP")

(* A neighbour that died is noticed within the slowest detection time (by a   *)
(* node that is not in demand mode).                                          *)
NoticesDeath ==
    \A n \in Nodes \ Foreign : ses[n].local_state = "UP" => dead[Peer(n)] <= SlowDetect(n) + setup.delay

(* A neighbour that died is noticed within the slowest detection time, and    *)
(* two live nodes do not disagree on the session for long (a neighbour in     *)
(* demand mode does not detect, and may).                                     *)
DetectsDeath ==
    /\ NoticesDeath
    /\ Foreign = {} => oneSided <= OneSidedMax

NothingFailed == left.lost = setup.lost /\ left.crashes = setup.crashes /\ left.fails = setup.fails

(* As long as no packet is lost and no process dies, a session that is Up     *)
(* stays Up, whatever reloads change and however the timers are jittered, if  *)
(* the detection times leave room for a handshake: bfd_handle_packet() does   *)
(* not restart the expiry timer of a session in Init.                         *)
NoFalseDown == [][\A n \in Nodes : NothingFailed' /\ ses[n].local_state = "UP"
                                      => ses'[n].local_state = "UP"]_vars

(* The intervals both ends should have agreed on. *)
Negotiated(n) ==
    LET s == ses[n]
        p == ses[Peer(n)]
    IN  /\ s.local_state = "UP"
        /\ ~s.poll
        /\ s.local_tx_intv = Larger(s.conf.tx, p.conf.rx)
        /\ s.local_detect_time = DetectMult[Peer(n)] * Larger(s.conf.rx, p.conf.tx)

(* In the end both sessions are Up, with the configured intervals, if one of  *)
(* them is passive, at most one packet of a handshake is lost, and a session  *)
(* that could not open its socket at once finds fd_in open later.             *)
Settles ==
    /\ Passive # {} /\ Foreign = {}
    /\ setup.reloads = 0 /\ setup.lost < 2
    /\ setup.fails = 0 \/ Shared = Nodes
Converges == Settles => <>[](\A n \in Nodes : Negotiated(n))
==============================================================================
