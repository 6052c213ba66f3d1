-------------------------- MODULE BfdSessionProofs ---------------------------
(* Proofs about BfdSession, for every configuration of the two neighbours:    *)
(* the timers agree with the state of the session, the VRRP process is told   *)
(* what the session is, and the death of the neighbour is noticed in time.    *)
EXTENDS BfdSession, TLAPS, FiniteSetTheorems

(* The provers a leaf is tried with, in this order, unless it names one. *)
USE SMT, Zenon, Z3T(60)

------------------------------------------------------------------------------
(* Types.                                                                     *)

Timer == Nat \union {None}

Session ==
    [alive : BOOLEAN, conf : [tx : Nat \ {0}, rx : Nat \ {0}],
     local_state : States, remote_state : States, local_discr : Int, remote_discr : Int,
     poll : BOOLEAN, final : BOOLEAN, remote_demand : BOOLEAN,
     remote_min_tx_intv : Nat, remote_min_rx_intv : Nat, remote_detect_mult : Nat,
     local_tx_intv : Nat, remote_tx_intv : Nat, local_detect_time : Nat,
     thread_out : Timer, thread_exp : Timer, thread_rst : Timer,
     open_timer : Timer, open_ptr : BOOLEAN, events : Nat,
     fd_out : BOOLEAN, fd_in : BOOLEAN, reported : BOOLEAN, quiet : BOOLEAN]

Packet ==
    [state : States, poll : BOOLEAN, final : BOOLEAN, demand : BOOLEAN,
     mult : Nat, local_discr : Int, remote_discr : Int,
     min_tx : Nat, min_rx : Nat, due : Nat]

------------------------------------------------------------------------------
(* One session.                                                               *)

(* The timers agree with the state and with the sockets. *)
Good(s) ==
    /\ s.thread_exp # None <=> s.local_state \in {"INIT", "UP"}
    /\ s.thread_rst # None => s.local_state = "DOWN"
    /\ s.thread_out # None \/ s.events > 0 => s.fd_out /\ s.local_state # "ADMINDOWN"
    /\ s.open_timer # None => ~s.fd_out /\ s.alive
    /\ s.alive /\ s.local_state # "ADMINDOWN" => s.fd_out
    /\ s.fd_in \/ s.fd_out => s.alive
    /\ ~s.fd_in => s.local_state \in {"DOWN", "ADMINDOWN"}

(* The VRRP process knows the state. *)
Told(s) ==
    s.alive => IF s.quiet THEN s.local_state # "UP" ELSE s.reported = (s.local_state = "UP")

(* What a session learns from its neighbour, and the detection time it makes  *)
(* of it, are within the limits of the configuration.                         *)
Limits ==
    {b \in [mult : Nat, idle : Nat, tx : Nat, detect : Nat, confs : SUBSET [tx : Nat \ {0}, rx : Nat \ {0}]] :
        /\ b.detect = b.mult * b.tx
        /\ b.idle <= b.tx
        /\ \A c \in b.confs : c.rx <= b.tx}
Bounded(b, s) ==
    /\ s.conf \in b.confs
    /\ s.remote_detect_mult <= b.mult
    /\ s.remote_min_tx_intv <= b.idle
    /\ s.remote_tx_intv <= b.tx
    /\ s.local_detect_time <= b.detect
    /\ s.thread_exp # None => s.thread_exp <= b.detect

Sound(b, s) == s \in Session /\ Good(s) /\ Told(s) /\ Bounded(b, s)

(* A session whose timers may be set. *)
Live(s) == s.alive /\ s.fd_in /\ s.fd_out /\ s.local_state # "ADMINDOWN"

LEMMA TxDelayLemma ==
    ASSUME NEW s \in Session, NEW k \in JitterChoices
    PROVE  TxDelay(s, k) \in Nat
<1> PICK x \in Nat : x = s.local_tx_intv
  BY DEF Session
<1>1. k \in Nat
  BY DEF JitterChoices
<1>2. x \div 10 \in Nat /\ x \div 4 \in Nat /\ x \div 4 <= x
  OBVIOUS
<1> QED BY <1>1, <1>2 DEF TxDelay, Smaller

LEMMA SenderLemma ==
    ASSUME NEW b, NEW s, Sound(b, s), NEW k \in JitterChoices, s.fd_out, s.local_state # "ADMINDOWN"
    PROVE  /\ Sound(b, SenderSchedule(s, k))
           /\ Live(s) => Live(SenderSchedule(s, k))
<1>0. s \in Session /\ Good(s) /\ Told(s) /\ Bounded(b, s)
  BY DEF Sound
<1> PICK d \in Nat : d = TxDelay(s, k)
  BY <1>0, TxDelayLemma
<1> DEFINE t == [s EXCEPT !.thread_out = d]
<1>1. SenderSchedule(s, k) = t
  BY DEF SenderSchedule
<1>2. t \in Session
  BY <1>0 DEF Session, Timer
<1>3. Good(t) /\ Told(t) /\ Bounded(b, t) /\ (Live(s) => Live(t))
  BY <1>0 DEF Session, Good, Told, None, Bounded, Live
<1> QED BY <1>1, <1>2, <1>3 DEF Sound

LEMMA EventSendLemma ==
    ASSUME NEW s \in Session
    PROVE  /\ EventSend(s) \in Session
           /\ EventSend(s).reported = (s.local_state = "UP")
<1> PICK b \in BOOLEAN : b = (s.local_state = "UP")
  BY Zenon
<1>1. EventSend(s) = [s EXCEPT !.reported = b]
  BY Zenon DEF EventSend
<1>2. [s EXCEPT !.reported = b] \in Session /\ [s EXCEPT !.reported = b].reported = b
  BY ZenonT(40) DEF Session
<1> QED BY Zenon, <1>1, <1>2

LEMMA StateFallType ==
    ASSUME NEW n, NEW s \in Session, NEW send_event, IdleTx[n] \in Nat
    PROVE  StateFall(n, s, send_event) \in Session
<1> DEFINE t == [IdleLocalTxIntv(n, s) EXCEPT !.thread_exp = None]
<1>1. t \in Session
  BY Zenon DEF IdleLocalTxIntv, Session, Larger, Timer
<1> HIDE DEF t
<1>2. EventSend(t) \in Session
  BY <1>1, EventSendLemma
<1>3. StateFall(n, s, send_event) \in {t, EventSend(t)}
  BY DEF StateFall, t
<1> QED BY <1>1, <1>2, <1>3

LEMMA DownType ==
    ASSUME NEW s \in Session, NEW d \in Int, NEW q \in BOOLEAN, NEW r \in Timer, NEW o \in Timer
    PROVE  [s EXCEPT !.local_discr = d, !.quiet = q, !.local_state = "DOWN",
                     !.thread_rst = r, !.thread_out = o] \in Session
BY Zenon DEF Session, States

LEMMA StateDownType ==
    ASSUME NEW n, NEW s \in Session, IdleTx[n] \in Nat
    PROVE  StateDown(n, s) \in Session
<1> PICK q \in BOOLEAN : q = IF s.local_state = "UP" THEN s.remote_state = "ADMINDOWN" ELSE s.quiet
  <2>1. s.quiet \in BOOLEAN
    BY DEF Session
  <2> QED BY Zenon, <2>1
<1> PICK d \in Int : d = IF s.local_state = "UP" THEN NextDiscr(s.local_discr) ELSE s.local_discr
  BY BfdAssumption DEF NextDiscr, Session
<1> PICK o \in Timer : o = IF n \in Passive THEN None ELSE s.thread_out
  BY Zenon DEF Session, Timer
<1> PICK up \in BOOLEAN : up = (s.local_state = "UP")
  BY Zenon
<1> DEFINE u == [s EXCEPT !.local_discr = d, !.quiet = q, !.local_state = "DOWN",
                          !.thread_rst = s.local_detect_time, !.thread_out = o]
<1>1. s.local_detect_time \in Timer
  BY DEF Session, Timer
<1>2. u \in Session
  <2> PICK r \in Timer : r = s.local_detect_time
    BY Zenon, <1>1
  <2>1. [s EXCEPT !.local_discr = d, !.quiet = q, !.local_state = "DOWN",
                  !.thread_rst = r, !.thread_out = o] \in Session
    BY ZenonT(60), DownType
  <2> QED BY Zenon, <2>1
<1>3. StateDown(n, s) = StateFall(n, u, up)
  BY Zenon DEF StateDown
<1> HIDE DEF u
<1>4. StateFall(n, u, up) \in Session
  BY Zenon, <1>2, StateFallType
<1> QED BY Zenon, <1>3, <1>4

(* The expiry thread clears thread_exp before the session goes Down. *)
LEMMA StateDownLemma ==
    ASSUME NEW n, NEW b, NEW s \in Session, Told(s), Bounded(b, s), IdleTx[n] \in Nat,
           Good(s) \/ (s.thread_exp = None /\ \E e \in Nat : Good([s EXCEPT !.thread_exp = e])),
           s.fd_out, s.alive
    PROVE  /\ Sound(b, StateDown(n, s))
           /\ Live(s) => Live(StateDown(n, s))
<1>1. StateDown(n, s) \in Session
  BY StateDownType
<1>2. Good(StateDown(n, s))
  BY DEF StateDown, StateFall, EventSend, IdleLocalTxIntv, Session, Good, None, Timer
<1>3. Told(StateDown(n, s))
  BY DEF StateDown, StateFall, EventSend, IdleLocalTxIntv, Session, Told
<1>4. Bounded(b, StateDown(n, s)) /\ (Live(s) => Live(StateDown(n, s)))
  BY DEF StateDown, StateFall, EventSend, IdleLocalTxIntv, Session, Bounded, Live
<1> QED BY <1>1, <1>2, <1>3, <1>4 DEF Sound

(* A session with other timers, with another poll flag, and with what a packet says. *)
LEMMA RiseType ==
    ASSUME NEW s \in Session, NEW e \in Timer, NEW r \in Timer
    PROVE  [s EXCEPT !.thread_rst = r, !.thread_exp = e] \in Session
BY Zenon DEF Session

LEMMA PollType ==
    ASSUME NEW s \in Session, NEW q \in BOOLEAN
    PROVE  [s EXCEPT !.poll = q] \in Session
BY DEF Session

LEMMA LearnType ==
    ASSUME NEW s \in Session, NEW p \in Packet
    PROVE  Learn(s, p) \in Session
<1> DEFINE d == p.local_discr  st == p.state  rx == p.min_rx  tx == p.min_tx
           dm == p.demand  m == p.mult
<1>1. d \in Int /\ st \in States /\ rx \in Nat /\ tx \in Nat /\ dm \in BOOLEAN /\ m \in Nat
  BY DEF Packet
<1> HIDE DEF d, st, rx, tx, dm, m
<1>2. ASSUME NEW q \in BOOLEAN
      PROVE  [s EXCEPT !.remote_discr = d, !.remote_state = st, !.remote_min_rx_intv = rx,
                       !.remote_min_tx_intv = tx, !.remote_demand = dm,
                       !.remote_detect_mult = m, !.poll = q] \in Session
  BY Zenon, <1>1 DEF Session
<1>3. s.poll \in BOOLEAN /\ p.final \in BOOLEAN
  BY DEF Session, Packet
<1>4. PICK q \in BOOLEAN : q = (s.poll /\ ~p.final)
  BY Zenon, <1>3
<1>5. Learn(s, p) = [s EXCEPT !.remote_discr = d, !.remote_state = st, !.remote_min_rx_intv = rx,
            !.remote_min_tx_intv = tx, !.remote_demand = dm, !.remote_detect_mult = m, !.poll = q]
  BY Zenon, <1>4 DEF Learn, d, st, rx, tx, dm, m
<1> QED BY Zenon, <1>2, <1>5

LEMMA StateRiseType ==
    ASSUME NEW s \in Session
    PROVE  StateRise(s) \in Session
<1> PICK e \in Timer : e = IF s.thread_exp = None THEN s.local_detect_time ELSE s.thread_exp
  BY DEF Session, Timer
<1>1. StateRise(s) = [s EXCEPT !.thread_rst = None, !.thread_exp = e]
  BY DEF StateRise, Session
<1>2. None \in Timer
  BY DEF Timer
<1>3. [s EXCEPT !.thread_rst = None, !.thread_exp = e] \in Session
  BY Zenon, <1>2, RiseType
<1> QED BY Zenon, <1>1, <1>3

LEMMA SetPollType ==
    ASSUME NEW s \in Session
    PROVE  SetPoll(s) \in Session
<1>0. s.poll \in BOOLEAN /\ s.final \in BOOLEAN
  BY DEF Session
<1> PICK q \in BOOLEAN : q = (s.poll \/ ~s.final)
  BY Zenon, <1>0
<1>1. SetPoll(s) = [s EXCEPT !.poll = q]
  BY Zenon DEF SetPoll
<1>2. [s EXCEPT !.poll = q] \in Session
  BY Zenon, PollType
<1> QED BY Zenon, <1>1, <1>2

LEMMA StateUpLemma ==
    ASSUME NEW n, NEW b, NEW s, Sound(b, s), Live(s)
    PROVE  Sound(b, StateUp(n, s)) /\ Live(StateUp(n, s))
<1>0. s \in Session /\ Good(s) /\ Told(s) /\ Bounded(b, s)
  BY DEF Sound
<1>1. StateUp(n, s) \in Session
  <2> DEFINE u == [s EXCEPT !.local_state = "UP", !.quiet = FALSE]
  <2>1. u \in Session
    BY Zenon, <1>0 DEF Session, States
  <2>2. StateRise(u) \in Session
    BY <2>1, StateRiseType
  <2>3. SetPoll(StateRise(u)) \in Session
    BY <2>2, SetPollType
  <2>4. StateUp(n, s) \in {EventSend(StateRise(u)), EventSend(SetPoll(StateRise(u)))}
    BY DEF StateUp
  <2> QED BY <2>2, <2>3, <2>4, EventSendLemma
<1>2. Good(StateUp(n, s)) /\ Live(StateUp(n, s))
  BY <1>0 DEF StateUp, StateRise, SetPoll, EventSend, Session, Good, Live, None, Timer
<1>3. Told(StateUp(n, s))
  BY <1>0 DEF StateUp, StateRise, SetPoll, EventSend, Session, Told
<1>4. Bounded(b, StateUp(n, s))
  BY <1>0 DEF StateUp, StateRise, SetPoll, EventSend, Session, Bounded, None, Timer
<1> QED BY <1>1, <1>2, <1>3, <1>4 DEF Sound

LEMMA StateInitLemma ==
    ASSUME NEW n, NEW b, NEW s, NEW k \in JitterChoices, Sound(b, s),
           s.fd_in, s.fd_out, s.local_state \in {"DOWN", "ADMINDOWN"}
    PROVE  Sound(b, StateInit(n, s, k)) /\ Live(StateInit(n, s, k))
<1>0. s \in Session /\ Good(s) /\ Told(s) /\ Bounded(b, s)
  BY DEF Sound
<1> DEFINE u == [s EXCEPT !.local_state = "INIT"]
           t == StateRise(u)
<1>1. t \in Session
  <2>1. u \in Session
    BY <1>0 DEF Session, States
  <2> QED BY <2>1, StateRiseType
<1>2. Good(t) /\ Live(t) /\ Told(t) /\ Bounded(b, t)
  BY <1>0 DEF StateRise, Session, Good, Live, Told, Bounded, None, Timer
<1>3. StateInit(n, s, k) \in {t, SenderSchedule(t, k)}
  BY DEF StateInit
<1> HIDE DEF t
<1>4. Sound(b, t)
  BY <1>1, <1>2 DEF Sound
<1>5. Sound(b, SenderSchedule(t, k)) /\ Live(SenderSchedule(t, k))
  BY <1>2, <1>4, SenderLemma DEF Live
<1> QED BY <1>2, <1>3, <1>4, <1>5

(* What a packet of the neighbour says is within the limits. *)
Honest(b, p) == p \in Packet /\ p.mult <= b.mult /\ p.min_tx <= b.idle

LEMMA LearnLemma ==
    ASSUME NEW b, NEW s, Sound(b, s), Live(s), NEW p, Honest(b, p)
    PROVE  Sound(b, Learn(s, p)) /\ Live(Learn(s, p))
<1>0. s \in Session /\ Good(s) /\ Told(s) /\ Bounded(b, s) /\ p \in Packet
  BY DEF Sound, Honest
<1>1. Learn(s, p) \in Session
  BY Zenon, <1>0, LearnType
<1>2. Good(Learn(s, p)) /\ Live(Learn(s, p)) /\ Told(Learn(s, p)) /\ Bounded(b, Learn(s, p))
  BY <1>0 DEF Learn, Session, Good, Live, Told, Bounded, Honest
<1> QED BY <1>1, <1>2 DEF Sound

LEMMA RenegotiateLemma ==
    ASSUME NEW n, NEW b \in Limits, NEW s, Sound(b, s), Live(s), NEW p, IdleTx[n] \in Nat
    PROVE  Sound(b, Renegotiate(n, s, p)) /\ Live(Renegotiate(n, s, p))
<1>0. s \in Session /\ Good(s) /\ Told(s) /\ Bounded(b, s)
  BY DEF Sound
<1>1. PICK x \in Nat : x = Larger(s.conf.tx, s.remote_min_rx_intv)
  BY <1>0 DEF Session, Larger
<1>2. PICK y \in Nat : y = Larger(IdleTx[n], s.remote_min_rx_intv)
  BY <1>0 DEF Session, Larger
<1>3. PICK z \in Nat : z = Larger(s.conf.rx, s.remote_min_tx_intv) /\ z <= b.tx
  <2>1. s.conf.rx \in Nat /\ s.remote_min_tx_intv \in Nat
    BY <1>0 DEF Session
  <2>2. s.conf.rx <= b.tx /\ s.remote_min_tx_intv <= b.tx /\ b.tx \in Nat /\ b.idle \in Nat
    BY <1>0, <2>1 DEF Bounded, Limits
  <2> QED BY <2>1, <2>2 DEF Larger
<1>4. \A v \in Nat : /\ Sound(b, [s EXCEPT !.local_tx_intv = v, !.remote_tx_intv = z])
                     /\ Live([s EXCEPT !.local_tx_intv = v, !.remote_tx_intv = z])
  <2> TAKE v \in Nat
  <2>1. [s EXCEPT !.local_tx_intv = v, !.remote_tx_intv = z] \in Session
    BY Zenon, <1>0 DEF Session
  <2> QED BY <1>0, <1>3, <2>1 DEF Sound, Session, Good, Live, Told, Bounded
<1>5. Renegotiate(n, s, p) \in {s, [s EXCEPT !.local_tx_intv = x, !.remote_tx_intv = z],
                                   [s EXCEPT !.local_tx_intv = y, !.remote_tx_intv = z]}
  BY Zenon, <1>0, <1>1, <1>2, <1>3
     DEF Renegotiate, UpdateRemoteTxIntv, UpdateLocalTxIntv, IdleLocalTxIntv, Session
<1> QED BY Zenon, <1>4, <1>5

(* Products of naturals are monotone. *)
LEMMA TimesMonotone ==
    ASSUME NEW x \in Nat, NEW y \in Nat, NEW u \in Nat, NEW v \in Nat, x <= u, y <= v
    PROVE  x * y \in Nat /\ x * y <= u * v
OBVIOUS

LEMMA DetectTimeLemma ==
    ASSUME NEW b \in Limits, NEW s, Sound(b, s), Live(s)
    PROVE  LET t == [s EXCEPT !.local_detect_time = s.remote_detect_mult * s.remote_tx_intv]
           IN  Sound(b, t) /\ Live(t)
<1>0. s \in Session /\ Good(s) /\ Told(s) /\ Bounded(b, s)
  BY DEF Sound
<1>1. PICK d \in Nat : d = s.remote_detect_mult * s.remote_tx_intv /\ d <= b.detect
  <2>1. s.remote_detect_mult \in Nat /\ s.remote_tx_intv \in Nat
    BY <1>0 DEF Session
  <2>2. /\ b.mult \in Nat /\ b.tx \in Nat /\ b.detect = b.mult * b.tx
        /\ s.remote_detect_mult <= b.mult /\ s.remote_tx_intv <= b.tx
    BY <1>0 DEF Limits, Bounded
  <2> QED BY <2>1, <2>2, TimesMonotone
<1> DEFINE t == [s EXCEPT !.local_detect_time = d]
<1>2. t \in Session
  BY <1>0 DEF Session
<1>3. Good(t) /\ Live(t) /\ Told(t) /\ Bounded(b, t)
  BY <1>0, <1>1 DEF Session, Good, Live, Told, Bounded
<1> QED BY <1>1, <1>2, <1>3 DEF Sound

LEMMA StateMachineLemma ==
    ASSUME NEW n, NEW b, NEW s, Sound(b, s), Live(s), NEW k \in JitterChoices, IdleTx[n] \in Nat
    PROVE  Sound(b, StateMachine(n, s, k)) /\ Live(StateMachine(n, s, k))
<1>1. Sound(b, StateDown(n, s)) /\ Live(StateDown(n, s))
  BY StateDownLemma DEF Sound, Live
<1>2. Sound(b, StateUp(n, s)) /\ Live(StateUp(n, s))
  BY StateUpLemma
<1>3. s.local_state = "DOWN" => Sound(b, StateInit(n, s, k)) /\ Live(StateInit(n, s, k))
  BY StateInitLemma DEF Live
<1> QED BY <1>1, <1>2, <1>3 DEF StateMachine

LEMMA DemandModeLemma ==
    ASSUME NEW b, NEW s, Sound(b, s), Live(s), NEW k \in JitterChoices
    PROVE  Sound(b, DemandMode(s, k)) /\ Live(DemandMode(s, k))
<1>0. s \in Session /\ Good(s) /\ Told(s) /\ Bounded(b, s)
  BY DEF Sound
<1> DEFINE t == [s EXCEPT !.thread_out = None]
<1>1. t \in Session
  BY <1>0 DEF Session, Timer
<1>2. Good(t) /\ Live(t) /\ Told(t) /\ Bounded(b, t)
  BY <1>0 DEF Session, Good, Live, Told, Bounded
<1>3. Sound(b, SenderSchedule(s, k)) /\ Live(SenderSchedule(s, k))
  BY SenderLemma DEF Live
<1>4. DemandMode(s, k) \in {t, SenderSchedule(s, k), s}
  BY DEF DemandMode
<1> QED BY <1>1, <1>2, <1>3, <1>4 DEF Sound

LEMMA RefreshLemma ==
    ASSUME NEW b, NEW s, Sound(b, s), Live(s)
    PROVE  Sound(b, Refresh(s)) /\ Live(Refresh(s))
<1>0. s \in Session /\ Good(s) /\ Told(s) /\ Bounded(b, s)
  BY DEF Sound
<1> DEFINE t == [s EXCEPT !.thread_exp = s.local_detect_time]
<1>1. t \in Session
  BY <1>0 DEF Session, Timer
<1>2. s.thread_exp # None => Good(t) /\ Live(t) /\ Told(t) /\ Bounded(b, t)
  BY <1>0 DEF Session, Good, Live, Told, Bounded, None, Timer
<1> QED BY <1>1, <1>2 DEF Sound, Refresh

LEMMA HandlePacketLemma ==
    ASSUME NEW n, NEW b \in Limits, NEW s0, Sound(b, s0), Live(s0), NEW p, Honest(b, p),
           NEW k \in JitterChoices, IdleTx[n] \in Nat
    PROVE  Sound(b, HandlePacket(n, s0, p, k)) /\ Live(HandlePacket(n, s0, p, k))
<1> DEFINE s1 == Renegotiate(n, Learn(s0, p), p)
           s2 == [s1 EXCEPT !.local_detect_time = s1.remote_detect_mult * s1.remote_tx_intv]
           s3 == IF s2.local_tx_intv < s0.local_tx_intv /\ s2.thread_out # None
                 THEN SenderSchedule(s2, k) ELSE s2
           s4 == DemandMode(StateMachine(n, s3, k), k)
           s5 == IF p.poll THEN [s4 EXCEPT !.final = TRUE, !.events = @ + 1] ELSE s4
<1>0. HandlePacket(n, s0, p, k) = Refresh(s5)
  BY Zenon DEF HandlePacket
<1>1. Sound(b, s1) /\ Live(s1)
  BY Zenon, LearnLemma, RenegotiateLemma
<1> HIDE DEF s1
<1>2. Sound(b, s2) /\ Live(s2)
  BY Zenon, <1>1, DetectTimeLemma
<1> HIDE DEF s2
<1>3. Sound(b, s3) /\ Live(s3)
  BY <1>2, SenderLemma DEF Live
<1> HIDE DEF s3
<1>4. Sound(b, s4) /\ Live(s4)
  BY Zenon, <1>3, StateMachineLemma, DemandModeLemma
<1> HIDE DEF s4
<1>5. Sound(b, s5) /\ Live(s5)
  <2> DEFINE t == [s4 EXCEPT !.final = TRUE, !.events = @ + 1]
  <2>1. s4 \in Session /\ Good(s4) /\ Told(s4) /\ Bounded(b, s4)
    BY <1>4 DEF Sound
  <2>2. t \in Session
    <3> PICK e \in Nat : e = s4.events + 1
      BY <2>1 DEF Session
    <3>1. t = [s4 EXCEPT !.final = TRUE, !.events = e]
      BY <2>1 DEF Session
    <3> QED BY Zenon, <2>1, <3>1 DEF Session
  <2>3. Good(t) /\ Live(t) /\ Told(t) /\ Bounded(b, t)
    BY <1>4, <2>1 DEF Session, Good, Live, Told, Bounded
  <2> QED BY <1>4, <2>2, <2>3 DEF Sound
<1> HIDE DEF s5
<1> QED BY Zenon, <1>0, <1>5, RefreshLemma
------------------------------------------------------------------------------
(* Start and reload.                                                          *)

(* A session between bfd_dispatcher_release() and bfd_open_fds(). *)
Closed(b, s) ==
    /\ s \in Session /\ Bounded(b, s)
    /\ s.alive /\ ~s.fd_out /\ s.events = 0 /\ s.open_timer = None
    /\ s.thread_exp # None <=> s.local_state \in {"INIT", "UP"}
    /\ s.thread_rst # None => s.local_state = "DOWN"
    /\ s.local_state = "ADMINDOWN" => s.thread_out = None
    /\ s.quiet => s.local_state # "UP"

(* And after bfd_open_fds(). *)
Opened(b, s) ==
    /\ s \in Session /\ Bounded(b, s)
    /\ s.alive /\ s.events = 0 /\ s.open_timer = None
    /\ s.thread_exp # None <=> s.local_state \in {"INIT", "UP"}
    /\ s.local_state = "ADMINDOWN" => s.thread_out = None
    /\ s.local_state # "ADMINDOWN" =>
          s.fd_out /\ s.fd_in /\ (s.thread_rst # None => s.local_state = "DOWN")
    /\ s.quiet => s.local_state # "UP"

LEMMA FdInType ==
    ASSUME NEW s \in Session, NEW f \in BOOLEAN
    PROVE  [s EXCEPT !.fd_in = f] \in Session
BY DEF Session

LEMMA AdminType ==
    ASSUME NEW s \in Session, NEW r \in Timer, NEW q \in BOOLEAN
    PROVE  [s EXCEPT !.thread_out = None, !.thread_exp = None, !.thread_rst = None,
                     !.open_timer = r, !.open_ptr = q] \in Session
BY Zenon DEF Session, Timer

LEMMA OpenFdsLemma ==
    ASSUME NEW n, NEW b, NEW s, Closed(b, s), NEW ok \in BOOLEAN, IdleTx[n] \in Nat
    PROVE  Opened(b, OpenFds(n, s, ok))
<1>0. s \in Session /\ Bounded(b, s)
  BY DEF Closed
<1> PICK f \in BOOLEAN : f = (ok \/ n \in Shared)
  BY Zenon
<1> DEFINE v == [s EXCEPT !.local_state = "ADMINDOWN", !.thread_out = None]
<1>1. v \in Session
  BY Zenon, <1>0 DEF Session, States, Timer
<1>2. StateFall(n, v, FALSE) \in Session
  BY Zenon, <1>1, StateFallType
<1>3. StateAdminDown(n, s) = StateFall(n, v, FALSE)
  BY Zenon DEF StateAdminDown
<1>4. CASE ok
  <2>1. OpenFds(n, s, ok) = [s EXCEPT !.fd_out = TRUE, !.fd_in = TRUE]
    BY Zenon, <1>4, <1>0 DEF OpenFds, Session
  <2>2. [s EXCEPT !.fd_out = TRUE, !.fd_in = TRUE] \in Session
    BY Zenon, <1>0 DEF Session
  <2> QED BY <2>1, <2>2, <1>0 DEF Closed, Opened, Session, Bounded
<1>5. CASE ~ok
  <2> DEFINE w == StateFall(n, v, FALSE)
  <2>1. OpenFds(n, s, ok) = [w EXCEPT !.fd_in = f]
    BY Zenon, <1>5, <1>3 DEF OpenFds
  <2>2. /\ w.local_state = "ADMINDOWN" /\ w.thread_out = None /\ w.thread_exp = None
        /\ w.events = s.events /\ w.open_timer = s.open_timer /\ w.alive = s.alive
        /\ Bounded(b, w)
    BY <1>0 DEF StateFall, IdleLocalTxIntv, Session, Bounded
  <2> HIDE DEF w
  <2>3. w \in Session
    BY Zenon, <1>2 DEF w
  <2>4. [w EXCEPT !.fd_in = f] \in Session
    BY Zenon, <2>3, FdInType
  <2>5. w.alive /\ w.events = 0 /\ w.open_timer = None
    BY <2>2 DEF Closed
  <2> DEFINE z == [w EXCEPT !.fd_in = f]
  <2>6. /\ z.local_state = "ADMINDOWN" /\ z.thread_out = None /\ z.thread_exp = None
        /\ z.alive /\ z.events = 0 /\ z.open_timer = None
    BY <2>2, <2>3, <2>5 DEF Session
  <2>7. Bounded(b, z)
    BY <2>2, <2>3 DEF Bounded, Session
  <2> HIDE DEF z
  <2>8. Opened(b, z)
    BY <2>4, <2>6, <2>7 DEF Opened, z
  <2> QED BY Zenon, <2>1, <2>8 DEF z
<1> QED BY <1>4, <1>5

LEMMA RegisterWorkersLemma ==
    ASSUME NEW n, NEW b, NEW s, Opened(b, s), NEW k \in JitterChoices
    PROVE  Sound(b, RegisterWorkers(n, s, k))
<1>0. s \in Session /\ Bounded(b, s) /\ s.fd_out \in BOOLEAN
  BY DEF Opened, Session
<1>1. CASE s.local_state = "ADMINDOWN"
  <2> PICK r \in Timer : r = IF s.fd_out THEN None ELSE RetryTime
    BY Zenon, BfdAssumption DEF Timer
  <2> PICK q \in BOOLEAN : q = ~s.fd_out
    BY Zenon, <1>0
  <2> DEFINE t == [s EXCEPT !.thread_out = None, !.thread_exp = None, !.thread_rst = None,
                            !.open_timer = r, !.open_ptr = q]
             u == EventSend(t)
  <2>1. RegisterWorkers(n, s, k) = u
    BY Zenon, <1>1 DEF RegisterWorkers
  <2>2. t \in Session
    BY Zenon, <1>0, AdminType
  <2>3. u \in Session
    BY Zenon, <2>2, EventSendLemma
  <2>4. Good(u)
    BY <1>0, <1>1 DEF EventSend, Session, Good, Opened, None
  <2>5. Told(u) /\ Bounded(b, u)
    BY <1>0, <1>1 DEF EventSend, Session, Told, Bounded
  <2> QED BY <2>1, <2>3, <2>4, <2>5 DEF Sound
<1>2. CASE s.local_state # "ADMINDOWN"
  <2> DEFINE sender == IF s.thread_out = None
                       THEN IF n \in Passive THEN s ELSE SenderSchedule(s, k)
                       ELSE IF n \in Passive /\ s.local_state # "UP"
                            THEN [s EXCEPT !.thread_out = None] ELSE s
  <2> PICK o \in Timer : sender = [s EXCEPT !.thread_out = o]
    <3>1. TxDelay(s, k) \in Timer /\ s.thread_out \in Timer /\ None \in Timer
      BY <1>0, TxDelayLemma DEF Session, Timer
    <3>2. s = [s EXCEPT !.thread_out = s.thread_out]
      BY <1>0 DEF Session
    <3> QED BY <3>1, <3>2 DEF SenderSchedule
  <2> PICK e \in Nat : e = IF n \notin Passive THEN s.events + 1 ELSE s.events
    BY <1>0 DEF Session
  <2> DEFINE t == [s EXCEPT !.thread_out = o, !.events = e]
             u == EventSend(t)
  <2>1. RegisterWorkers(n, s, k) = u
    <3>1. [sender EXCEPT !.events = IF n \notin Passive THEN @ + 1 ELSE @] = t
      <4> HIDE DEF sender
      <4>1. sender.events = s.events
        BY <1>0 DEF Session
      <4> QED BY <1>0, <4>1 DEF Session
    <3>2. RegisterWorkers(n, s, k) = EventSend([sender EXCEPT !.events = IF n \notin Passive THEN @ + 1 ELSE @])
      BY Zenon, <1>2 DEF RegisterWorkers
    <3> HIDE DEF sender, t
    <3> QED BY Zenon, <3>1, <3>2
  <2> HIDE DEF sender
  <2>2. t \in Session
    BY ZenonT(40), <1>0 DEF Session
  <2>3. u \in Session
    BY Zenon, <2>2, EventSendLemma
  <2>4. Good(u)
    BY <1>0, <1>2 DEF EventSend, Session, Good, Opened, None
  <2>5. Told(u) /\ Bounded(b, u)
    BY <1>0, <1>2 DEF EventSend, Session, Told, Bounded, Opened
  <2> QED BY <2>1, <2>3, <2>4, <2>5 DEF Sound
<1> QED BY <1>1, <1>2

(* A reload closes the sockets, takes over the new intervals and starts a     *)
(* poll sequence if they differ.                                              *)
LEMMA ReleaseLemma ==
    ASSUME NEW b, NEW s, Sound(b, s), s.alive, NEW c \in b.confs, c \in [tx : Nat \ {0}, rx : Nat \ {0}]
    PROVE  LET t == [Release(s) EXCEPT !.conf = c]
           IN  Closed(b, t) /\ Closed(b, SetPoll(t))
<1>0. s \in Session /\ Good(s) /\ Told(s) /\ Bounded(b, s)
  BY DEF Sound
<1> DEFINE t == [Release(s) EXCEPT !.conf = c]
<1>1. t \in Session
  <2> DEFINE r == [s EXCEPT !.open_timer = None, !.open_ptr = FALSE, !.fd_out = FALSE, !.events = 0]
             q == [r EXCEPT !.thread_out = None, !.thread_exp = None, !.thread_rst = None]
  <2>1. r \in Session
    BY ZenonT(40), <1>0 DEF Session, Timer
  <2>2. Release(s) \in {r, q}
    BY Zenon DEF Release
  <2> HIDE DEF r
  <2>3. q \in Session
    BY Zenon, <2>1 DEF Session, Timer
  <2> HIDE DEF q
  <2>4. \A x \in Session : [x EXCEPT !.conf = c] \in Session
    BY DEF Session
  <2> QED BY Zenon, <2>1, <2>2, <2>3, <2>4
<1>2. Closed(b, t)
  BY <1>0, <1>1 DEF Closed, Release, Session, Good, Told, Bounded, None
<1> HIDE DEF t
<1>3. SetPoll(t) \in Session
  BY <1>1, SetPollType
<1>4. Closed(b, SetPoll(t))
  BY <1>1, <1>2, <1>3 DEF Closed, SetPoll, Session, Bounded
<1> QED BY <1>2, <1>4 DEF t

LEMMA InitStateLemma ==
    ASSUME NEW n, NEW b \in Limits, NEW d \in Int, IdleTx[n] \in Nat,
           FirstConf[n] \in b.confs, FirstConf[n] \in [tx : Nat \ {0}, rx : Nat \ {0}]
    PROVE  /\ Closed(b, InitState(n, d))
           /\ Sound(b, [InitState(n, d) EXCEPT !.alive = FALSE])
           /\ \A r \in BOOLEAN : Sound(b, [InitState(n, d) EXCEPT !.alive = FALSE, !.reported = r])
<1> DEFINE s == InitState(n, d)
<1>1. s \in Session
  BY DEF InitState, Session, States, Timer
<1>2. Bounded(b, s)
  BY DEF InitState, Bounded, Limits
<1>3. Closed(b, s)
  BY <1>1, <1>2 DEF Closed, InitState
<1>4. ASSUME NEW r \in BOOLEAN
      PROVE  Sound(b, [s EXCEPT !.alive = FALSE, !.reported = r])
  <2> DEFINE t == [s EXCEPT !.alive = FALSE, !.reported = r]
  <2>1. t \in Session
    <3> HIDE DEF s
    <3> QED BY Zenon, <1>1 DEF Session
  <2>2. Good(t) /\ Told(t)
    BY DEF Good, Told, InitState
  <2>3. Bounded(b, t)
    <3> HIDE DEF s
    <3> QED BY <1>1, <1>2 DEF Bounded, Session
  <2> QED BY <2>1, <2>2, <2>3 DEF Sound
<1>5. Sound(b, [s EXCEPT !.alive = FALSE])
  <2> DEFINE t == [s EXCEPT !.alive = FALSE]
  <2>1. t \in Session
    <3> HIDE DEF s
    <3> QED BY Zenon, <1>1 DEF Session
  <2>2. Good(t) /\ Told(t)
    BY DEF Good, Told, InitState
  <2>3. Bounded(b, t)
    <3> HIDE DEF s
    <3> QED BY <1>1, <1>2 DEF Bounded, Session
  <2> QED BY <2>1, <2>2, <2>3 DEF Sound
<1> QED BY Zenon, <1>3, <1>4, <1>5
------------------------------------------------------------------------------
(* The system.                                                                *)

(* SlowRx and SlowTx of the configuration su. *)
RxOf(su, n) == CHOOSE x \in {c.rx : c \in su.confs[n]} : \A c \in su.confs[n] : c.rx <= x
TxOf(su, n) == Larger(CHOOSE x \in {c.tx : c \in su.confs[n]} : \A c \in su.confs[n] : c.tx <= x,
                      su.idle_tx[n])

(* The limits on what n can learn, by the configuration su. *)
LimitsOf(su, n) ==
    LET p == Peer(n)
        tx == Larger(RxOf(su, n), TxOf(su, p))
    IN  [mult |-> su.multiplier[p], idle |-> TxOf(su, p), tx |-> tx,
         detect |-> su.multiplier[p] * tx, confs |-> su.confs[n]]

(* Every packet on its way is from the neighbour's configuration, and was     *)
(* sent before the neighbour died.                                            *)
NetInv(su, C, D) ==
    /\ C \in [Nodes -> Seq(Packet)]
    /\ \A n \in Nodes : \A i \in 1 .. Len(C[n]) :
          /\ C[n][i].mult <= LimitsOf(su, n).mult
          /\ C[n][i].min_tx <= LimitsOf(su, n).idle
          /\ C[n][i].due + D[Peer(n)] <= su.delay

SesInv(su, S) ==
    /\ DOMAIN S = Nodes /\ S = [n \in Nodes |-> S[n]]
    /\ \A n \in Nodes : Sound(LimitsOf(su, n), S[n])

(* The expiry timer of n covers the time since the last packet can have come. *)
DeadInv(su, S, D) ==
    /\ D \in [Nodes -> Nat]
    /\ \A n \in Nodes :
          /\ S[n].alive => D[n] = 0
          /\ n \notin su.foreign /\ S[n].thread_exp # None
                => S[n].thread_exp + D[Peer(n)] <= LimitsOf(su, n).detect + su.delay

BfdInv == setup \in Setups /\ SesInv(setup, ses) /\ NetInv(setup, chan, dead) /\ DeadInv(setup, ses, dead)

LEMMA PeerLemma ==
    ASSUME NEW n \in Nodes
    PROVE  Peer(n) \in Nodes /\ Peer(n) # n /\ Peer(Peer(n)) = n
<1>1. IsFiniteSet(Nodes \ {n}) /\ Cardinality(Nodes \ {n}) = 1
  BY BfdAssumption, FS_RemoveElement
<1>2. PICK p : Nodes \ {n} = {p}
  BY Zenon, <1>1, FS_Singleton
<1>3. Nodes = {n, p} /\ p # n
  BY <1>2
<1>4. Peer(n) = p
  BY <1>3 DEF Peer
<1>5. Peer(p) = n
  BY <1>3 DEF Peer
<1> QED BY <1>3, <1>4, <1>5

(* There is a largest min_rx and a largest min_tx. *)
LEMMA LargestLemma ==
    ASSUME NEW su \in Setups, NEW n \in Nodes
    PROVE  /\ RxOf(su, n) \in Nat /\ \A c \in su.confs[n] : c.rx <= RxOf(su, n)
           /\ TxOf(su, n) \in Nat /\ su.idle_tx[n] <= TxOf(su, n)
           /\ \A c \in su.confs[n] : c.tx <= TxOf(su, n)
<1>1. Setup(su)
  BY BfdAssumption
<1> DEFINE C == su.confs[n]
           TopRx(x) == x \in {c.rx : c \in C} /\ \A c \in C : c.rx <= x
           TopTx(x) == x \in {c.tx : c \in C} /\ \A c \in C : c.tx <= x
<1>2. C \subseteq [tx : Nat \ {0}, rx : Nat \ {0}] /\ su.idle_tx[n] \in Nat
  BY <1>1 DEF Setup
<1>3. (\E x : TopRx(x)) /\ (\E x : TopTx(x))
  <2>1. PICK c \in C, d \in C : \A e \in C : e.rx <= c.rx /\ e.tx <= d.tx
    BY <1>1 DEF Setup
  <2>2. TopRx(c.rx) /\ TopTx(d.tx)
    BY Zenon, <2>1
  <2> QED BY Zenon, <2>2
<1>4. PICK rx : rx = RxOf(su, n)
  OBVIOUS
<1>5. PICK tx : tx = CHOOSE x \in {c.tx : c \in C} : \A c \in C : c.tx <= x
  OBVIOUS
<1>6. TopRx(rx)
  BY <1>3, <1>4 DEF RxOf
<1>7. TopTx(tx)
  BY <1>3, <1>5
<1>8. rx \in Nat /\ \A c \in C : c.rx <= rx
  BY <1>2, <1>6
<1>9. tx \in Nat /\ \A c \in C : c.tx <= tx
  BY <1>2, <1>7
<1>10. TxOf(su, n) = Larger(tx, su.idle_tx[n])
  BY Zenon, <1>5 DEF TxOf
<1>11. PICK y \in Nat : y = Larger(tx, su.idle_tx[n]) /\ tx <= y /\ su.idle_tx[n] <= y
  BY <1>2, <1>9 DEF Larger
<1>12. \A c \in C : c.tx <= y
  BY <1>2, <1>9, <1>11
<1> QED BY <1>4, <1>8, <1>10, <1>11, <1>12

LEMMA LimitsLemma ==
    ASSUME NEW su \in Setups, NEW n \in Nodes
    PROVE  /\ LimitsOf(su, n) \in Limits
           /\ LimitsOf(su, n).mult = su.multiplier[Peer(n)]
           /\ LimitsOf(su, n).idle = TxOf(su, Peer(n))
           /\ LimitsOf(su, n).confs = su.confs[n]
           /\ su.confs[n] \subseteq [tx : Nat \ {0}, rx : Nat \ {0}]
           /\ su.first[n] \in su.confs[n]
           /\ su.idle_tx[n] \in Nat /\ su.multiplier[n] \in Nat
           /\ su.delay \in Nat
<1>1. Setup(su)
  BY BfdAssumption
<1>2. /\ Peer(n) \in Nodes
      /\ su.multiplier[Peer(n)] \in Nat
      /\ su.multiplier[n] \in Nat /\ su.idle_tx[n] \in Nat
  BY <1>1, PeerLemma DEF Setup
<1>3. su.delay \in Nat
  BY <1>1 DEF Setup
<1>4. /\ su.confs[n] \subseteq [tx : Nat \ {0}, rx : Nat \ {0}]
      /\ su.first[n] \in su.confs[n]
  BY <1>1 DEF Setup
<1> DEFINE C == su.confs[n]
<1>5. PICK rx \in Nat : rx = RxOf(su, n) /\ \A c \in C : c.rx <= rx
  BY LargestLemma
<1>6. PICK slow \in Nat : slow = TxOf(su, Peer(n))
  BY <1>2, LargestLemma
<1>t. PICK tx \in Nat : tx = Larger(rx, slow) /\ rx <= tx /\ slow <= tx
  BY <1>5, <1>6 DEF Larger
<1>d. PICK d \in Nat : d = su.multiplier[Peer(n)] * tx
  BY <1>2
<1>8. LimitsOf(su, n) = [mult |-> su.multiplier[Peer(n)], idle |-> slow, tx |-> tx,
                         detect |-> d, confs |-> C]
  BY Zenon, <1>5, <1>6, <1>t, <1>d DEF LimitsOf
<1>9. \A c \in C : c.rx <= tx
  BY <1>4, <1>5, <1>t
<1>10. LimitsOf(su, n) \in Limits
  BY <1>2, <1>d, <1>t, <1>4, <1>8, <1>9 DEF Limits
<1> QED BY <1>2, <1>3, <1>4, <1>6, <1>8, <1>10

(* bfd_build_packet() *)
LEMMA BuildPacketLemma ==
    ASSUME NEW n \in Nodes, NEW s \in Session, setup \in Setups, s.conf \in setup.confs[n]
    PROVE  LET p == BuildPacket(n, s)
           IN  p \in Packet /\ p.mult = setup.multiplier[n] /\ p.min_tx <= TxOf(setup, n) /\ p.due = setup.delay
<1>0. s.poll \in BOOLEAN /\ s.final \in BOOLEAN
  BY DEF Session
<1> PICK q \in BOOLEAN : q = (s.poll /\ ~s.final)
  BY Zenon, <1>0
<1> PICK d \in BOOLEAN : d = (n \in Foreign /\ s.local_state = "UP" /\ s.remote_state = "UP")
  BY Zenon
<1>1. /\ setup.multiplier[n] \in Nat /\ setup.idle_tx[n] \in Nat /\ setup.delay \in Nat
      /\ s.conf.tx <= TxOf(setup, n) /\ setup.idle_tx[n] <= TxOf(setup, n)
  BY LimitsLemma, LargestLemma
<1>2. /\ s.local_state \in States /\ s.final \in BOOLEAN /\ s.local_discr \in Int /\ s.remote_discr \in Int
      /\ s.conf.tx \in Nat /\ s.conf.rx \in Nat
  BY DEF Session
<1> PICK x \in Nat : x = (IF s.local_state = "UP" THEN s.conf.tx ELSE setup.idle_tx[n]) /\ x <= TxOf(setup, n)
  BY <1>1, <1>2
<1> DEFINE p == [state |-> s.local_state, poll |-> q, final |-> s.final, demand |-> d,
                 mult |-> setup.multiplier[n], local_discr |-> s.local_discr, remote_discr |-> s.remote_discr,
                 min_tx |-> x, min_rx |-> s.conf.rx, due |-> setup.delay]
<1>3. BuildPacket(n, s) = p
  BY Zenon DEF BuildPacket, DetectMult, IdleTx
<1>4. p \in Packet
  BY <1>1, <1>2 DEF Packet
<1> QED BY <1>3, <1>4

LEMMA SendLemma ==
    ASSUME BfdInv, NEW n \in Nodes, NEW s \in Session, s.conf \in setup.confs[n], dead[n] = 0
    PROVE  NetInv(setup, Send(n, s), dead)
<1>0. setup \in Setups /\ NetInv(setup, chan, dead)
  BY DEF BfdInv
<1>1. PICK p : p = BuildPacket(n, s)
  OBVIOUS
<1>2. p \in Packet /\ p.mult = setup.multiplier[n] /\ p.min_tx <= TxOf(setup, n) /\ p.due = setup.delay
  BY <1>0, <1>1, BuildPacketLemma
<1>3. PICK q \in Nodes : q = Peer(n) /\ Peer(q) = n
  BY PeerLemma
<1>4. LimitsOf(setup, q).mult = setup.multiplier[n] /\ LimitsOf(setup, q).idle = TxOf(setup, n)
  BY <1>0, <1>3, LimitsLemma
<1>5. setup.delay \in Nat /\ setup.multiplier[n] \in Nat
  BY <1>0, LimitsLemma
<1>6. chan \in [Nodes -> Seq(Packet)]
  BY <1>0 DEF NetInv
<1>7. Send(n, s) = [chan EXCEPT ![q] = Append(chan[q], p)]
  BY <1>1, <1>3, <1>6 DEF Send
<1> PICK C : C = Send(n, s)
  OBVIOUS
<1>8. C \in [Nodes -> Seq(Packet)]
  BY <1>2, <1>6, <1>7
<1>9. ASSUME NEW m \in Nodes, NEW i \in 1 .. Len(C[m])
      PROVE  /\ C[m][i].mult <= LimitsOf(setup, m).mult
             /\ C[m][i].min_tx <= LimitsOf(setup, m).idle
             /\ C[m][i].due + dead[Peer(m)] <= setup.delay
  <2>1. CASE m # q
    <3>1. C[m] = chan[m]
      BY <1>6, <1>7, <2>1
    <3> QED BY <1>0, <1>9, <3>1 DEF NetInv
  <2>2. CASE m = q
    <3>1. C[m] = Append(chan[q], p) /\ chan[q] \in Seq(Packet)
      BY <1>6, <1>7, <2>2
    <3>2. CASE i = Len(chan[q]) + 1
      <4>1. C[m][i] = p
        BY <3>1, <3>2
      <4> QED BY <1>2, <1>3, <1>4, <1>5, <2>2, <4>1
    <3>3. CASE i # Len(chan[q]) + 1
      <4>1. i \in 1 .. Len(chan[q]) /\ C[m][i] = chan[q][i]
        BY <1>9, <3>1, <3>3
      <4> QED BY <1>0, <2>2, <4>1 DEF NetInv
    <3> QED BY <3>2, <3>3
  <2> QED BY <2>1, <2>2
<1> QED BY <1>8, <1>9 DEF NetInv

LEMMA TailLemma ==
    ASSUME BfdInv, NEW n \in Nodes, chan[n] # <<>>
    PROVE  /\ NetInv(setup, [chan EXCEPT ![n] = Tail(@)], dead)
           /\ Honest(LimitsOf(setup, n), Head(chan[n]))
           /\ dead[Peer(n)] <= setup.delay
<1>0. setup \in Setups /\ NetInv(setup, chan, dead) /\ DeadInv(setup, ses, dead)
  BY DEF BfdInv
<1>1. chan \in [Nodes -> Seq(Packet)] /\ chan[n] \in Seq(Packet)
  BY <1>0 DEF NetInv
<1>2. 1 \in 1 .. Len(chan[n]) /\ Head(chan[n]) = chan[n][1] /\ Head(chan[n]) \in Packet
  BY <1>1
<1>3. Honest(LimitsOf(setup, n), Head(chan[n]))
  BY <1>0, <1>2 DEF NetInv, Honest
<1>4. dead[Peer(n)] <= setup.delay
  <2>1. Head(chan[n]).due \in Nat
    BY <1>2 DEF Packet
  <2>2. Head(chan[n]).due + dead[Peer(n)] <= setup.delay
    BY <1>0, <1>2 DEF NetInv
  <2>3. dead[Peer(n)] \in Nat /\ setup.delay \in Nat
    BY <1>0, PeerLemma, LimitsLemma DEF DeadInv
  <2> QED BY <2>1, <2>2, <2>3
<1>c. PICK C : C = [chan EXCEPT ![n] = Tail(@)]
  BY Zenon
<1>5. C \in [Nodes -> Seq(Packet)]
  BY <1>1, <1>c
<1>6. ASSUME NEW m \in Nodes, NEW i \in 1 .. Len(C[m])
      PROVE  \E j \in 1 .. Len(chan[m]) : C[m][i] = chan[m][j]
  <2>1. CASE m # n
    BY <1>1, <1>6, <1>c, <2>1
  <2>2. CASE m = n
    <3>1. C[m] = Tail(chan[n])
      BY <1>1, <1>c, <2>2
    <3>2. \A t \in Seq(Packet) : t # <<>> =>
             \A j \in 1 .. Len(Tail(t)) : j + 1 \in 1 .. Len(t) /\ Tail(t)[j] = t[j + 1]
      OBVIOUS
    <3> QED BY <1>1, <1>6, <2>2, <3>1, <3>2
  <2> QED BY <2>1, <2>2
<1>7. NetInv(setup, C, dead)
  BY Zenon, <1>0, <1>5, <1>6 DEF NetInv
<1> QED BY <1>3, <1>4, <1>7, <1>c
------------------------------------------------------------------------------
(* The steps.                                                                 *)

(* A step of one node: its session stays sound, its expiry timer is only set  *)
(* when a packet came, and it is not counted dead while it is alive.          *)
LEMMA NodeStep ==
    ASSUME BfdInv, setup' = setup, NEW n \in Nodes, NEW t, Sound(LimitsOf(setup, n), t),
           ses' = [ses EXCEPT ![n] = t],
           NetInv(setup, chan', dead),
           dead' \in {dead, [dead EXCEPT ![n] = 0]},
           t.alive => dead'[n] = 0,
           t.thread_exp \in {None, ses[n].thread_exp} \/ dead[Peer(n)] <= setup.delay
    PROVE  BfdInv'
<1>0. setup \in Setups /\ SesInv(setup, ses) /\ DeadInv(setup, ses, dead)
  BY DEF BfdInv
<1>1. DOMAIN ses = Nodes /\ ses = [m \in Nodes |-> ses[m]] /\ dead \in [Nodes -> Nat]
  BY <1>0 DEF SesInv, DeadInv
<1>2. ses'[n] = t /\ \A m \in Nodes \ {n} : ses'[m] = ses[m]
  BY <1>1
<1>3. SesInv(setup, ses')
  <2>1. DOMAIN ses' = Nodes /\ ses' = [m \in Nodes |-> ses'[m]]
    BY <1>1
  <2>2. \A m \in Nodes : Sound(LimitsOf(setup, m), ses'[m])
    BY Zenon, <1>0, <1>2 DEF SesInv
  <2> QED BY Zenon, <2>1, <2>2 DEF SesInv
<1>4. dead' \in [Nodes -> Nat] /\ \A m \in Nodes : dead'[m] <= dead[m] /\ (m # n => dead'[m] = dead[m])
  BY <1>1
<1>5. NetInv(setup, chan', dead')
  <2>1. chan' \in [Nodes -> Seq(Packet)]
    BY DEF NetInv
  <2>2. ASSUME NEW m \in Nodes, NEW i \in 1 .. Len(chan'[m])
        PROVE  /\ chan'[m][i].mult <= LimitsOf(setup, m).mult
               /\ chan'[m][i].min_tx <= LimitsOf(setup, m).idle
               /\ chan'[m][i].due + dead'[Peer(m)] <= setup.delay
    <3>1. /\ chan'[m][i].mult <= LimitsOf(setup, m).mult
          /\ chan'[m][i].min_tx <= LimitsOf(setup, m).idle
          /\ chan'[m][i].due + dead[Peer(m)] <= setup.delay
      BY <2>2 DEF NetInv
    <3>2. chan'[m][i].due \in Nat
      <4>1. chan'[m] \in Seq(Packet)
        BY <2>1
      <4>2. chan'[m][i] \in Packet
        BY <2>2, <4>1
      <4> QED BY <4>2 DEF Packet
    <3>3. setup.delay \in Nat /\ Peer(m) \in Nodes
      BY <1>0, LimitsLemma, PeerLemma
    <3>4. dead'[Peer(m)] \in Nat /\ dead[Peer(m)] \in Nat /\ dead'[Peer(m)] <= dead[Peer(m)]
      BY <1>1, <1>4, <3>3
    <3> QED BY <3>1, <3>2, <3>3, <3>4
  <2> QED BY <2>1, <2>2 DEF NetInv
<1>6. DeadInv(setup, ses', dead')
  <2>1. ASSUME NEW m \in Nodes, ses'[m].alive
        PROVE  dead'[m] = 0
    <3>1. CASE m = n
      BY <1>2, <2>1, <3>1
    <3>2. CASE m # n
      BY <1>0, <1>2, <1>4, <2>1, <3>2 DEF DeadInv
    <3> QED BY <3>1, <3>2
  <2>2. ASSUME NEW m \in Nodes, m \notin setup.foreign, ses'[m].thread_exp # None
        PROVE  ses'[m].thread_exp + dead'[Peer(m)] <= LimitsOf(setup, m).detect + setup.delay
    <3>1. /\ setup.delay \in Nat /\ Peer(m) \in Nodes
          /\ LimitsOf(setup, m) \in Limits
      BY <1>0, LimitsLemma, PeerLemma
    <3>2. LimitsOf(setup, m).detect \in Nat
      BY <3>1 DEF Limits
    <3>3. dead'[Peer(m)] \in Nat /\ dead[Peer(m)] \in Nat /\ dead'[Peer(m)] <= dead[Peer(m)]
      BY <1>1, <1>4, <3>1
    <3>4. ses[m] \in Session /\ ses'[m] \in Session
      BY Zenon, <1>0, <1>3 DEF SesInv, Sound
    <3>5. ses[m].thread_exp \in Nat \union {None} /\ ses'[m].thread_exp \in Nat
      BY <2>2, <3>4 DEF Session, Timer, None
    <3>6. CASE ses'[m].thread_exp = ses[m].thread_exp
      <4>1. ses[m].thread_exp + dead[Peer(m)] <= LimitsOf(setup, m).detect + setup.delay
        BY <1>0, <2>2, <3>6 DEF DeadInv
      <4> QED BY <3>1, <3>2, <3>3, <3>5, <3>6, <4>1
    <3>7. CASE ses'[m].thread_exp # ses[m].thread_exp
      <4>1. m = n
        BY <1>2, <3>7
      <4>2. dead[Peer(m)] <= setup.delay
        BY <1>2, <2>2, <3>7, <4>1
      <4>3. ses'[m].thread_exp <= LimitsOf(setup, m).detect
        BY <1>3, <2>2 DEF SesInv, Sound, Bounded
      <4> QED BY <3>1, <3>2, <3>3, <3>5, <4>2, <4>3
    <3> QED BY <3>6, <3>7
  <2> QED BY <1>4, <2>1, <2>2 DEF DeadInv
<1> QED BY <1>0, <1>3, <1>5, <1>6 DEF BfdInv

(* What the invariant says of one node. *)
LEMMA NodeFacts ==
    ASSUME BfdInv, NEW n \in Nodes
    PROVE  /\ Sound(LimitsOf(setup, n), ses[n]) /\ ses[n] \in Session /\ Good(ses[n]) /\ Told(ses[n])
           /\ Bounded(LimitsOf(setup, n), ses[n]) /\ LimitsOf(setup, n) \in Limits
           /\ ses[n].conf \in setup.confs[n] /\ IdleTx[n] \in Nat
           /\ DOMAIN ses = Nodes /\ ses = [m \in Nodes |-> ses[m]]
           /\ NetInv(setup, chan, dead) /\ dead \in [Nodes -> Nat]
           /\ ses[n].alive => dead[n] = 0
           /\ setup \in Setups
<1>1. setup \in Setups /\ SesInv(setup, ses) /\ DeadInv(setup, ses, dead) /\ NetInv(setup, chan, dead)
  BY DEF BfdInv
<1>2. Sound(LimitsOf(setup, n), ses[n])
  BY <1>1 DEF SesInv
<1>3. ses[n] \in Session /\ Good(ses[n]) /\ Told(ses[n]) /\ Bounded(LimitsOf(setup, n), ses[n])
  BY <1>2 DEF Sound
<1>4. LimitsOf(setup, n) \in Limits /\ LimitsOf(setup, n).confs = setup.confs[n] /\ IdleTx[n] \in Nat
  BY <1>1, LimitsLemma DEF IdleTx
<1>5. ses[n].conf \in setup.confs[n]
  BY <1>3, <1>4 DEF Bounded
<1>6. DOMAIN ses = Nodes /\ ses = [m \in Nodes |-> ses[m]]
  BY <1>1 DEF SesInv
<1>7. dead \in [Nodes -> Nat] /\ (ses[n].alive => dead[n] = 0)
  BY <1>1 DEF DeadInv
<1> QED BY Zenon, <1>1, <1>2, <1>3, <1>4, <1>5, <1>6, <1>7

LEMMA SentLemma ==
    ASSUME NEW b, NEW s, Sound(b, s)
    PROVE  /\ Sound(b, Sent(s)) /\ Sent(s).thread_exp = s.thread_exp /\ Sent(s).thread_out = s.thread_out
           /\ Sent(s).fd_out = s.fd_out /\ Sent(s).local_state = s.local_state
           /\ Sent(s).events = s.events /\ Sent(s).alive = s.alive
<1>0. s \in Session /\ Good(s) /\ Told(s) /\ Bounded(b, s) /\ s.poll \in BOOLEAN /\ s.final \in BOOLEAN
  BY DEF Sound, Session
<1>a. PICK q \in BOOLEAN : q = (s.poll /\ ~s.final)
  BY Zenon, <1>0
<1> DEFINE t == [s EXCEPT !.poll = q, !.final = FALSE]
<1>1. Sent(s) = t
  BY Zenon, <1>a DEF Sent
<1>2. t \in Session
  BY Zenon, <1>0 DEF Session
<1>3. Good(t) /\ Told(t) /\ Bounded(b, t)
  BY <1>0 DEF Session, Good, Told, Bounded
<1>4. /\ t.thread_exp = s.thread_exp /\ t.thread_out = s.thread_out /\ t.fd_out = s.fd_out
      /\ t.local_state = s.local_state /\ t.events = s.events /\ t.alive = s.alive
  BY <1>0 DEF Session
<1> QED BY <1>1, <1>2, <1>3, <1>4 DEF Sound

LEMMA ScheduleFrame ==
    ASSUME NEW s \in Session, NEW k
    PROVE  SenderSchedule(s, k).thread_exp = s.thread_exp /\ SenderSchedule(s, k).alive = s.alive
BY DEF SenderSchedule, Session

LEMMA SenderThreadStep ==
    ASSUME BfdInv, setup' = setup, NEW n \in Nodes, SenderThread(n)
    PROVE  BfdInv'
<1>0. PICK b : b = LimitsOf(setup, n)
  OBVIOUS
<1>1. /\ Sound(b, ses[n]) /\ Good(ses[n]) /\ ses[n] \in Session /\ ses[n].conf \in setup.confs[n]
      /\ ses[n].alive => dead[n] = 0
  BY <1>0, NodeFacts
<1>2. ses[n].fd_out /\ ses[n].local_state # "ADMINDOWN" /\ ses[n].alive
  BY <1>1 DEF SenderThread, Good, None
<1>3. PICK k \in JitterChoices : ses' = [ses EXCEPT ![n] = SenderSchedule(Sent(ses[n]), k)]
  BY Zenon DEF SenderThread
<1> DEFINE t == SenderSchedule(Sent(ses[n]), k)
<1>4. Sound(b, Sent(ses[n])) /\ Sent(ses[n]) \in Session
  BY <1>1, SentLemma DEF Sound
<1>5. Sound(b, t) /\ t.thread_exp = ses[n].thread_exp
  BY <1>1, <1>2, <1>4, SentLemma, SenderLemma, ScheduleFrame
<1> HIDE DEF t
<1>6. chan' = Send(n, ses[n]) /\ dead' = dead
  BY DEF SenderThread, UnchangedBounds
<1>7. NetInv(setup, chan', dead)
  BY <1>1, <1>2, <1>6, SendLemma
<1>8. dead'[n] = 0
  BY <1>1, <1>2, <1>6
<1> QED BY Zenon, <1>0, <1>3, <1>5, <1>6, <1>7, <1>8, NodeStep DEF t

LEMMA SenderEventStep ==
    ASSUME BfdInv, setup' = setup, NEW n \in Nodes, SenderEvent(n)
    PROVE  BfdInv'
<1>0. PICK b : b = LimitsOf(setup, n)
  OBVIOUS
<1>1. /\ Sound(b, ses[n]) /\ Good(ses[n]) /\ ses[n] \in Session /\ ses[n].conf \in setup.confs[n]
      /\ ses[n].alive => dead[n] = 0
  BY <1>0, NodeFacts
<1>2. ses[n].events > 0 /\ ses[n].fd_out /\ ses[n].alive
  BY <1>1 DEF SenderEvent, Good
<1>3. PICK s : s = Sent(ses[n])
  OBVIOUS
<1>4. /\ Sound(b, s) /\ s \in Session /\ Good(s) /\ Told(s) /\ Bounded(b, s)
      /\ s.events > 0 /\ s.thread_exp = ses[n].thread_exp
  BY <1>1, <1>2, <1>3, SentLemma DEF Sound
<1>5. PICK e \in Nat : e = s.events - 1
  BY <1>4 DEF Session
<1> DEFINE t == [s EXCEPT !.events = e]
<1>6. t \in Session /\ t.thread_exp = ses[n].thread_exp
  BY <1>4 DEF Session
<1>7. Good(t) /\ Told(t) /\ Bounded(b, t)
  BY <1>4, <1>5 DEF Session, Good, Told, Bounded
<1>8. ses' = [ses EXCEPT ![n] = t]
  BY Zenon, <1>3, <1>5 DEF SenderEvent
<1>9. Sound(b, t)
  BY <1>6, <1>7 DEF Sound
<1> HIDE DEF t
<1>10. chan' = Send(n, ses[n]) /\ dead' = dead
  BY DEF SenderEvent, UnchangedBounds
<1>11. NetInv(setup, chan', dead)
  BY <1>1, <1>2, <1>10, SendLemma
<1>12. dead'[n] = 0
  BY <1>1, <1>2, <1>10
<1> QED BY Zenon, <1>0, <1>6, <1>8, <1>9, <1>10, <1>11, <1>12, NodeStep

LEMMA ExpireType ==
    ASSUME NEW s \in Session, NEW d \in Int
    PROVE  [s EXCEPT !.thread_exp = None, !.remote_discr = d] \in Session
BY Zenon DEF Session, Timer

LEMMA ExpireThreadStep ==
    ASSUME BfdInv, setup' = setup, NEW n \in Nodes, ExpireThread(n)
    PROVE  BfdInv'
<1>0. PICK b : b = LimitsOf(setup, n)
  OBVIOUS
<1>1. /\ ses[n] \in Session /\ Good(ses[n]) /\ Told(ses[n]) /\ Bounded(b, ses[n])
      /\ ses[n].alive => dead[n] = 0
      /\ IdleTx[n] \in Nat /\ NetInv(setup, chan, dead)
  BY <1>0, NodeFacts
<1>2. PICK s : s = ses[n]
  OBVIOUS
<1>3. s.thread_exp = 0
  BY <1>2 DEF ExpireThread
<1>4. s.fd_out /\ s.alive
  BY <1>1, <1>2, <1>3 DEF Good, None
<1> DEFINE u == [s EXCEPT !.thread_exp = None, !.remote_discr = 0]
<1>5. u \in Session /\ u.fd_out /\ u.alive /\ u.thread_exp = None
  <2>1. s \in Session
    BY <1>1, <1>2
  <2>2. u.fd_out /\ u.alive /\ u.thread_exp = None
    BY <1>1, <1>2, <1>4 DEF Session
  <2>3. 0 \in Int
    OBVIOUS
  <2> QED BY Zenon, <2>1, <2>2, <2>3, ExpireType
<1>6. Told(u) /\ Bounded(b, u)
  BY <1>1, <1>2 DEF Session, Told, Bounded
<1>7. Good([u EXCEPT !.thread_exp = 0])
  BY <1>1, <1>2, <1>3 DEF Session, Good
<1>8. ses' = [ses EXCEPT ![n] = StateDown(n, u)]
  BY Zenon, <1>2 DEF ExpireThread
<1> HIDE DEF u
<1>9. Sound(b, StateDown(n, u))
  BY <1>1, <1>5, <1>6, <1>7, StateDownLemma
<1>10. StateDown(n, u).thread_exp = None
  BY <1>5 DEF StateDown, StateFall, EventSend, IdleLocalTxIntv, Session
<1>11. chan' = chan /\ dead' = dead
  BY DEF ExpireThread, UnchangedBounds
<1>12. dead'[n] = 0
  BY <1>1, <1>2, <1>4, <1>11
<1> QED BY Zenon, <1>0, <1>1, <1>8, <1>9, <1>10, <1>11, <1>12, NodeStep

LEMMA ResetType ==
    ASSUME NEW s \in Session, NEW x \in Nat, NEW d \in Int
    PROVE  [s EXCEPT !.thread_rst = None, !.local_state = "DOWN", !.remote_state = "DOWN",
                     !.remote_discr = d, !.remote_demand = FALSE, !.poll = FALSE, !.final = FALSE,
                     !.local_tx_intv = x] \in Session
<1> DEFINE t == [s EXCEPT !.thread_rst = None, !.local_state = "DOWN", !.remote_state = "DOWN"]
<1>1. t \in Session
  BY Zenon DEF Session, States, Timer
<1> HIDE DEF t
<1>2. [t EXCEPT !.remote_discr = d, !.remote_demand = FALSE, !.poll = FALSE, !.final = FALSE,
                !.local_tx_intv = x] \in Session
  BY Zenon, <1>1 DEF Session
<1> QED BY Zenon, <1>2 DEF t

LEMMA ResetThreadStep ==
    ASSUME BfdInv, setup' = setup, NEW n \in Nodes, ResetThread(n)
    PROVE  BfdInv'
<1>0. PICK b : b = LimitsOf(setup, n)
  OBVIOUS
<1>1. /\ ses[n] \in Session /\ Good(ses[n]) /\ Told(ses[n]) /\ Bounded(b, ses[n])
      /\ ses[n].alive => dead[n] = 0
      /\ IdleTx[n] \in Nat /\ NetInv(setup, chan, dead)
  BY <1>0, NodeFacts
<1>2. PICK s : s = ses[n]
  OBVIOUS
<1>3. s.thread_rst = 0 /\ s.local_state = "DOWN"
  BY <1>1, <1>2 DEF ResetThread, Good, None
<1>4. PICK x \in Nat : x = Larger(IdleTx[n], s.remote_min_rx_intv)
  BY <1>1, <1>2 DEF Session, Larger
<1> DEFINE t == [s EXCEPT !.thread_rst = None, !.local_state = "DOWN", !.remote_state = "DOWN",
                          !.remote_discr = 0, !.remote_demand = FALSE, !.poll = FALSE, !.final = FALSE,
                          !.local_tx_intv = x]
<1>5. ResetState(n, [s EXCEPT !.thread_rst = None]) = t
  BY <1>1, <1>2, <1>4 DEF ResetState, IdleLocalTxIntv, Session
<1>6. t \in Session
  <2>1. s \in Session
    BY <1>1, <1>2
  <2>2. 0 \in Int
    OBVIOUS
  <2> QED BY Zenon, <2>1, <2>2, ResetType
<1>7. Good(t) /\ Told(t) /\ Bounded(b, t) /\ t.thread_exp = s.thread_exp /\ t.alive = s.alive
  BY <1>1, <1>2, <1>3 DEF Session, Good, Told, Bounded
<1> HIDE DEF t
<1>8. ses' = [ses EXCEPT ![n] = t]
  BY Zenon, <1>2, <1>5 DEF ResetThread
<1>9. Sound(b, t)
  BY <1>6, <1>7 DEF Sound
<1>10. chan' = chan /\ dead' = dead
  BY DEF ResetThread, UnchangedBounds
<1>11. t.alive => dead'[n] = 0
  BY <1>1, <1>2, <1>7, <1>10
<1> QED BY Zenon, <1>0, <1>1, <1>2, <1>7, <1>8, <1>9, <1>10, <1>11, NodeStep

LEMMA OpenFdOutThreadStep ==
    ASSUME BfdInv, setup' = setup, NEW n \in Nodes, OpenFdOutThread(n)
    PROVE  BfdInv'
<1>0. PICK b : b = LimitsOf(setup, n)
  OBVIOUS
<1>1. PICK s : s = ses[n]
  OBVIOUS
<1>2. /\ s \in Session /\ Good(s) /\ Told(s) /\ Bounded(b, s) /\ Sound(b, s)
      /\ s.alive => dead[n] = 0
      /\ NetInv(setup, chan, dead)
  BY <1>0, <1>1, NodeFacts
<1>3. s.open_timer = 0
  BY <1>1 DEF OpenFdOutThread
<1>4. s.alive /\ ~s.fd_out /\ s.local_state = "ADMINDOWN" /\ s.thread_exp = None
  BY <1>2, <1>3 DEF Good, None
<1> DEFINE u == [s EXCEPT !.fd_out = TRUE, !.local_state = "DOWN", !.open_timer = None]
           v == [s EXCEPT !.open_timer = RetryTime]
<1>5. u \in Session /\ v \in Session
  BY Zenon, <1>2, BfdAssumption DEF Session, Timer, States
<1>6. Good(u) /\ Told(u) /\ Bounded(b, u) /\ u.thread_exp = None /\ u.fd_out /\ u.local_state = "DOWN"
  BY <1>2, <1>4 DEF Session, Good, Told, Bounded
<1>7. Good(v) /\ Told(v) /\ Bounded(b, v) /\ v.thread_exp = None
  BY <1>2, <1>4, BfdAssumption DEF Session, Good, Told, Bounded
<1>8. PICK ok \in BOOLEAN, k \in JitterChoices :
         ses' = [ses EXCEPT ![n] = IF ~ok THEN v ELSE IF n \in Passive THEN u ELSE SenderSchedule(u, k)]
  BY Zenon, <1>1 DEF OpenFdOutThread
<1> HIDE DEF u, v
<1>9. Sound(b, u) /\ Sound(b, v)
  BY <1>5, <1>6, <1>7 DEF Sound
<1>10. Sound(b, SenderSchedule(u, k)) /\ SenderSchedule(u, k).thread_exp = None
  <2>1. u.local_state # "ADMINDOWN"
    BY <1>6
  <2> QED BY <1>5, <1>6, <1>9, <2>1, SenderLemma, ScheduleFrame
<1>11. PICK t : t = IF ~ok THEN v ELSE IF n \in Passive THEN u ELSE SenderSchedule(u, k)
  OBVIOUS
<1>12. Sound(b, t) /\ t.thread_exp = None
  BY Zenon, <1>6, <1>7, <1>9, <1>10, <1>11
<1>13. chan' = chan /\ dead' = dead
  BY DEF OpenFdOutThread
<1>14. dead'[n] = 0
  BY <1>2, <1>4, <1>13
<1> QED BY Zenon, <1>0, <1>2, <1>8, <1>11, <1>12, <1>13, <1>14, NodeStep

LEMMA SameSession ==
    ASSUME BfdInv, NEW n \in Nodes
    PROVE  ses = [ses EXCEPT ![n] = ses[n]]
<1>1. DOMAIN ses = Nodes /\ ses = [m \in Nodes |-> ses[m]]
  BY NodeFacts
<1> QED BY <1>1

LEMMA LoseStep ==
    ASSUME BfdInv, setup' = setup, NEW n \in Nodes, Lose(n)
    PROVE  BfdInv'
<1>1. ses' = ses /\ dead' = dead /\ chan' = [chan EXCEPT ![n] = Tail(@)] /\ chan[n] # <<>>
  BY DEF Lose
<1>2. Sound(LimitsOf(setup, n), ses[n]) /\ (ses[n].alive => dead[n] = 0)
  BY NodeFacts
<1>3. NetInv(setup, chan', dead)
  BY Zenon, <1>1, TailLemma
<1>4. ses' = [ses EXCEPT ![n] = ses[n]]
  BY Zenon, <1>1, SameSession
<1> QED BY Zenon, <1>1, <1>2, <1>3, <1>4, NodeStep

LEMMA ReceiveStep ==
    ASSUME BfdInv, setup' = setup, NEW n \in Nodes, Receive(n)
    PROVE  BfdInv'
<1>0. PICK b : b = LimitsOf(setup, n)
  OBVIOUS
<1>1. PICK s : s = ses[n]
  OBVIOUS
<1>2. /\ s \in Session /\ Good(s) /\ Told(s) /\ Bounded(b, s) /\ Sound(b, s) /\ b \in Limits
      /\ s.alive => dead[n] = 0
      /\ IdleTx[n] \in Nat
  BY <1>0, <1>1, NodeFacts
<1>3. PICK p : p = Head(chan[n])
  OBVIOUS
<1>4. dead' = dead /\ chan' = [chan EXCEPT ![n] = Tail(@)] /\ chan[n] # <<>>
  BY DEF Receive
<1>5. NetInv(setup, chan', dead) /\ Honest(b, p) /\ dead[Peer(n)] <= setup.delay
  BY Zenon, <1>0, <1>3, <1>4, TailLemma
<1>6. CASE ses' = ses
  <2>1. ses' = [ses EXCEPT ![n] = ses[n]]
    BY Zenon, <1>6, SameSession
  <2> QED BY Zenon, <1>0, <1>1, <1>2, <1>4, <1>5, <2>1, NodeStep
<1>7. CASE s.fd_in /\ s.local_state # "ADMINDOWN"
           /\ \E k \in JitterChoices : ses' = [ses EXCEPT ![n] = HandlePacket(n, s, p, k)]
  <2>1. PICK k \in JitterChoices : ses' = [ses EXCEPT ![n] = HandlePacket(n, s, p, k)]
    BY Zenon, <1>7
  <2>2. Live(s)
    BY <1>2, <1>7 DEF Live, Good
  <2>3. Sound(b, HandlePacket(n, s, p, k))
    BY <1>2, <1>5, <2>2, HandlePacketLemma
  <2>4. dead'[n] = 0
    BY <1>2, <1>4, <2>2 DEF Live
  <2> QED BY Zenon, <1>0, <1>4, <1>5, <2>1, <2>3, <2>4, NodeStep
<1>8. CASE s.fd_in /\ s.local_state = "ADMINDOWN"
           /\ \E k \in JitterChoices : ses' = [ses EXCEPT ![n] =
                 HandlePacket(n, StateInit(n, [s EXCEPT !.fd_out = TRUE, !.open_timer = None,
                                                        !.open_ptr = FALSE], k), p, k)]
  <2> DEFINE u == [s EXCEPT !.fd_out = TRUE, !.open_timer = None, !.open_ptr = FALSE]
  <2>1. PICK k \in JitterChoices : ses' = [ses EXCEPT ![n] = HandlePacket(n, StateInit(n, u, k), p, k)]
    BY Zenon, <1>8
  <2>2. s.alive
    BY <1>2, <1>8 DEF Good
  <2>3. u \in Session
    BY ZenonT(40), <1>2 DEF Session, Timer
  <2>4. Good(u) /\ Told(u) /\ Bounded(b, u) /\ u.fd_in /\ u.fd_out /\ u.local_state = "ADMINDOWN"
    BY <1>2, <1>8, <2>2 DEF Session, Good, Told, Bounded
  <2> HIDE DEF u
  <2>5. Sound(b, u)
    BY <2>3, <2>4 DEF Sound
  <2>6. Sound(b, StateInit(n, u, k)) /\ Live(StateInit(n, u, k))
    BY <2>4, <2>5, StateInitLemma
  <2>7. Sound(b, HandlePacket(n, StateInit(n, u, k), p, k))
    BY <1>2, <1>5, <2>6, HandlePacketLemma
  <2>8. dead'[n] = 0
    BY <1>2, <1>4, <2>2
  <2> QED BY Zenon, <1>0, <1>4, <1>5, <2>1, <2>7, <2>8, NodeStep
<1>9. \/ ses' = ses
      \/ s.fd_in /\ s.local_state # "ADMINDOWN"
           /\ \E k \in JitterChoices : ses' = [ses EXCEPT ![n] = HandlePacket(n, s, p, k)]
      \/ s.fd_in /\ s.local_state = "ADMINDOWN"
           /\ \E k \in JitterChoices : ses' = [ses EXCEPT ![n] =
                 HandlePacket(n, StateInit(n, [s EXCEPT !.fd_out = TRUE, !.open_timer = None,
                                                        !.open_ptr = FALSE], k), p, k)]
  BY Zenon, <1>1, <1>3 DEF Receive
<1> QED BY Zenon, <1>6, <1>7, <1>8, <1>9

LEMMA OpenFdsExp ==
    ASSUME NEW n, NEW s \in Session, NEW ok \in BOOLEAN
    PROVE  OpenFds(n, s, ok).thread_exp \in {None, s.thread_exp}
BY DEF OpenFds, StateAdminDown, StateFall, IdleLocalTxIntv, EventSend, Session

LEMMA RegisterExp ==
    ASSUME NEW n, NEW s \in Session, NEW k \in JitterChoices
    PROVE  RegisterWorkers(n, s, k).thread_exp \in {None, s.thread_exp}
BY DEF RegisterWorkers, SenderSchedule, EventSend, Session

LEMMA StartStep ==
    ASSUME BfdInv, setup' = setup, NEW n \in Nodes, Start(n)
    PROVE  BfdInv'
<1>0. PICK b : b = LimitsOf(setup, n)
  OBVIOUS
<1>1. /\ ses[n] \in Session /\ b \in Limits /\ IdleTx[n] \in Nat /\ setup \in Setups
      /\ NetInv(setup, chan, dead) /\ dead \in [Nodes -> Nat]
  BY <1>0, NodeFacts
<1>2. FirstConf[n] \in b.confs /\ FirstConf[n] \in [tx : Nat \ {0}, rx : Nat \ {0}]
  BY <1>0, <1>1, LimitsLemma DEF FirstConf
<1>3. PICK d \in Int : d = NextDiscr(ses[n].local_discr)
  BY <1>1, BfdAssumption DEF Session, NextDiscr
<1>4. PICK ok \in BOOLEAN, k \in JitterChoices :
         ses' = [ses EXCEPT ![n] = RegisterWorkers(n, OpenFds(n, InitState(n, d), ok), k)]
  BY Zenon, <1>3 DEF Start
<1>5. Closed(b, InitState(n, d))
  BY Zenon, <1>1, <1>2, InitStateLemma
<1>6. InitState(n, d).thread_exp = None
  BY DEF InitState
<1>7. Opened(b, OpenFds(n, InitState(n, d), ok)) /\ InitState(n, d) \in Session
  BY <1>1, <1>5, OpenFdsLemma DEF Closed
<1>8. PICK u : u = OpenFds(n, InitState(n, d), ok)
  OBVIOUS
<1>9. u.thread_exp = None /\ Opened(b, u) /\ u \in Session
  BY <1>6, <1>7, <1>8, OpenFdsExp DEF Opened
<1>10. Sound(b, RegisterWorkers(n, u, k)) /\ RegisterWorkers(n, u, k).thread_exp = None
  BY <1>9, RegisterWorkersLemma, RegisterExp
<1>11. chan' = chan /\ dead' = [dead EXCEPT ![n] = 0] /\ dead'[n] = 0
  BY <1>1 DEF Start
<1> QED BY Zenon, <1>0, <1>1, <1>4, <1>8, <1>10, <1>11, NodeStep

LEMMA ReloadStep ==
    ASSUME BfdInv, setup' = setup, NEW n \in Nodes, Reload(n)
    PROVE  BfdInv'
<1>0. PICK b : b = LimitsOf(setup, n)
  OBVIOUS
<1>1. /\ ses[n] \in Session /\ b \in Limits /\ IdleTx[n] \in Nat /\ setup \in Setups
      /\ NetInv(setup, chan, dead) /\ Sound(b, ses[n]) /\ (ses[n].alive => dead[n] = 0)
  BY <1>0, NodeFacts
<1>2. ses[n].alive
  BY DEF Reload
<1>3. PICK c \in setup.confs[n], ok \in BOOLEAN, k \in JitterChoices :
         LET s == [Release(ses[n]) EXCEPT !.conf = c]
             t == IF c # ses[n].conf THEN SetPoll(s) ELSE s
         IN  ses' = [ses EXCEPT ![n] = RegisterWorkers(n, OpenFds(n, t, ok), k)]
  BY Zenon DEF Reload, Confs
<1>4. c \in b.confs /\ c \in [tx : Nat \ {0}, rx : Nat \ {0}]
  BY <1>0, <1>1, LimitsLemma
<1> DEFINE s == [Release(ses[n]) EXCEPT !.conf = c]
<1>5. PICK t : t = IF c # ses[n].conf THEN SetPoll(s) ELSE s
  OBVIOUS
<1>6. Closed(b, s) /\ Closed(b, SetPoll(s))
  BY Zenon, <1>1, <1>2, <1>4, ReleaseLemma
<1>7. s.thread_exp \in {None, ses[n].thread_exp} /\ SetPoll(s).thread_exp = s.thread_exp
  BY <1>1 DEF Release, SetPoll, Session
<1>8. ses' = [ses EXCEPT ![n] = RegisterWorkers(n, OpenFds(n, t, ok), k)]
  BY Zenon, <1>3, <1>5
<1> HIDE DEF s
<1>9. Closed(b, t) /\ t.thread_exp \in {None, ses[n].thread_exp} /\ t \in Session
  BY <1>5, <1>6, <1>7 DEF Closed
<1>10. PICK u : u = OpenFds(n, t, ok)
  OBVIOUS
<1>11. Opened(b, u) /\ u.thread_exp \in {None, ses[n].thread_exp} /\ u \in Session
  <2>1. Opened(b, u)
    BY Zenon, <1>1, <1>9, <1>10, OpenFdsLemma
  <2>2. u.thread_exp \in {None, t.thread_exp}
    BY Zenon, <1>9, <1>10, OpenFdsExp
  <2> QED BY <1>9, <2>1, <2>2 DEF Opened
<1>12. Sound(b, RegisterWorkers(n, u, k)) /\ RegisterWorkers(n, u, k).thread_exp \in {None, ses[n].thread_exp}
  BY <1>11, RegisterWorkersLemma, RegisterExp
<1>13. chan' = chan /\ dead' = dead
  BY DEF Reload
<1>14. dead'[n] = 0
  BY <1>1, <1>2, <1>13
<1> QED BY Zenon, <1>0, <1>1, <1>8, <1>10, <1>12, <1>13, <1>14, NodeStep

LEMMA GoneLemma ==
    ASSUME BfdInv, NEW n \in Nodes
    PROVE  Sound(LimitsOf(setup, n), Gone(n)) /\ Gone(n).thread_exp = None /\ ~Gone(n).alive
<1>0. PICK b : b = LimitsOf(setup, n)
  OBVIOUS
<1>1. /\ b \in Limits /\ IdleTx[n] \in Nat /\ setup \in Setups
      /\ ses[n].reported \in BOOLEAN /\ ses[n].local_discr \in Int
  BY <1>0, NodeFacts DEF Session
<1>2. FirstConf[n] \in b.confs /\ FirstConf[n] \in [tx : Nat \ {0}, rx : Nat \ {0}]
  BY <1>0, <1>1, LimitsLemma DEF FirstConf
<1>3. Sound(b, Gone(n))
  BY Zenon, <1>1, <1>2, InitStateLemma DEF Gone
<1>4. Gone(n).thread_exp = None /\ ~Gone(n).alive
  BY DEF Gone, InitState
<1> QED BY <1>0, <1>3, <1>4

LEMMA CrashStep ==
    ASSUME BfdInv, setup' = setup, NEW n \in Nodes, Crash(n)
    PROVE  BfdInv'
<1>1. ses' = [ses EXCEPT ![n] = Gone(n)] /\ chan' = chan /\ dead' = dead
  BY DEF Crash
<1>2. NetInv(setup, chan, dead)
  BY NodeFacts
<1> QED BY Zenon, <1>1, <1>2, GoneLemma, NodeStep

LEMMA ForeignAdminDownStep ==
    ASSUME BfdInv, setup' = setup, NEW n \in Nodes, ForeignAdminDown(n)
    PROVE  BfdInv'
<1>1. /\ ses' = [ses EXCEPT ![n] = Gone(n)] /\ dead' = dead /\ ses[n].alive
      /\ chan' = Send(n, [ses[n] EXCEPT !.local_state = "ADMINDOWN"])
  BY DEF ForeignAdminDown
<1>2. dead[n] = 0 /\ ses[n] \in Session /\ ses[n].conf \in setup.confs[n]
  BY <1>1, NodeFacts
<1> DEFINE s == [ses[n] EXCEPT !.local_state = "ADMINDOWN"]
<1>3. s \in Session /\ s.conf = ses[n].conf
  BY <1>2 DEF Session, States
<1> HIDE DEF s
<1>4. NetInv(setup, chan', dead)
  BY Zenon, <1>1, <1>2, <1>3, SendLemma DEF s
<1> QED BY Zenon, <1>1, <1>4, GoneLemma, NodeStep

(* One tick of a timer. *)
Less(t) == IF t = None THEN t ELSE t - 1

LEMMA LessLemma ==
    ASSUME NEW t \in Timer, t # 0
    PROVE  Less(t) \in Timer /\ (Less(t) = None <=> t = None) /\ (t # None => Less(t) = t - 1)
BY DEF Timer, None, Less

LEMMA TickType ==
    ASSUME NEW s \in Session, NEW o \in Timer, NEW r \in Timer, NEW f \in Timer, NEW e \in Timer
    PROVE  [s EXCEPT !.thread_out = o, !.thread_rst = r, !.open_timer = f, !.thread_exp = e] \in Session
BY Zenon DEF Session

LEMMA TickSession ==
    ASSUME NEW b \in Limits, NEW s, Sound(b, s),
           s.thread_out # 0, s.thread_rst # 0, s.open_timer # 0, s.thread_exp # 0,
           NEW e \in {s.thread_exp, Less(s.thread_exp)}
    PROVE  LET t == [s EXCEPT !.thread_out = Less(s.thread_out), !.thread_rst = Less(s.thread_rst),
                              !.open_timer = Less(s.open_timer), !.thread_exp = e]
           IN  Sound(b, t) /\ t.alive = s.alive /\ t.thread_exp = e
<1>0. s \in Session /\ Good(s) /\ Told(s) /\ Bounded(b, s) /\ b.detect \in Nat
  BY DEF Sound, Limits
<1>1. s.thread_out \in Timer /\ s.thread_rst \in Timer /\ s.open_timer \in Timer /\ s.thread_exp \in Timer
  BY <1>0 DEF Session
<1>2. PICK o \in Timer : o = Less(s.thread_out) /\ (o = None <=> s.thread_out = None)
  BY <1>1, LessLemma
<1>3. PICK r \in Timer : r = Less(s.thread_rst) /\ (r = None <=> s.thread_rst = None)
  BY <1>1, LessLemma
<1>4. PICK f \in Timer : f = Less(s.open_timer) /\ (f = None <=> s.open_timer = None)
  BY <1>1, LessLemma
<1>5. /\ e \in Timer /\ (e = None <=> s.thread_exp = None)
      /\ s.thread_exp # None => e <= s.thread_exp
  BY <1>1, LessLemma DEF Timer, None
<1> DEFINE t == [s EXCEPT !.thread_out = o, !.thread_rst = r, !.open_timer = f, !.thread_exp = e]
<1>6. t \in Session
  BY Zenon, <1>0, <1>5, TickType
<1>7. /\ t.thread_out = o /\ t.thread_rst = r /\ t.open_timer = f /\ t.thread_exp = e
      /\ t.alive = s.alive /\ t.conf = s.conf /\ t.local_state = s.local_state /\ t.events = s.events
      /\ t.remote_detect_mult = s.remote_detect_mult /\ t.remote_min_tx_intv = s.remote_min_tx_intv
      /\ t.remote_tx_intv = s.remote_tx_intv /\ t.local_detect_time = s.local_detect_time
      /\ t.fd_out = s.fd_out /\ t.fd_in = s.fd_in /\ t.reported = s.reported /\ t.quiet = s.quiet
  BY <1>0 DEF Session
<1> HIDE DEF t
<1>8. Good(t)
  BY Zenon, <1>0, <1>2, <1>3, <1>4, <1>5, <1>7 DEF Good
<1>9. Told(t)
  BY Zenon, <1>0, <1>7 DEF Told
<1>10. Bounded(b, t)
  BY <1>0, <1>1, <1>5, <1>7 DEF Bounded, Timer, None
<1>11. Sound(b, t) /\ t.alive = s.alive /\ t.thread_exp = e
  BY <1>6, <1>7, <1>8, <1>9, <1>10 DEF Sound
<1> QED BY Zenon, <1>2, <1>3, <1>4, <1>11 DEF t

LEMMA TickStep ==
    ASSUME BfdInv, setup' = setup, Tick
    PROVE  BfdInv'
<1>0. setup \in Setups /\ SesInv(setup, ses) /\ DeadInv(setup, ses, dead) /\ NetInv(setup, chan, dead)
  BY DEF BfdInv
<1>1. ASSUME NEW n \in Nodes
      PROVE  /\ Sound(LimitsOf(setup, n), ses'[n])
             /\ ses'[n].alive = ses[n].alive
             /\ ses'[n].thread_exp \in {ses[n].thread_exp, Less(ses[n].thread_exp)}
             /\ n \notin setup.foreign => ses'[n].thread_exp = Less(ses[n].thread_exp)
             /\ ses[n].thread_exp # 0
  <2>1. /\ ses[n].thread_out # 0 /\ ses[n].thread_rst # 0 /\ ses[n].open_timer # 0 /\ ses[n].thread_exp # 0
    BY Zenon DEF Tick
  <2>2. PICK e \in {ses[n].thread_exp, Less(ses[n].thread_exp)} :
             /\ ses'[n] = [ses[n] EXCEPT !.thread_out = Less(ses[n].thread_out),
                                         !.thread_rst = Less(ses[n].thread_rst),
                                         !.open_timer = Less(ses[n].open_timer), !.thread_exp = e]
             /\ n \notin setup.foreign => e = Less(ses[n].thread_exp)
    <3> DEFINE e == IF DemandActive(n) THEN ses[n].thread_exp ELSE Less(ses[n].thread_exp)
    <3>1. ses'[n] = [ses[n] EXCEPT !.thread_out = Less(ses[n].thread_out),
                                   !.thread_rst = Less(ses[n].thread_rst),
                                   !.open_timer = Less(ses[n].open_timer), !.thread_exp = e]
      BY Zenon DEF Tick, Less
    <3>2. e \in {ses[n].thread_exp, Less(ses[n].thread_exp)}
      BY Zenon
    <3>3. n \notin setup.foreign => e = Less(ses[n].thread_exp)
      BY Zenon DEF DemandActive, Foreign
    <3> QED BY Zenon, <3>1, <3>2, <3>3
  <2>3. Sound(LimitsOf(setup, n), ses[n]) /\ LimitsOf(setup, n) \in Limits
    BY NodeFacts
  <2>4. Sound(LimitsOf(setup, n), ses'[n]) /\ ses'[n].alive = ses[n].alive /\ ses'[n].thread_exp = e
    <3> DEFINE T(s, x) == [s EXCEPT !.thread_out = Less(s.thread_out), !.thread_rst = Less(s.thread_rst),
                                    !.open_timer = Less(s.open_timer), !.thread_exp = x]
    <3>1. /\ Sound(LimitsOf(setup, n), T(ses[n], e)) /\ T(ses[n], e).alive = ses[n].alive
          /\ T(ses[n], e).thread_exp = e
      BY Zenon, <2>1, <2>3, TickSession
    <3>2. ses'[n] = T(ses[n], e)
      BY Zenon, <2>2
    <3> HIDE DEF T
    <3> QED BY Zenon, <3>1, <3>2
  <2>5. e \in {ses[n].thread_exp, Less(ses[n].thread_exp)} /\ (n \notin setup.foreign => e = Less(ses[n].thread_exp))
    BY Zenon, <2>2
  <2> QED BY Zenon, <2>1, <2>4, <2>5
<1>2. SesInv(setup, ses')
  <2>1. DOMAIN ses' = Nodes /\ ses' = [n \in Nodes |-> ses'[n]]
    BY Zenon DEF Tick
  <2> QED BY Zenon, <1>1, <2>1 DEF SesInv
<1>3. /\ dead \in [Nodes -> Nat] /\ dead' \in [Nodes -> Nat]
      /\ \A n \in Nodes : dead'[n] <= dead[n] + 1 /\ (ses[n].alive => dead'[n] = 0)
  <2>1. dead \in [Nodes -> Nat]
    BY <1>0 DEF DeadInv
  <2>2. dead' = [n \in Nodes |-> IF ses[n].alive THEN 0 ELSE dead[n] + 1]
    BY Zenon DEF Tick
  <2> QED BY <2>1, <2>2
<1>4. NetInv(setup, chan', dead')
  <2>1. chan \in [Nodes -> Seq(Packet)]
    BY <1>0 DEF NetInv
  <2>2. chan' = [n \in Nodes |-> [i \in 1 .. Len(chan[n]) |-> [chan[n][i] EXCEPT !.due = @ - 1]]]
    BY Zenon DEF Tick
  <2>3. ASSUME NEW n \in Nodes, NEW i \in 1 .. Len(chan[n])
        PROVE  /\ chan'[n][i] \in Packet
               /\ chan'[n][i].mult <= LimitsOf(setup, n).mult
               /\ chan'[n][i].min_tx <= LimitsOf(setup, n).idle
               /\ chan'[n][i].due + dead'[Peer(n)] <= setup.delay
    <3>1. PICK p \in Packet : p = chan[n][i]
      <4>1. chan[n] \in Seq(Packet)
        BY <2>1
      <4> QED BY <2>3, <4>1
    <3>2. /\ p.mult <= LimitsOf(setup, n).mult /\ p.min_tx <= LimitsOf(setup, n).idle
          /\ p.due + dead[Peer(n)] <= setup.delay
      BY <1>0, <2>3, <3>1 DEF NetInv
    <3>3. p.due > 0
      BY Zenon, <2>3, <3>1 DEF Tick
    <3>4. PICK d \in Nat : d = p.due - 1 /\ p.due \in Nat
      BY <3>3 DEF Packet
    <3>5. chan'[n][i] = [p EXCEPT !.due = d]
      BY <2>2, <2>3, <3>1, <3>4
    <3>6. [p EXCEPT !.due = d] \in Packet
      BY DEF Packet
    <3>7. chan'[n][i].mult = p.mult /\ chan'[n][i].min_tx = p.min_tx /\ chan'[n][i].due = d
      BY <3>5 DEF Packet
    <3>8. setup.delay \in Nat /\ Peer(n) \in Nodes
      BY <1>0, LimitsLemma, PeerLemma
    <3>9. dead[Peer(n)] \in Nat /\ dead'[Peer(n)] \in Nat /\ dead'[Peer(n)] <= dead[Peer(n)] + 1
      BY <1>3, <3>8
    <3>10. chan'[n][i].due + dead'[Peer(n)] <= setup.delay
      BY <3>2, <3>4, <3>7, <3>8, <3>9
    <3> QED BY <3>2, <3>5, <3>6, <3>7, <3>10
  <2>4. ASSUME NEW n \in Nodes
        PROVE  Len(chan[n]) \in Nat /\ chan'[n] \in Seq(Packet) /\ Len(chan'[n]) = Len(chan[n])
    <3>1. Len(chan[n]) \in Nat
      BY <2>1
    <3>2. chan'[n] = [i \in 1 .. Len(chan[n]) |-> chan'[n][i]]
      BY <2>2
    <3>3. chan'[n] \in [1 .. Len(chan[n]) -> Packet]
      BY Zenon, <2>3, <3>2
    <3> QED BY <3>1, <3>3
  <2>5. chan' \in [Nodes -> Seq(Packet)]
    BY <2>2, <2>4
  <2> QED BY <2>3, <2>4, <2>5 DEF NetInv
<1>5. DeadInv(setup, ses', dead')
  <2>1. ASSUME NEW n \in Nodes, n \notin setup.foreign, ses'[n].thread_exp # None
        PROVE  ses'[n].thread_exp + dead'[Peer(n)] <= LimitsOf(setup, n).detect + setup.delay
    <3>1. setup.delay \in Nat /\ Peer(n) \in Nodes /\ LimitsOf(setup, n).detect \in Nat
      BY <1>0, LimitsLemma, PeerLemma DEF Limits
    <3>2. ses[n].thread_exp \in Timer
      BY NodeFacts DEF Session
    <3>3. PICK x \in Nat : x = ses[n].thread_exp /\ x > 0 /\ ses'[n].thread_exp = x - 1
      BY <1>1, <2>1, <3>2, LessLemma DEF Timer, None
    <3>4. x + dead[Peer(n)] <= LimitsOf(setup, n).detect + setup.delay
      BY <1>0, <2>1, <3>3 DEF DeadInv, None
    <3>5. dead[Peer(n)] \in Nat /\ dead'[Peer(n)] \in Nat /\ dead'[Peer(n)] <= dead[Peer(n)] + 1
      BY <1>3, <3>1
    <3> QED BY <3>1, <3>3, <3>4, <3>5
  <2>2. \A n \in Nodes : ses'[n].alive => dead'[n] = 0
    BY <1>1, <1>3
  <2> QED BY <1>3, <2>1, <2>2 DEF DeadInv
<1> QED BY <1>0, <1>2, <1>4, <1>5 DEF BfdInv
------------------------------------------------------------------------------
(* The theorems.                                                              *)

LEMMA InitBfd == Init => BfdInv
<1> SUFFICES ASSUME Init
             PROVE  BfdInv
  OBVIOUS
<1>1. setup \in Setups
  BY DEF Init
<1>2. ASSUME NEW n \in Nodes
      PROVE  Sound(LimitsOf(setup, n), ses[n]) /\ ses[n].thread_exp = None /\ ~ses[n].alive
  <2>1. /\ LimitsOf(setup, n) \in Limits /\ IdleTx[n] \in Nat
        /\ FirstConf[n] \in LimitsOf(setup, n).confs /\ FirstConf[n] \in [tx : Nat \ {0}, rx : Nat \ {0}]
    BY <1>1, LimitsLemma DEF IdleTx, FirstConf
  <2>2. ses[n] = [InitState(n, 1) EXCEPT !.alive = FALSE]
    BY Zenon DEF Init
  <2>3. Sound(LimitsOf(setup, n), [InitState(n, 1) EXCEPT !.alive = FALSE])
    <3>1. 1 \in Int
      OBVIOUS
    <3> QED BY Zenon, <2>1, <3>1, InitStateLemma
  <2>4. ses[n].thread_exp = None /\ ~ses[n].alive
    BY DEF Init, InitState
  <2> QED BY Zenon, <2>2, <2>3, <2>4
<1>3. SesInv(setup, ses)
  <2>1. DOMAIN ses = Nodes /\ ses = [n \in Nodes |-> ses[n]]
    BY DEF Init
  <2> QED BY Zenon, <1>2, <2>1 DEF SesInv
<1>4. NetInv(setup, chan, dead)
  BY DEF Init, NetInv
<1>5. DeadInv(setup, ses, dead)
  <2>1. dead \in [Nodes -> Nat]
    BY DEF Init
  <2> QED BY Zenon, <1>2, <2>1 DEF DeadInv
<1> QED BY <1>1, <1>3, <1>4, <1>5 DEF BfdInv

LEMMA NextBfd == BfdInv /\ [Next]_vars => BfdInv'
<1> SUFFICES ASSUME BfdInv, [Next]_vars
             PROVE  BfdInv'
  OBVIOUS
<1>1. CASE UNCHANGED vars
  BY <1>1 DEF vars, BfdInv
<1>2. CASE Next
  <2>1. setup' = setup
    BY <1>2 DEF Next
  <2>2. CASE Tick
    BY <2>1, <2>2, TickStep
  <2>3. ASSUME NEW n \in Nodes, Steps(n)
        PROVE  BfdInv'
    BY <2>1, <2>3, SenderThreadStep, SenderEventStep, ExpireThreadStep, ResetThreadStep,
       OpenFdOutThreadStep, ReceiveStep, StartStep DEF Steps
  <2>4. ASSUME NEW n \in Nodes, Reload(n) \/ Crash(n) \/ ForeignAdminDown(n) \/ Lose(n)
        PROVE  BfdInv'
    BY <2>1, <2>4, ReloadStep, CrashStep, ForeignAdminDownStep, LoseStep
  <2> QED BY <1>2, <2>2, <2>3, <2>4 DEF Next
<1> QED BY <1>1, <1>2

(* The inductive invariant of the BFD sessions: every bfd_t is sound, every   *)
(* packet on its way was sent by a live neighbour with its configuration, and *)
(* the expiry timer covers the time the neighbour has been dead.              *)
THEOREM BfdInvHolds == Spec => []BfdInv
<1> QED BY InitBfd, NextBfd, PTL DEF Spec

(* The asserts of bfd_expire_thread(), bfd_reset_thread() and                 *)
(* bfd_sender_thread() hold for every configuration of the neighbours: the    *)
(* timers always agree with the state and the sockets.                        *)
THEOREM TimersMatchState == Spec => []ThreadsMatchState
<1>1. BfdInv => ThreadsMatchState
  <2> SUFFICES ASSUME BfdInv, NEW n \in Nodes
               PROVE  /\ ses[n].thread_exp # None <=> ses[n].local_state \in {"INIT", "UP"}
                      /\ ses[n].thread_rst # None => ses[n].local_state = "DOWN"
                      /\ ses[n].thread_out # None \/ ses[n].events > 0
                            => ses[n].fd_out /\ ses[n].local_state # "ADMINDOWN"
                      /\ ses[n].open_timer # None => ~ses[n].fd_out
                      /\ ses[n].alive /\ ses[n].local_state # "ADMINDOWN" => ses[n].fd_out
    BY Zenon DEF ThreadsMatchState
  <2>1. Good(ses[n])
    BY NodeFacts
  <2> QED BY Zenon, <2>1 DEF Good
<1> QED BY <1>1, BfdInvHolds, PTL

(* What bfd_event_send() last wrote to the pipe of the VRRP process is what   *)
(* the session is, for every configuration and every order of packets,        *)
(* timers, reloads and failures to open a socket.                             *)
THEOREM ReportsAreTrue == Spec => []StatusReported
<1>1. BfdInv => StatusReported
  <2> SUFFICES ASSUME BfdInv, NEW n \in Nodes
               PROVE  ses[n].alive => IF ses[n].quiet THEN ses[n].local_state # "UP"
                                      ELSE ses[n].reported = (ses[n].local_state = "UP")
    BY Zenon DEF StatusReported
  <2>1. Told(ses[n])
    BY NodeFacts
  <2> QED BY Zenon, <2>1 DEF Told
<1> QED BY <1>1, BfdInvHolds, PTL

(* bfd_expire_thread() takes a session Down within the slowest detection time *)
(* of its configuration after the neighbour died, whatever intervals were     *)
(* negotiated, polled or reloaded before.                                     *)
THEOREM DeathIsNoticed == Spec => []NoticesDeath
<1>1. BfdInv => NoticesDeath
  <2> SUFFICES ASSUME BfdInv, NEW n \in Nodes \ Foreign, ses[n].local_state = "UP"
               PROVE  dead[Peer(n)] <= SlowDetect(n) + setup.delay
    BY Zenon DEF NoticesDeath
  <2>1. setup \in Setups /\ DeadInv(setup, ses, dead)
    BY DEF BfdInv
  <2>2. ses[n] \in Session /\ Good(ses[n]) /\ LimitsOf(setup, n) \in Limits
    BY NodeFacts
  <2>3. ses[n].thread_exp # None
    BY <2>2 DEF Good
  <2>4. ses[n].thread_exp \in Nat
    BY <2>2, <2>3 DEF Session, Timer
  <2>5. ses[n].thread_exp + dead[Peer(n)] <= LimitsOf(setup, n).detect + setup.delay
    BY Zenon, <2>1, <2>3 DEF DeadInv, Foreign
  <2>6. setup.delay \in Nat /\ LimitsOf(setup, n).detect \in Nat /\ dead[Peer(n)] \in Nat
    BY <2>1, <2>2, LimitsLemma, PeerLemma DEF Limits, DeadInv
  <2>7. SlowDetect(n) = LimitsOf(setup, n).detect
    <3>1. Peer(Peer(n)) = n
      BY PeerLemma
    <3>2. SlowRx(n) = RxOf(setup, n) /\ SlowTx(Peer(n)) = TxOf(setup, Peer(n))
      BY Zenon DEF SlowRx, SlowTx, RxOf, TxOf, Confs, IdleTx
    <3>3. SlowInterval(Peer(n)) = Larger(RxOf(setup, n), TxOf(setup, Peer(n)))
      BY Zenon, <3>1, <3>2 DEF SlowInterval
    <3> QED BY Zenon, <3>3 DEF SlowDetect, LimitsOf, DetectMult
  <2> QED BY <2>4, <2>5, <2>6, <2>7
<1> QED BY <1>1, BfdInvHolds, PTL
==============================================================================
