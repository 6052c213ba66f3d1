------------------------------ MODULE VrrpGarp ------------------------------
(***************************************************************************)
(* Telling the neighbours where a virtual address is: gratuitous ARPs for  *)
(* IPv4 (vrrp_arp.c) and unsolicited neighbour adverts for IPv6            *)
(* (vrrp_ndisc.c).  A master repeats each one, sends a second block after  *)
(* garp_master_delay, refreshes them, and answers a lower priority advert  *)
(* with them; garp_interval and gna_interval limit how fast they leave an  *)
(* interface, or the interfaces of a garp_group together, so that they may *)
(* be queued and sent by a timer (vrrp_scheduler.c).                       *)
(*                                                                         *)
(* Time is relative: `next' and a timer's `at' are what is left of the     *)
(* interval, and a tick may pass although a timer is due (a late wake-up). *)
(* Every interface has a hardware address and the two sockets are open.    *)
(***************************************************************************)
EXTENDS Integers, FiniteSets, SequencesExt, Bags

CONSTANTS Setups,        \* the configurations and interfaces to start with
          MaxChanges     \* bound on changes of state, lower adverts and reloads

VARIABLE s

UNSET == -1              \* PARAMETER_UNSET, or a statement that is absent
BAD == -2                \* a value the number parser refuses
Families == {4, 6}

Most(S) == CHOOSE x \in S : \A y \in S : y <= x

----------------------------------------------------------------------------
\* The statements of a vrrp_instance

vrrp_garp_delay_handler(old, n) == IF n \in {UNSET, BAD} THEN old ELSE n
vrrp_garp_lower_prio_delay_handler(old, n) == IF n \in {UNSET, BAD} THEN old ELSE n
vrrp_garp_refresh_handler(old, n) == IF n = UNSET THEN old ELSE IF n = BAD THEN 0 ELSE n
vrrp_garp_rep_handler(old, n) == IF n \in {UNSET, BAD} THEN old ELSE Most({n, 1})
vrrp_garp_refresh_rep_handler(old, n) == IF n \in {UNSET, BAD} THEN old ELSE Most({n, 1})

\* Strict mode allows no repeats after a lower priority advert; otherwise what
\* the instance leaves open is the global setting, which is itself the setting
\* for new masters when it is not given.
LowerPrio(strict, own, global, master) ==
  IF strict THEN 0
  ELSE IF own # UNSET THEN own
  ELSE IF global # UNSET THEN global ELSE master

Addresses(c, v) == c.inst[v].vip \o c.inst[v].evip
Base(c, a) == c.base[c.ifp[a]]

\* garp_extra_if is of use only when an address is on an interface of keepalived's
\* own other than the instance's, or on any other one when all are asked for.
ExtraInterval(c, v) ==
  LET i == c.inst[v]
      own == i.vmac_intvl # UNSET
      all == i.all_if \/ (~own /\ c.global.all_if)
      extra == {c.ifp[a] : a \in Range(Addresses(c, v))} \ {i.ifp}
      useful == \E x \in extra : x \in c.ours \/ all
  IN  IF useful THEN IF own THEN i.vmac_intvl ELSE c.global.vmac_intvl ELSE 0

Instance(c, v) ==
  LET g == c.global  i == c.inst[v]
  IN  [rep |-> vrrp_garp_rep_handler(g.rep, i.rep),
       delay |-> vrrp_garp_delay_handler(g.delay, i.delay),
       refresh |-> vrrp_garp_refresh_handler(g.refresh, i.refresh),
       refresh_rep |-> vrrp_garp_refresh_rep_handler(g.refresh_rep, i.refresh_rep),
       lower_rep |-> LowerPrio(i.strict, i.lower_rep, g.lower_rep, g.rep),
       lower_delay |-> LowerPrio(i.strict, vrrp_garp_lower_prio_delay_handler(UNSET, i.lower_delay),
                                 g.lower_delay, g.delay),
       vmac_intvl |-> ExtraInterval(c, v),
       all_if |-> i.all_if \/ (i.vmac_intvl = UNSET /\ c.global.all_if)]

----------------------------------------------------------------------------
\* garp_group blocks and the default: which interfaces share which delay

\* A delay structure: interval per family, UNSET where have_..._interval is false.
garp_group_interval(n) == IF n = BAD THEN UNSET ELSE n

\* An interface that is already in a group, or that keepalived made, is refused.
garp_group_interface_handler(c, delay, ifs, g) ==
  FoldLeft(LAMBDA d, i : IF d[i] # 0 \/ i \in c.ours THEN d ELSE [d EXCEPT ![i] = g], delay, ifs)

\* A group that has no interval is removed again, from its interfaces too.
garp_group_end_handler(delay, gd, g) ==
  IF gd = [f \in Families |-> UNSET] THEN [i \in DOMAIN delay |-> IF delay[i] = g THEN 0 ELSE delay[i]]
  ELSE delay

GroupBlock(c, st, b) ==
  LET g == Len(st.gd) + 1
      gd == [f \in Families |-> garp_group_interval(b.interval[f])]
  IN  [gd |-> Append(st.gd, gd),
       delay |-> garp_group_end_handler(garp_group_interface_handler(c, st.delay, b.ifs, g), gd, g)]

set_garp_delay(c, st, i) ==
  IF st.delay[i] # 0 THEN st
  ELSE [gd |-> Append(st.gd, [f \in Families |-> IF c.global.interval[f] = 0 THEN UNSET ELSE c.global.interval[f]]),
        delay |-> [st.delay EXCEPT ![i] = Len(st.gd) + 1]]

set_default_garp_delay(c, st0) ==
  FoldLeft(LAMBDA st, v :
             LET fams == {c.inst[v].family} \cup {c.family[a] : a \in Range(c.inst[v].evip)}
             IN  IF \A f \in fams : c.global.interval[f] = 0 THEN st
                 ELSE FoldLeft(LAMBDA t, i : set_garp_delay(c, t, i), st,
                               <<c.base[c.inst[v].ifp]>> \o [k \in 1 .. Len(Addresses(c, v)) |-> Base(c, Addresses(c, v)[k])]),
           st0, c.order)

Delays(c) ==
  LET st == FoldLeft(LAMBDA t, b : GroupBlock(c, t, b),
                     [gd |-> <<>>, delay |-> [i \in DOMAIN c.base |-> 0]], c.groups)
  IN  IF \A f \in Families : c.global.interval[f] = 0 THEN st ELSE set_default_garp_delay(c, st)

----------------------------------------------------------------------------
\* Sending and queueing

Timer(t, kind, arg, at) == [t EXCEPT !.timers = @ (+) SetToBag({[kind |-> kind, arg |-> arg, at |-> at]})]

Limited(t, i, f) == t.delay[i] # 0 /\ t.gd[t.delay[i]][f] # UNSET

\* The message leaves; `early' and `stray' record one that came before the
\* interval was over, and one for an address that is not held.
SendImmediate(t, i, a) ==
  LET f == t.c.family[a]  g == t.delay[i]
      u == [t EXCEPT !.due[a] = Most({@ - 1, 0}), !.stray = @ \/ ~t.vipset[t.c.owner[a]]]
  IN  IF ~Limited(t, i, f) THEN u
      ELSE [u EXCEPT !.next[g][f] = t.gd[g][f], !.quiet[g][f] = 0,
                     !.early = @ \/ t.quiet[g][f] < t.gd[g][f]]

send_gratuitous_arp_immediate(t, i, a) == SendImmediate(t, i, a)
ndisc_send_unsolicited_na_immediate(t, i, a) == SendImmediate(t, i, a)

Queue(t, i, a, kind) ==
  LET f == t.c.family[a]  g == t.delay[i]
      u == [t EXCEPT !.pending[a] = 1, !.list[g][f] = Append(@, a)]
  IN  IF t.list[g][f] = <<>> THEN Timer(u, kind, i, t.next[g][f]) ELSE u

queue_garp(t, i, a) == Queue(t, i, a, "vrrp_arp_thread")
queue_ndisc(t, i, a) == Queue(t, i, a, "vrrp_gna_thread")

\* An address that waits already is not queued again, it is sent more often: up
\* to the repeats that are asked for now.
Waits(t, a, rep) == [t EXCEPT !.pending[a] = IF @ < rep THEN @ + 1 ELSE @]

send_gratuitous_arp(t, a, rep) ==
  LET i == Base(t.c, a)
  IN  IF i \in t.c.noarp THEN t
      ELSE IF t.pending[a] > 0 THEN Waits(t, a, rep)
      ELSE IF Limited(t, i, 4) /\ t.next[t.delay[i]][4] > 0 THEN queue_garp(t, i, a)
      ELSE send_gratuitous_arp_immediate(t, i, a)

ndisc_send_unsolicited_na(t, a, rep) ==
  LET i == Base(t.c, a)
  IN  IF i \in t.c.noarp THEN t
      ELSE IF t.pending[a] > 0 THEN Waits(t, a, rep)
      ELSE IF Limited(t, i, 6) /\ t.next[t.delay[i]][6] > 0 THEN queue_ndisc(t, i, a)
      ELSE ndisc_send_unsolicited_na_immediate(t, i, a)

vrrp_send_update(t, a, rep) ==
  IF t.c.family[a] = 4 THEN send_gratuitous_arp(t, a, rep) ELSE ndisc_send_unsolicited_na(t, a, rep)

\* What an update with so many repeats promises for the addresses: `due' is the
\* number that still has to leave.
Promise(t, as, rep) ==
  [t EXCEPT !.due = [a \in DOMAIN @ |-> IF a \in as /\ Base(t.c, a) \notin t.c.noarp THEN Most({@[a], rep}) ELSE @[a]]]

vrrp_send_link_update(t, v, rep) ==
  IF ~t.vipset[v] THEN t
  ELSE FoldLeft(LAMBDA u, a : vrrp_send_update(u, a, rep),
                Promise(t, Range(Addresses(t.c, v)), rep),
                FlattenSeq([j \in 1 .. rep |-> Addresses(t.c, v)]))

\* One message for each interface that carries addresses and sends no adverts:
\* for the first address on it.
vrrp_send_vmac_update(t, v) ==
  LET c == t.c  i == c.inst[v]  l == Addresses(c, v)
      wanted(x) == (x \in c.ours \/ t.conf[v].all_if) /\ (x # i.ifp \/ i.xmitbase)
      first(k) == wanted(c.ifp[l[k]]) /\ \A j \in 1 .. k - 1 : c.ifp[l[j]] # c.ifp[l[k]]
  IN  IF ~t.vipset[v] THEN t
      ELSE FoldLeft(LAMBDA u, k : IF first(k) THEN vrrp_send_update(Promise(u, {l[k]}, 1), l[k], 1) ELSE u,
                    t, [k \in 1 .. Len(l) |-> k])

vrrp_remove_delayed_arp(t, v) ==
  LET as == Range(Addresses(t.c, v))
  IN  [t EXCEPT !.pending = [a \in DOMAIN @ |-> IF a \in as THEN 0 ELSE @[a]],
                !.due = [a \in DOMAIN @ |-> IF a \in as THEN 0 ELSE @[a]],
                !.list = [g \in DOMAIN @ |-> [f \in Families |-> SelectSeq(@[g][f], LAMBDA a : a \notin as)]]]

----------------------------------------------------------------------------
\* The timers' functions

\* The loop sends while the interval allows it: one message, after which the
\* interval runs again.
Drain(t, i, f, kind) ==
  LET g == t.delay[i]
      a == Head(t.list[g][f])
      sent == SendImmediate(t, i, a)
      u == IF t.list[g][f] = <<>> \/ t.next[g][f] > 0 THEN t
           ELSE [sent EXCEPT !.pending[a] = @ - 1,
                             !.list[g][f] = IF t.pending[a] > 1 THEN Append(Tail(@), a) ELSE Tail(@)]
  IN  IF u.list[g][f] = <<>> THEN u ELSE Timer(u, kind, i, u.next[g][f])

vrrp_arp_thread(t, i) == Drain(t, i, 4, "vrrp_arp_thread")
vrrp_gna_thread(t, i) == Drain(t, i, 6, "vrrp_gna_thread")
vrrp_gratuitous_arp_thread(t, v) == vrrp_send_link_update(t, v, t.conf[v].rep)
vrrp_lower_prio_gratuitous_arp_thread(t, v) == vrrp_send_link_update(t, v, t.conf[v].lower_rep)
vrrp_gratuitous_arp_refresh_thread(t, v) ==
  Timer(vrrp_send_link_update(t, v, t.conf[v].refresh_rep), "refresh", v, t.conf[v].refresh)
vrrp_gratuitous_arp_vmac_update_thread(t, v) ==
  Timer(vrrp_send_vmac_update(t, v), "vmac", v, t.conf[v].vmac_intvl)

Thread(t, x) ==
  CASE x.kind = "vrrp_arp_thread" -> vrrp_arp_thread(t, x.arg)
    [] x.kind = "vrrp_gna_thread" -> vrrp_gna_thread(t, x.arg)
    [] x.kind = "delay" -> vrrp_gratuitous_arp_thread(t, x.arg)
    [] x.kind = "lower" -> vrrp_lower_prio_gratuitous_arp_thread(t, x.arg)
    [] x.kind = "refresh" -> vrrp_gratuitous_arp_refresh_thread(t, x.arg)
    [] x.kind = "vmac" -> vrrp_gratuitous_arp_vmac_update_thread(t, x.arg)

TimerIf(t, cond, kind, v, at) == IF cond THEN Timer(t, kind, v, at) ELSE t

\* The timers a master needs: the second block, the refresh and the extra
\* interfaces, the last two after the second block.
MasterTimers(t, v, second) ==
  LET k == t.conf[v]  d == IF second THEN k.delay ELSE 0
  IN  TimerIf(TimerIf(TimerIf(t, d > 0, "delay", v, d),
                      k.refresh > 0, "refresh", v, d + k.refresh),
              k.vmac_intvl > 0, "vmac", v, d + k.vmac_intvl)

----------------------------------------------------------------------------
\* The steps

\* The state after the configuration was read: nothing sent, nothing queued.
Started(c, vipset, changes) ==
  LET st == Delays(c)  gs == 1 .. Len(st.gd)
  IN  [c |-> c, gd |-> st.gd, delay |-> st.delay, vipset |-> vipset, changes |-> changes,
       conf |-> [v \in DOMAIN c.inst |-> Instance(c, v)],
       next |-> [g \in gs |-> [f \in Families |-> 0]],
       list |-> [g \in gs |-> [f \in Families |-> <<>>]],
       quiet |-> [g \in gs |-> st.gd[g]],
       pending |-> [a \in DOMAIN c.family |-> 0], due |-> [a \in DOMAIN c.family |-> 0],
       timers |-> EmptyBag, early |-> FALSE, stray |-> FALSE]

Change == s.changes < MaxChanges

vrrp_state_become_master ==
  \E v \in DOMAIN s.vipset :
    /\ Change /\ ~s.vipset[v]
    /\ LET t == [s EXCEPT !.vipset[v] = TRUE, !.changes = @ + 1]
       IN  s' = MasterTimers(vrrp_send_link_update(t, v, t.conf[v].rep), v, TRUE)

\* The addresses are dropped and what is queued for them; the instance's timers
\* are left running.
vrrp_restore_interface ==
  \E v \in DOMAIN s.vipset :
    /\ s.vipset[v]
    /\ s' = [vrrp_remove_delayed_arp(s, v) EXCEPT !.vipset[v] = FALSE]

\* A master heard a lower priority advert: it and the other members of its group
\* tell their neighbours again.
vrrp_state_master_rx ==
  \E v \in DOMAIN s.vipset :
    /\ Change /\ s.vipset[v]
    /\ LET again(t, w) == IF t.conf[w].lower_rep = 0 THEN t
                          ELSE TimerIf(vrrp_send_link_update(t, w, t.conf[w].lower_rep),
                                       t.conf[w].lower_delay > 0, "lower", w, t.conf[w].lower_delay)
           others == SelectSeq(s.c.order, LAMBDA w : w # v /\ s.c.grouped)
       IN  s' = FoldLeft(again, [s EXCEPT !.changes = @ + 1], <<v>> \o others)

\* All timers go, and the queues with the old configuration; an instance that
\* stays master announces what is new, or everything when it refreshes.
Reload ==
  /\ Change
  /\ \E new \in SUBSET {v \in DOMAIN s.vipset : s.vipset[v]} :
       s' = FoldLeft(LAMBDA t, v :
                       IF ~t.vipset[v] THEN t
                       ELSE MasterTimers(IF v \in new \/ t.conf[v].refresh > 0
                                         THEN vrrp_send_link_update(t, v, t.conf[v].rep) ELSE t, v, v \in new),
                     Started(s.c, s.vipset, s.changes + 1), s.c.order)

Expire ==
  \E x \in BagToSet(s.timers) :
    /\ x.at = 0
    /\ s' = Thread([s EXCEPT !.timers = @ (-) SetToBag({x})], x)

Less(n) == Most({n - 1, 0})

Tick ==
  s' = [s EXCEPT !.next = [g \in DOMAIN @ |-> [f \in Families |-> Less(@[g][f])]],
                 !.quiet = [g \in DOMAIN @ |-> [f \in Families |->
                              IF @[g][f] < s.gd[g][f] THEN @[g][f] + 1 ELSE @[g][f]]],
                 !.timers = BagOfAll(LAMBDA x : [x EXCEPT !.at = Less(@)], @)]

Init == \E c \in Setups : s = Started(c, [v \in DOMAIN c.inst |-> FALSE], 0)

Next ==
  \/ vrrp_state_become_master
  \/ vrrp_restore_interface
  \/ vrrp_state_master_rx
  \/ Reload
  \/ Expire
  \/ Tick

Spec == Init /\ [][Next]_s

----------------------------------------------------------------------------
\* Properties

\* An address waits in the queue of its interface's delay, once, exactly while
\* garp_gna_pending counts messages for it.
QueuedOnce ==
  \A a \in DOMAIN s.pending :
    LET g == s.delay[Base(s.c, a)]
        times(h, f) == Cardinality({k \in DOMAIN s.list[h][f] : s.list[h][f][k] = a})
    IN  \A h \in DOMAIN s.list : \A f \in Families :
          times(h, f) = IF s.pending[a] > 0 /\ h = g /\ f = s.c.family[a] THEN 1 ELSE 0

\* A queue that is not empty has a timer that will look at it, no later than the
\* interval allows.
QueueServed ==
  \A g \in DOMAIN s.list : \A f \in Families :
    s.list[g][f] # <<>> =>
      \E x \in BagToSet(s.timers) :
        /\ x.kind = IF f = 4 THEN "vrrp_arp_thread" ELSE "vrrp_gna_thread"
        /\ s.delay[x.arg] = g
        /\ x.at <= s.next[g][f]

\* Neighbours are told in full and not too fast: every message an update promised
\* has left or is queued, whatever was queued before; two messages under one
\* delay are never closer than its interval; none leaves for an address that is
\* no longer held; and a master that refreshes has its refresh timer.
NeighboursTold ==
  /\ QueuedOnce
  /\ QueueServed
  /\ \A a \in DOMAIN s.due : s.due[a] <= s.pending[a]
  /\ ~s.early /\ ~s.stray
  /\ \A v \in DOMAIN s.vipset :
       s.vipset[v] /\ s.conf[v].refresh > 0 =>
         \E x \in BagToSet(s.timers) : x.kind = "refresh" /\ x.arg = v /\ x.at <= s.conf[v].delay + s.conf[v].refresh

=============================================================================
