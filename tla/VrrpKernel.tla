----------------------------- MODULE VrrpKernel -----------------------------
(***************************************************************************)
(* What one VRRP instance of the vrrp child leaves in the kernel: virtual  *)
(* addresses, virtual routes, virtual rules, the firewall entries that     *)
(* drop traffic to the addresses, and the static addresses and routes.     *)
(*                                                                         *)
(* The child keeps a flag `set' per object and believes the kernel agrees  *)
(* with it.  The kernel may disagree: an administrator deletes objects,    *)
(* the kernel itself deletes routes silently when an address or a link     *)
(* they depend on goes, and the netlink messages that report the changes   *)
(* wait in the monitor socket until the child reads them.  The model is    *)
(* the race of those messages with elections, faults, reloads and stops.   *)
(*                                                                         *)
(* The interface of the instance itself stays up; the routes leave by      *)
(* another interface, `link', whose flags do change.                       *)
(***************************************************************************)
EXTENDS Naturals, SequencesExt

CONSTANTS
    Vip,        \* virtual addresses (virtual_ipaddress and _excluded)
    Route,      \* virtual routes
    Rule,       \* virtual rules
    StaticAddr, \* static addresses
    StaticRoute,\* static routes
    NoSrc,      \* the pref_src of a route that names none
    HasOif,     \* routes configured with `dev': their interface is tracked
    Setups,     \* scenarios, records of
                \*   first    the configuration at the start
                \*   confs    those a reload may bring
                \*   nft      nftables, or else iptables
                \*   scripts  may the tracked script fail
                \*   victims  what an administrator may delete
                \*   admin, flips, reloads, crashes  how often each happens
    MaxQueue    \* messages that may wait in the monitor socket

ASSUME KernelConfig ==
    /\ NoSrc \notin Vip
    /\ HasOif \subseteq Route
    /\ MaxQueue \in Nat

VARIABLES
    setup,  \* the scenario, fixed by Init
    kern,   \* addresses, routes and rules the kernel holds
    ksrc,   \* the source address of each virtual route there
    fw,     \* addresses whose traffic the firewall drops
    link,   \* is the routes' interface up
    q,      \* netlink messages waiting in the monitor socket
    me,     \* the child: state, configuration and flags
    waits,  \* messages wait since before the last transition or reload
    left,   \* spent budgets of the environment
    late    \* history: routes whose addition was reported too late, after they
            \*   should have been deleted or had been

vars == <<setup, kern, ksrc, fw, link, q, me, waits, left, late>>

Routes == Route \cup StaticRoute
Conf == [vip : SUBSET Vip, route : SUBSET Route, rule : SUBSET Rule,
         src : [Route -> Vip \cup {NoSrc}], stat : SUBSET (StaticAddr \cup StaticRoute), accept : BOOLEAN,
         present : BOOLEAN]

(***************************************************************************)
(* A world is the record of everything a handler changes.                  *)
(***************************************************************************)
World == [kern |-> kern, ksrc |-> ksrc, fw |-> fw, link |-> link, q |-> q, me |-> me,
          late |-> late, nft |-> setup.nft]

Become(w) ==
    /\ kern' = w.kern
    /\ ksrc' = w.ksrc
    /\ fw' = w.fw
    /\ link' = w.link
    /\ q' = w.q
    /\ me' = w.me
    /\ late' = w.late
    /\ waits' = (w.q # << >> /\ (waits \/ w.me.state # me.state \/ w.me.conf # me.conf))
    /\ UNCHANGED setup

(* The kernel deletes the routes whose preferred source address goes, and
   sends no message for them. *)
Without(w, gone) == (w.kern \ gone) \ {r \in Route : w.ksrc[r] \in gone}

(* A route can be added if its interface is up and its source exists. *)
Accepted(w, r) ==
    /\ w.link
    /\ r \in Route => w.me.conf.src[r] \in w.kern \cup {NoSrc}

(* The source addresses after the routes R have been written. *)
Sources(w, R) == [r \in Route |-> IF r \in R THEN w.me.conf.src[r] ELSE w.ksrc[r]]

Message(t, o, own) == [t |-> t, o |-> o, own |-> own]

(* Only the notification of an added route is read although the child caused it. *)
Reflected(R) == SetToSeq({Message("newroute", r, TRUE) : r \in R})

-----------------------------------------------------------------------------
(***************************************************************************)
(* The lists of objects (vrrp_ipaddress.c, vrrp_iproute.c, vrrp_iprule.c)  *)
(***************************************************************************)
(* An address that exists already counts as added. *)
netlink_ipaddress(w, A, add) ==
    [w EXCEPT !.kern = IF add THEN @ \cup A ELSE Without(w, A),
              !.me.set = IF add THEN @ \cup A ELSE @ \ A]

netlink_iplist_add(w, A) == netlink_ipaddress(w, A \ w.me.set, TRUE)

netlink_iplist_del(w, A, force) ==
    netlink_ipaddress(w, IF force THEN A ELSE A \cap w.me.set, FALSE)

(* Adding a route that exists already changes nothing and is no error. *)
netlink_route(w, R) ==
    LET new == {r \in R : Accepted(w, r) /\ r \notin w.kern}
    IN [w EXCEPT !.kern = @ \cup new, !.ksrc = Sources(w, new), !.q = @ \o Reflected(new)]

(* A successful addition does not set the flag: the reflected message does. *)
netlink_rtlist_add(w, R, force) ==
    netlink_route(w, IF force THEN R ELSE R \ w.me.set)

netlink_rtlist_del(w, R, force) ==
    LET gone == IF force THEN R ELSE R \cap w.me.set IN
    [w EXCEPT !.kern = @ \ gone, !.me.set = @ \ gone,
              !.late = IF force THEN @ \ R ELSE @ \cup ((R \ gone) \cap w.kern)]

(* A rule that already exists makes the addition fail and clears the flag. *)
netlink_rule(w, U, add) ==
    IF add THEN [w EXCEPT !.kern = @ \cup U, !.me.set = (@ \ U) \cup (U \ w.kern)]
    ELSE [w EXCEPT !.kern = @ \ U, !.me.set = @ \ U]

netlink_rulelist_add(w, U) == netlink_rule(w, U \ w.me.set, TRUE)

netlink_rulelist_del(w, U, force) ==
    netlink_rule(w, IF force THEN U ELSE U \cap w.me.set, FALSE)

(***************************************************************************)
(* The firewall.  nftables updates are one transaction that fails as a     *)
(* whole, its first use replaces the tables a previous process left, and   *)
(* it has no force; iptables entries are independent.                      *)
(***************************************************************************)
check_and_delete_tables(w) == IF w.me.nl THEN w.fw ELSE {}

nft_update_addresses(w, A, add) ==
    LET hit == IF add THEN A \ w.me.fws ELSE A \cap w.me.fws
        base == check_and_delete_tables(w)
        ok == IF add THEN hit \cap base = {} ELSE hit \subseteq base
    IN IF hit = {} THEN w
       ELSE [w EXCEPT !.fw = IF ~ok THEN base
                             ELSE IF add THEN base \cup hit ELSE base \ hit,
                      !.me.fws = IF add THEN @ \cup hit ELSE @ \ hit,
                      !.me.nl = TRUE]

handle_iptable_rule_to_vip(w, A, add) ==
    [w EXCEPT !.fw = IF add THEN @ \cup A ELSE @ \ A,
              !.me.fws = IF add THEN @ \cup A ELSE @ \ A]

handle_iptable_vip_list(w, A, add, force) ==
    handle_iptable_rule_to_vip(w, IF force THEN A
                                  ELSE IF add THEN A \ w.me.fws ELSE A \cap w.me.fws, add)

firewall_handle(w, A, add, force) ==
    IF w.nft THEN nft_update_addresses(w, A, add)
    ELSE handle_iptable_vip_list(w, A, add, force)

vrrp_handle_accept_mode(w, add, force) ==
    IF w.me.conf.accept THEN w
    ELSE firewall_handle(w, w.me.conf.vip, add, force)

-----------------------------------------------------------------------------
(***************************************************************************)
(* Transitions of the instance (vrrp.c)                                    *)
(***************************************************************************)
(* Rules, routes, then addresses and firewall entries if there may be any. *)
vrrp_restore_interface(w, force) ==
    LET w1 == netlink_rtlist_del(netlink_rulelist_del(w, w.me.conf.rule, force),
                                 w.me.conf.route, force)
    IN IF force \/ w.me.vipset
       THEN [vrrp_handle_accept_mode(netlink_iplist_del(w1, w.me.conf.vip, force),
                                     FALSE, force)
               EXCEPT !.me.vipset = FALSE]
       ELSE w1

vrrp_state_leave_master(w, want) ==
    [vrrp_restore_interface(w, FALSE) EXCEPT !.me.state = want]

(* Only the first fault moves the instance; a backup has nothing to remove. *)
down_instance(w, f) ==
    LET w1 == [w EXCEPT !.me.fault = @ \cup {f}] IN
    IF w.me.fault # {} THEN w1
    ELSE IF w.me.state = "MAST" THEN vrrp_state_leave_master(w1, "FAULT")
    ELSE [w1 EXCEPT !.me.state = "FAULT"]

try_up_instance(w, f) ==
    LET w1 == [w EXCEPT !.me.fault = @ \ {f}] IN
    IF w1.me.fault # {} THEN w1 ELSE [w1 EXCEPT !.me.state = "BACK"]

set_vrrp_backup(w) == vrrp_state_leave_master(w, "BACK")

-----------------------------------------------------------------------------
(***************************************************************************)
(* The monitor socket (keepalived_netlink.c, vrrp_if.c)                    *)
(***************************************************************************)
address_is_ours(w, o) == o \in w.me.conf.vip
route_is_ours(w, o) == o \in w.me.conf.route
rule_is_ours(w, o) == o \in w.me.conf.rule

netlink_if_address_filter(w, o) ==
    IF address_is_ours(w, o)
    THEN IF w.me.state = "MAST" THEN set_vrrp_backup(w) ELSE w
    ELSE IF o \in w.me.conf.stat THEN netlink_ipaddress(w, {o}, TRUE)
    ELSE w

reinstate_static_route(w, r) ==
    IF Accepted(w, r)
    THEN [netlink_rtlist_add(w, {r}, TRUE) EXCEPT !.me.set = @ \cup {r}]
    ELSE [w EXCEPT !.me.set = @ \ {r}]

netlink_route_filter(w, t, o) ==
    LET ours == route_is_ours(w, o)
        stat == o \in w.me.conf.stat
        w1 == [w EXCEPT !.me.set = IF t = "newroute" THEN @ \cup {o} ELSE @ \ {o}]
    IN IF ~ours /\ ~stat THEN w
       ELSE IF t = "newroute"
       THEN [w1 EXCEPT !.late = @ \cup (({o} \cap Route) \ w.kern)]
       ELSE IF stat THEN reinstate_static_route(w1, o)
       ELSE IF w.me.state = "MAST" THEN set_vrrp_backup(w1) ELSE w1

(* The handler does not look at the state of the instance. *)
netlink_rule_filter(w, o) ==
    IF rule_is_ours(w, o)
    THEN set_vrrp_backup([w EXCEPT !.me.set = @ \ {o}])
    ELSE w

Tracked(w) == w.me.conf.route \cap HasOif # {}

interface_up(w) ==
    FoldLeft(reinstate_static_route,
             netlink_ipaddress(w, w.me.conf.stat \cap StaticAddr, TRUE),
             SetToSeq(w.me.conf.stat \cap StaticRoute))

(* Routes without `dev' keep their flag although the kernel deleted them. *)
interface_down(w) ==
    LET gone == w.me.conf.route \cap w.me.set \cap HasOif
        w1 == [w EXCEPT !.me.set = @ \ ((w.me.conf.stat \cap StaticRoute)
                                        \cup (IF w.me.state = "MAST" THEN gone ELSE {}))]
    IN IF w.me.state = "MAST" /\ gone # {} THEN down_instance(w1, "link") ELSE w1

process_if_status_change(w, up) ==
    IF ~Tracked(w) THEN w
    ELSE IF up THEN try_up_instance(w, "link")
    ELSE down_instance(w, "link")

update_interface_flags(w, up) ==
    LET w1 == process_if_status_change([w EXCEPT !.me.up = up], up) IN
    IF w.me.up = up THEN w
    ELSE IF up THEN interface_up(w1) ELSE interface_down(w1)

netlink_broadcast_filter(w, msg) ==
    CASE msg.t = "deladdr" -> netlink_if_address_filter(w, msg.o)
      [] msg.t \in {"newroute", "delroute"} -> netlink_route_filter(w, msg.t, msg.o)
      [] msg.t = "delrule" -> netlink_rule_filter(w, msg.o)
      [] msg.t = "link" -> update_interface_flags(w, msg.o)

(* All waiting messages are read, then those their handling caused. *)
ReadQueue(w) == FoldLeft(netlink_broadcast_filter, [w EXCEPT !.q = << >>], w.q)
kernel_netlink_poll(w) == ReadQueue(ReadQueue(w))

-----------------------------------------------------------------------------
(***************************************************************************)
(* Becoming master, and the reload                                         *)
(***************************************************************************)
(* The addresses go in before the routes, which may need them as source. *)
vrrp_state_become_master(w) ==
    LET w1 == netlink_iplist_add(vrrp_handle_accept_mode(w, TRUE, FALSE), w.me.conf.vip)
        w2 == netlink_rtlist_add([w1 EXCEPT !.me.vipset = TRUE], w.me.conf.route, FALSE)
    IN kernel_netlink_poll(netlink_rulelist_add(w2, w.me.conf.rule))

vrrp_state_goto_master(w) ==
    vrrp_state_become_master([w EXCEPT !.me.state = "MAST"])

(* A route both configurations have is replaced, since its options may
   differ; it is deleted if its new source address is not there yet. *)
clear_diff_routes(w, old, new) ==
    LET w1 == netlink_rtlist_del(w, old \ new.route, FALSE)
        both == old \cap new.route \cap w.me.set
        w2 == [w1 EXCEPT !.me.conf.src = new.src]
        good == {r \in both : Accepted(w2, r)}
    IN [w1 EXCEPT !.kern = (@ \cup good) \ (both \ good), !.ksrc = Sources(w2, good),
                  !.me.set = @ \ (both \ good), !.q = @ \o Reflected(good)]
clear_diff_rules(w, old, new) == netlink_rulelist_del(w, old \ new, FALSE)

(* Addresses no longer configured go, with the firewall entries of the old
   configuration; a change of accept mode is forced on the whole list. *)
get_diff_address(old, new) == old.vip \ new.vip

clear_address_list(w, A, fwset) ==
    LET w1 == netlink_iplist_del(w, A, FALSE) IN
    IF fwset THEN firewall_handle(w1, A, FALSE, FALSE) ELSE w1

clear_diff_vrrp_vip(w, old, new) ==
    LET flip == old.accept # new.accept
        w1 == IF ~flip THEN w
              ELSE IF new.accept
              THEN [firewall_handle(w, old.vip, FALSE, TRUE)
                      EXCEPT !.me.fws = @ \cup (w.me.fws \cap old.vip \cap new.vip)]
              ELSE firewall_handle(w, new.vip, TRUE, TRUE)
    IN IF ~w.me.vipset THEN w
       ELSE clear_address_list(w1, get_diff_address(old, new), ~old.accept)

(* Routes are added again, whatever their flag says: the kernel may have
   deleted them with the address they used. *)
restore_vrrp_state(w) ==
    IF ~w.me.vipset THEN w
    ELSE LET w1 == netlink_iplist_add(vrrp_handle_accept_mode(w, TRUE, FALSE),
                                      w.me.conf.vip)
             w2 == netlink_rtlist_add(w1, w.me.conf.route, TRUE)
         IN netlink_rulelist_add(w2, w.me.conf.rule)

clear_diff_static(w, old, new) ==
    netlink_iplist_del(netlink_rtlist_del(w, (old.stat \ new.stat) \cap StaticRoute, FALSE),
                       (old.stat \ new.stat) \cap StaticAddr, FALSE)

(* With the instance gone its flags go; with the instance kept they are
   copied to the objects both configurations have. *)
clear_diff_vrrp(w, old, new) ==
    LET kept == old.present /\ new.present
        w1 == IF ~old.present \/ w.me.state # "MAST" THEN w
              ELSE IF ~new.present THEN vrrp_restore_interface(w, FALSE)
              ELSE clear_diff_vrrp_vip(
                     clear_diff_routes(clear_diff_rules(w, old.rule, new.rule),
                                       old.route, new), old, new)
        w2 == [w1 EXCEPT !.me.conf = new,
                         !.me.set = IF kept THEN @ \ (old.route \ new.route)
                                    ELSE @ \cap (StaticAddr \cup StaticRoute),
                         !.me.fws = IF kept THEN @ \cap new.vip ELSE {},
                         !.me.vipset = kept /\ @]
    IN IF kept THEN restore_vrrp_state(w2) ELSE w2

(* The state a configuration starts with: the tracked interface decides. *)
vrrp_complete_init(w) ==
    [w EXCEPT !.me.fault = (@ \ {"link"}) \cup
                  (IF Tracked(w) /\ ~w.me.up THEN {"link"} ELSE {})]

(* Mutant: what an earlier process left is not removed. *)
vrrp_init_state_unforced(w) ==
    IF ~w.me.conf.present THEN [w EXCEPT !.me.state = "NONE", !.me.fault = {}]
    ELSE IF w.me.state = "MAST" /\ w.me.fault = {} THEN w
    ELSE [vrrp_restore_interface(w, FALSE)
            EXCEPT !.me.state = IF w.me.fault = {} THEN "BACK" ELSE "FAULT"]

vrrp_init_state(w) ==
    IF ~w.me.conf.present THEN [w EXCEPT !.me.state = "NONE", !.me.fault = {}]
    ELSE IF w.me.state = "MAST" /\ w.me.fault = {} THEN w
    ELSE [vrrp_restore_interface(w, TRUE)
            EXCEPT !.me.state = IF w.me.fault = {} THEN "BACK" ELSE "FAULT"]

(* Static addresses and routes are added last. *)
AddStatic(w) ==
    netlink_rtlist_add(netlink_iplist_add(w, w.me.conf.stat \cap StaticAddr),
                       w.me.conf.stat \cap StaticRoute, FALSE)

(* vrrp_dispatcher_init is an event: it runs before the next read. *)
start_vrrp_reload(w, new) ==
    LET old == w.me.conf
        w1 == clear_diff_vrrp(clear_diff_static(w, old, new), old, new)
    IN vrrp_init_state(AddStatic(vrrp_complete_init(w1)))

(* At a start the monitor socket is new.  The deletion of leftover static
   entries is not forced, so that it finds no flag set and does nothing. *)
Fresh(c, up) ==
    [on |-> TRUE, state |-> "INIT", conf |-> c, set |-> {}, vipset |-> TRUE,
     fws |-> {}, nl |-> FALSE, fault |-> {}, up |-> up]

kernel_netlink_init(w) == [w EXCEPT !.q = << >>]

vrrp_restore_interfaces_startup(w) ==
    IF w.me.conf.present THEN vrrp_restore_interface(w, TRUE) ELSE w

start_vrrp(w, c) ==
    LET w1 == [kernel_netlink_init(w) EXCEPT !.me = Fresh(c, w.link)]
    IN vrrp_init_state(AddStatic(vrrp_restore_interfaces_startup(vrrp_complete_init(w1))))

restore_vrrp_interfaces(w) ==
    IF w.me.state = "MAST" THEN vrrp_restore_interface(w, FALSE) ELSE w

(* The monitor socket is closed first. *)
vrrp_terminate_phase1(w) ==
    netlink_iplist_del(
        netlink_rtlist_del(restore_vrrp_interfaces([w EXCEPT !.q = << >>]),
                           w.me.conf.stat \cap StaticRoute, FALSE),
        w.me.conf.stat \cap StaticAddr, FALSE)

(* firewall_fini removes the tables nftables has used. *)
firewall_fini(w) == [w EXCEPT !.fw = IF w.me.nl THEN {} ELSE @]

vrrp_terminate_phase2(w) ==
    [firewall_fini(w) EXCEPT !.me.on = FALSE, !.me.state = "NONE"]

-----------------------------------------------------------------------------
(***************************************************************************)
(* Actions                                                                 *)
(***************************************************************************)
Running == me.on
Spend(b) ==
    /\ left[b] < setup[b]
    /\ left' = [left EXCEPT ![b] = @ + 1]

Empty(s) == [kern |-> {}, ksrc |-> [r \in Route |-> NoSrc], fw |-> {}, link |-> TRUE,
             q |-> << >>, me |-> Fresh(s.first, TRUE), late |-> {}, nft |-> s.nft]

Init ==
    /\ setup \in Setups
    /\ LET w == start_vrrp(Empty(setup), setup.first)
       IN /\ kern = w.kern
          /\ ksrc = w.ksrc
          /\ fw = w.fw
          /\ link = w.link
          /\ q = w.q
          /\ me = w.me
          /\ late = {}
    /\ waits = FALSE
    /\ left = [admin |-> 0, flips |-> 0, reloads |-> 0, crashes |-> 0]

(* The down timer of a backup expires: vrrp_goto_master.  It was started at
   least a skew time before, and every pass of the scheduler reads a socket
   that is readable: what waited then has been read since. *)
DownTimer ==
    /\ Running
    /\ ~waits
    /\ me.state = "BACK"
    /\ Become(vrrp_state_goto_master(World))
    /\ UNCHANGED left

(* A master sees an advertisement of a higher priority. *)
HigherAdvert ==
    /\ Running
    /\ me.state = "MAST"
    /\ Become(vrrp_state_leave_master(World, "BACK"))
    /\ UNCHANGED left

ScriptFails ==
    /\ Running
    /\ me.conf.present
    /\ setup.scripts
    /\ "script" \notin me.fault
    /\ Become(down_instance(World, "script"))
    /\ UNCHANGED left

ScriptRecovers ==
    /\ Running
    /\ "script" \in me.fault
    /\ Become(try_up_instance(World, "script"))
    /\ UNCHANGED left

(* kernel_netlink: the monitor socket is readable. *)
NetlinkRead ==
    /\ Running
    /\ q # << >>
    /\ Become(kernel_netlink_poll(World))
    /\ UNCHANGED left

Kind(o) ==
    IF o \in Vip \cup StaticAddr THEN "deladdr"
    ELSE IF o \in Routes THEN "delroute" ELSE "delrule"

Told(w, msg) == IF w.me.on THEN [w EXCEPT !.q = Append(@, msg)] ELSE w

(* Another program deletes an object; the kernel tells the monitor socket. *)
AdminDelete ==
    /\ Len(q) < MaxQueue
    /\ Spend("admin")
    /\ \E o \in kern \cap setup.victims :
         Become(Told([World EXCEPT !.kern = Without(World, {o})],
                     Message(Kind(o), o, FALSE)))

(* The routes of a link that goes down are deleted without a message. *)
LinkChange ==
    /\ Len(q) < MaxQueue
    /\ Spend("flips")
    /\ Become(Told([World EXCEPT !.link = ~@, !.kern = IF link THEN @ \ Routes ELSE @],
                   Message("link", ~link, FALSE)))

(* SIGHUP; two of them are never handled in one pass of the scheduler. *)
Reload ==
    /\ Running
    /\ ~waits
    /\ Spend("reloads")
    /\ \E c \in setup.confs : Become(start_vrrp_reload(World, c))

Stop ==
    /\ Running
    /\ Become(vrrp_terminate_phase2(vrrp_terminate_phase1(World)))
    /\ UNCHANGED left

(* The child dies; the parent starts another one with the same configuration. *)
Crash ==
    /\ Running
    /\ Spend("crashes")
    /\ Become(start_vrrp(World, me.conf))

Next ==
    \/ DownTimer
    \/ HigherAdvert
    \/ ScriptFails
    \/ ScriptRecovers
    \/ NetlinkRead
    \/ AdminDelete
    \/ LinkChange
    \/ Reload
    \/ Stop
    \/ Crash

Spec == Init /\ [][Next]_vars
-----------------------------------------------------------------------------
(***************************************************************************)
(* Properties                                                              *)
(***************************************************************************)
TypeOK ==
    /\ kern \subseteq Vip \cup Routes \cup Rule \cup StaticAddr
    /\ fw \subseteq Vip
    /\ me.conf \in Conf
    /\ me.state \in {"MAST", "BACK", "FAULT", "NONE"}
    /\ me.set \subseteq Vip \cup Routes \cup Rule \cup StaticAddr

Virtual == Vip \cup Route \cup Rule

(* The firewall entries of a process that crashed stay until the first use
   of nftables by its successor (check_and_delete_tables). *)
Inherited == setup.nft /\ ~me.nl

(* With no message waiting, static addresses are in the kernel, and static
   routes are while their interface is up: they are put back when deleted
   or when the interface returns (reinstate_static_route, interface_up). *)
StaticKept ==
    me.on /\ q = << >> =>
      \A o \in me.conf.stat : o \in kern \/ (o \in StaticRoute /\ ~link)

(* With no message waiting, the kernel holds what the state of the instance
   calls for: a master has its addresses, rules and the routes that name a
   device, drops traffic to exactly the addresses not in accept mode, and
   nothing of an earlier configuration remains; an instance that is not
   master, or has been stopped, has none of them.  Excepted are the routes
   in `late', whose addition was reported only after they should have been
   deleted (netlink_rtlist, vrrp_state_become_master,
   vrrp_restore_interface, clear_diff_vrrp, vrrp_init_state).  The static
   ones are kept. *)
KernelAsState ==
    q = << >> =>
      /\ StaticKept
      /\ IF me.on /\ me.state = "MAST"
         THEN /\ me.conf.vip \cup me.conf.rule \cup ((me.conf.route \cap HasOif) \ late) \subseteq kern
              /\ kern \cap Virtual \subseteq
                    me.conf.vip \cup me.conf.rule \cup me.conf.route \cup late
              /\ fw = (IF me.conf.accept THEN {} ELSE me.conf.vip) \/ Inherited
         ELSE /\ kern \cap Virtual \subseteq late
              /\ fw = {} \/ Inherited

(* An instance with a failed script or a tracked interface that is down is
   in the fault state: scripts that succeed again let instances leave it
   unless other faults remain. *)
FaultIsObeyed == me.fault # {} => me.state \in {"FAULT", "NONE"}

=============================================================================
