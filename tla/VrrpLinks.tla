----------------------------- MODULE VrrpLinks -----------------------------
(***************************************************************************)
(* The network interfaces as the VRRP process sees them: the messages of   *)
(* the kernel about links (core/keepalived_netlink.c), the table of        *)
(* interfaces and what happens to an instance when its interface goes away *)
(* or comes back (vrrp/vrrp_if.c), and the VMAC interfaces keepalived      *)
(* creates, deletes and creates again (vrrp/vrrp_vmac.c).                  *)
(*                                                                         *)
(* "eth0" is the interface of all instances, "vm" the VMAC of those that   *)
(* use one, "x" and "y" other names for them.  An entry of the table of    *)
(* interfaces is known by its name; an index names an interface of the     *)
(* kernel, and is never used again.  Addresses, routes and sync groups are *)
(* those of VrrpKernel and VrrpSyncGroup.                                  *)
(***************************************************************************)
EXTENDS Integers, Sequences, FiniteSets

CONSTANTS
  Setups,     \* configurations
  MaxKernel   \* bound on what happens to the interfaces

VARIABLE s

Names == {"eth0", "vm", "x", "y"}
Vlans == {"vm", "y"}
NoLink == [index |-> 0, up |-> FALSE, base |-> 0]
NoIf(n) == [index |-> 0, up |-> FALSE, seen_up |-> FALSE, ours |-> FALSE, vmac |-> FALSE, base |-> n,
            deleting |-> FALSE, pending |-> "none", debounce |-> FALSE]

-----------------------------------------------------------------------------
(* The kernel.  An interface is up when it is set up and runs; a VMAC runs *)
(* when its base does, and is not set up while another one with its MAC    *)
(* address is.                                                             *)

NameOf(k, index) == CHOOSE n \in Names : k[n].index = index
Runs(k, n) == k[n].up /\ (k[n].base # 0 => \E b \in Names : k[b].index = k[n].base /\ k[b].up)
NewLink(k, n) == [type |-> "NEWLINK", index |-> k[n].index, name |-> n, up |-> Runs(k, n), base |-> k[n].base]
DelLink(k, n) == [NewLink(k, n) EXCEPT !.type = "DELLINK"]
Exists(k, n) == k[n].index # 0
WithVmac(k, m) ==
    LET up == SelectSeq(<<"vm", "y">>, LAMBDA n : Exists(k, n) /\ k[n].up)
    IN <<m>> \o [i \in DOMAIN up |-> NewLink(k, up[i])]
Free(k, n) == \A m \in Vlans \ {n} : ~k[m].up

\* The messages that follow when a link is taken down and deleted, VMACs first.
Gone(k, n) ==
    LET off == [k EXCEPT ![n].up = FALSE]
        on == IF n \in Vlans THEN <<>> ELSE SelectSeq(<<"vm", "y">>, LAMBDA m : Exists(k, m))
    IN (IF ~k[n].up THEN <<>> ELSE IF n \in Vlans THEN <<NewLink(off, n)>> ELSE WithVmac(off, NewLink(off, n)))
       \o [i \in DOMAIN on |-> DelLink(off, on[i])] \o <<DelLink(off, n)>>
Without(k, n) == [m \in Names |-> IF m = n \/ (m \in Vlans /\ n \notin Vlans) THEN NoLink ELSE k[m]]

-----------------------------------------------------------------------------
(* Instances.                                                              *)

UsesVmac(q, v) == q.setup.vmac[v]
IfOf(q, v) == IF UsesVmac(q, v) THEN "vm" ELSE "eth0"
Order(q, n) == SelectSeq(q.setup.order, LAMBDA v : n \in {"eth0", IfOf(q, v)})
if_isup(q, n) == q.ifp[n].up /\ (q.ifp[n].vmac => q.ifp[q.ifp[n].base].up)

\* The reason an interface that is down is one for an instance.
Flag(q, v, n) == IF UsesVmac(q, v) /\ n = "eth0" THEN "BASE_INTERFACE_DOWN" ELSE "INTERFACE_DOWN"

\* down_instance() with set_fault().
down_instance(q, v, flag) ==
    [q EXCEPT !.vrrp[v].state = IF q.vrrp[v].flags = {} THEN "FAULT" ELSE @,
              !.vrrp[v].flags = @ \cup {flag}]

try_up_instance(q, v, flag) ==
    [q EXCEPT !.vrrp[v].state = IF q.vrrp[v].flags \ {flag} = {} THEN "BACK" ELSE @,
              !.vrrp[v].flags = @ \ {flag}]

RECURSIVE process_if_status_change(_, _, _)
process_if_status_change(q, n, order) ==
    IF order = <<>> THEN [q EXCEPT !.ifp[n].seen_up = @ \/ q.ifp[n].up]
    ELSE LET v == Head(order)
             r == IF ~q.setup.track THEN q
                  ELSE IF q.ifp[n].up THEN try_up_instance(q, v, Flag(q, v, n))
                  ELSE down_instance(q, v, Flag(q, v, n))
         IN process_if_status_change(r, n, Tail(order))

\* late: the entries whose last change was one of an interface that is no longer theirs.
process_interface_flags_change(q, n, up) ==
    process_if_status_change([q EXCEPT !.ifp[n].up = up,
                                       !.late = IF q.ifp[n].index = 0 THEN @ \cup {n} ELSE @ \ {n}], n, Order(q, n))

\* update_interface_flags(): a change may be delayed, and is dropped when the interface
\* has changed back before.
update_interface_flags(q, n, up, immediate) ==
    LET i == q.ifp[n]
        c == IF up = i.up \/ immediate THEN [q EXCEPT !.ifp[n].pending = "none"] ELSE q
        to == IF up THEN "up" ELSE "down"
    IN IF up = i.up THEN c
       ELSE IF c.ifp[n].pending = to THEN c
       ELSE IF i.seen_up /\ i.debounce /\ ~immediate THEN [c EXCEPT !.ifp[n].pending = to]
       ELSE process_interface_flags_change([c EXCEPT !.ifp[n].pending = "none", !.ifp[n].seen_up = @ \/ up], n, up)

-----------------------------------------------------------------------------
(* Sockets.                                                                *)

\* open_vrrp_read_socket(), open_vrrp_send_socket(): each option may fail, and then the
\* socket is closed; they need the interface to be there under the index we know.
Opens(q, n) == q.k[n].index # 0 /\ q.k[n].index = q.ifp[n].index
open_sockpool_socket(q, v) ==
    LET n == IfOf(q, v)
    IN [q EXCEPT !.vrrp[v].fd = IF Opens(q, n) THEN q.ifp[n].index ELSE 0]

\* The state is set at once, without the transition to it.
Reopen(q, v) ==
    LET o == open_sockpool_socket(q, v)
    IN IF q.vrrp[v].fd # 0 THEN q
       ELSE [o EXCEPT !.vrrp[v].state = IF q.vrrp[v].flags # {} THEN "FAULT" ELSE "BACK"]

-----------------------------------------------------------------------------
(* The messages about links.                                               *)

\* netlink_if_link_populate(): the base is found by its index, if it is known by it.
netlink_if_link_populate(q, m) ==
    LET n == m.name
        known == {b \in Names : m.base # 0 /\ q.ifp[b].index = m.base}
    IN [q EXCEPT !.ifp[n].index = m.index, !.ifp[n].vmac = m.base # 0,
                 !.ifp[n].base = IF known # {} THEN CHOOSE b \in known : TRUE ELSE n,
                 !.ifp[n].up = m.up, !.ifp[n].seen_up = @ \/ m.up]

\* update_added_interface(), for one instance.
Added(q, v, n) ==
    IF UsesVmac(q, v)
    THEN LET f == IF ~if_isup(q, "eth0") /\ q.setup.track
                  THEN [q EXCEPT !.vrrp[v].flags = @ \cup {"BASE_INTERFACE_DOWN"}] ELSE q
         IN IF n = "eth0" /\ q.ifp["vm"].index = 0 THEN [f EXCEPT !.recreate = TRUE] ELSE f
    ELSE IF n = IfOf(q, v) THEN Reopen(q, v) ELSE q
RECURSIVE update_added_interface(_, _, _)
update_added_interface(q, n, order) ==
    IF order = <<>> THEN q ELSE update_added_interface(Added(q, Head(order), n), n, Tail(order))

\* A link that is not known by its index: the entry of its name is cleared and filled
\* again, which forgets a timer that is still to run, and the times to wait.  It is down
\* until it is seen to be up.
NewInterface(q, m, immediate) ==
    LET n == m.name
        forgotten == IF q.ifp[n].pending = "none" THEN {} ELSE {<<n, q.ifp[n].pending>>}
        p == netlink_if_link_populate([q EXCEPT !.ifp[n] = NoIf(n), !.forgotten = @ \cup forgotten], m)
        a == update_added_interface(p, n, Order(q, n))
    IN update_interface_flags([a EXCEPT !.ifp[n].up = FALSE], n, m.up, immediate)

\* Mutant: the socket is kept.
Lost_keeps_socket(q, v, n) ==
    LET n0 == IfOf(q, v)
        c == [q EXCEPT !.vrrp[v].vmac_up = IF q.ifp[n0].ours THEN FALSE ELSE @]
    IN IF q.ifp[n0].index = 0 THEN q
       ELSE IF if_isup(q, n) THEN down_instance(c, v, Flag(q, v, n)) ELSE c
\* cleanup_lost_interface(), for one instance: the VMAC is down, the socket closed.
Lost(q, v, n) ==
    LET n0 == IfOf(q, v)
        c == [q EXCEPT !.vrrp[v].vmac_up = IF q.ifp[n0].ours THEN FALSE ELSE @, !.vrrp[v].fd = 0]
    IN IF q.ifp[n0].index = 0 THEN q
       ELSE IF if_isup(q, n) THEN down_instance(c, v, Flag(q, v, n)) ELSE c
RECURSIVE LostAll(_, _, _)
LostAll(q, n, order) == IF order = <<>> THEN q ELSE LostAll(Lost(q, Head(order), n), n, Tail(order))

LoseInterface(q, n) ==
    [LostAll(q, n, Order(q, n)) EXCEPT !.ifp[n].index = 0, !.ifp[n].up = FALSE, !.ifp[n].seen_up = FALSE,
                                       !.ifp[n].base = IF q.ifp[n].ours THEN @ ELSE n]

RECURSIVE netlink_link_filter(_, _), kernel_netlink_poll(_)

\* netlink_link_del_vmac(): what the kernel says about it is read before going on.
netlink_link_del_vmac(q) ==
    LET index == q.ifp["vm"].index
        sent == [q EXCEPT !.queue = @ \o Gone(q.k, "vm"), !.k = Without(q.k, "vm"), !.ifp["vm"].deleting = TRUE]
        read == kernel_netlink_poll(sent)
    IN IF index = 0 \/ q.k["vm"].index # index THEN q
       ELSE [read EXCEPT !.ifp["vm"].deleting = FALSE, !.ifp["vm"].ours = FALSE]

\* cleanup_lost_interface(): the VMACs configured on the interface go with it.
cleanup_lost_interface(q, n) ==
    LET c == LoseInterface(q, n)
    IN IF n = "eth0" /\ (\E v \in DOMAIN q.vrrp : UsesVmac(q, v)) /\ c.ifp["vm"].base = "eth0" /\ c.ifp["vm"].ours
       THEN netlink_link_del_vmac(c) ELSE c

\* One of our VMACs is created again when it is renamed; the state of the one that was
\* renamed is still taken for that of the entry.
Renamed(q, n, m) ==
    IF q.ifp[n].ours
    THEN update_interface_flags([q EXCEPT !.recreate = @ \/ q.ifp[q.ifp[n].base].index # 0], n, m.up, TRUE)
    ELSE NewInterface(q, m, TRUE)

netlink_link_filter(q, m) ==
    LET known == {n \in Names : q.ifp[n].index = m.index}
        n == CHOOSE n \in known : TRUE
        lost == cleanup_lost_interface(q, n)
    IN IF known = {} THEN IF m.type = "NEWLINK" THEN NewInterface(q, m, FALSE) ELSE q
       ELSE IF m.type = "DELLINK"
       THEN update_interface_flags([lost EXCEPT !.recreate = @ \/ (lost.ifp[n].ours /\ ~lost.ifp[n].deleting)], n, FALSE, FALSE)
       ELSE IF n # m.name THEN Renamed(lost, n, m)
       ELSE update_interface_flags(q, n, m.up, FALSE)
kernel_netlink_poll(q) ==
    IF q.queue = <<>> THEN q
    ELSE kernel_netlink_poll(netlink_link_filter([q EXCEPT !.queue = Tail(@)], Head(q.queue)))

-----------------------------------------------------------------------------
(* VMACs.                                                                  *)

\* Creating it: the kernel needs the interface under the index we know.
CanCreate(q) == q.ifp["eth0"].index # 0 /\ \E n \in Names : q.k[n].index = q.ifp["eth0"].index
Create(q) ==
    LET k == [q.k EXCEPT !["vm"] = [index |-> q.next, up |-> FALSE, base |-> q.ifp["eth0"].index]]
        c == [q EXCEPT !.k = k, !.next = @ + 1, !.queue = Append(@, NewLink(k, "vm")), !.ifp["vm"].ours = TRUE]
        seen == netlink_if_link_populate(c, NewLink(k, "vm"))   \* netlink_interface_lookup()
    IN kernel_netlink_poll(seen)
LinkUp(q, v) ==
    LET k == [q.k EXCEPT !["vm"].up = TRUE]
        up == IF Exists(q.k, "vm") /\ q.k["vm"].index = q.ifp["vm"].index /\ Free(q.k, "vm")
              THEN [q EXCEPT !.k = k, !.queue = Append(@, NewLink(k, "vm"))] ELSE q
    IN kernel_netlink_poll([up EXCEPT !.vrrp[v].vmac_up = TRUE])

\* netlink_link_add_vmac(): <<made, q>>.
netlink_link_add_vmac(q, v) ==
    LET c == Create(q)
    IN IF q.vrrp[v].vmac_up THEN <<FALSE, q>>
       ELSE IF Exists(q.k, "vm") \/ ~CanCreate(q) THEN <<FALSE, [q EXCEPT !.ifp["vm"].ours = TRUE]>>
       ELSE IF c.ifp["vm"].index = 0 THEN <<FALSE, c>>
       ELSE <<TRUE, LinkUp(c, v)>>

\* setup_interface()
setup_interface(q, v) ==
    LET a == netlink_link_add_vmac(q, v)
    IN IF q.ifp["vm"].index # 0 THEN Reopen(q, v)
       ELSE IF a[1] THEN Reopen(a[2], v) ELSE a[2]

recreate_vmac_thread ==
    /\ s.recreate /\ ~s.reading
    /\ LET q == [s EXCEPT !.recreate = FALSE]
           users == SelectSeq(Order(s, "vm"), LAMBDA v : UsesVmac(s, v))
       IN s' = IF users = <<>> \/ s.ifp["eth0"].index = 0 THEN q ELSE setup_interface(q, Head(users))

-----------------------------------------------------------------------------
(* The process.                                                            *)

\* kernel_netlink(): messages are read until there is none.
kernel_netlink ==
    \/ s.queue # <<>> /\ s' = [netlink_link_filter([s EXCEPT !.queue = Tail(@)], Head(s.queue)) EXCEPT !.reading = TRUE]
    \/ s.reading /\ s.queue = <<>> /\ s' = [s EXCEPT !.reading = FALSE]

delayed_if_flags_change_thread ==
    \/ \E n \in Names :
         /\ ~s.reading /\ s.ifp[n].pending # "none"
         /\ s' = process_interface_flags_change([s EXCEPT !.ifp[n].pending = "none"], n, s.ifp[n].pending = "up")
    \/ \E t \in s.forgotten :
         /\ ~s.reading
         /\ LET q == process_interface_flags_change([s EXCEPT !.forgotten = @ \ {t}], t[1], t[2] = "up")
            IN s' = [q EXCEPT !.ifp[t[1]].pending = "none", !.late = @ \cup {t[1]}]

\* An instance that hears of no master becomes it.
Promote ==
    \E v \in DOMAIN s.vrrp :
      /\ ~s.reading /\ s.vrrp[v].state = "BACK" /\ s.vrrp[v].fd # 0
      /\ s' = [s EXCEPT !.vrrp[v].state = "MAST"]

-----------------------------------------------------------------------------
(* What happens to the interfaces.                                         *)

Happens(k, messages) == s' = [s EXCEPT !.k = k, !.queue = @ \o messages, !.left = @ - 1]
Toggle ==
    \E n \in {n \in Names : Exists(s.k, n)} :
      LET k == [s.k EXCEPT ![n].up = ~@]
      IN /\ n \in Vlans /\ ~s.k[n].up => Free(s.k, n)
         /\ Happens(k, IF n \in Vlans THEN <<NewLink(k, n)>> ELSE WithVmac(k, NewLink(k, n)))
Delete == \E n \in {n \in Names : Exists(s.k, n)} : Happens(Without(s.k, n), Gone(s.k, n))
Add ==
    /\ ~Exists(s.k, "eth0") /\ ~Exists(s.k, "x")
    /\ LET k == [s.k EXCEPT !["eth0"] = [index |-> s.next, up |-> FALSE, base |-> 0]]
       IN s' = [s EXCEPT !.k = k, !.queue = Append(@, NewLink(k, "eth0")), !.next = @ + 1, !.left = @ - 1]
\* Bounds: a VMAC that was renamed does not get its name back, and an interface is not
\* renamed again before the message about the first time is read.
Rename ==
    \E a, b \in Names :
      /\ <<a, b>> \in {<<"eth0", "x">>, <<"x", "eth0">>, <<"vm", "y">>}
      /\ Exists(s.k, a) /\ ~Exists(s.k, b) /\ s.setup.rename
      /\ \A n \in Names \ {a} : s.ifp[n].index # s.k[a].index
      /\ LET k == [s.k EXCEPT ![a] = NoLink, ![b] = s.k[a]]
         IN Happens(k, <<NewLink(k, b)>>)
Kernel == s.left > 0 /\ (Toggle \/ Delete \/ Add \/ Rename)

-----------------------------------------------------------------------------
Init ==
    \E c \in Setups, up \in BOOLEAN :
      LET made == TRUE \in {c.vmac[v] : v \in DOMAIN c.vmac}
          eth == [index |-> 1, up |-> up, base |-> 0]
          k == [n \in Names |-> IF n = "eth0" THEN eth
                                ELSE IF n = "vm" /\ made THEN [index |-> 2, up |-> TRUE, base |-> 1] ELSE NoLink]
          down(v) == IF up THEN {} ELSE IF c.vmac[v] THEN {"INTERFACE_DOWN", "BASE_INTERFACE_DOWN"} ELSE {"INTERFACE_DOWN"}
      IN s = [setup |-> c, k |-> k, queue |-> <<>>, next |-> 3, left |-> MaxKernel, recreate |-> FALSE,
              reading |-> FALSE, forgotten |-> {}, late |-> {},
              ifp |-> [n \in Names |->
                        [NoIf(n) EXCEPT !.index = k[n].index, !.up = Exists(k, n) /\ up, !.seen_up = Exists(k, n) /\ up,
                                        !.ours = (n = "vm" /\ made), !.vmac = (n = "vm" /\ made),
                                        !.base = IF n = "vm" /\ made THEN "eth0" ELSE n,
                                        !.debounce = (c.debounce /\ n = "eth0")]],
              vrrp |-> [v \in DOMAIN c.vmac |->
                         [flags |-> IF c.track THEN down(v) ELSE {}, state |-> IF up \/ ~c.track THEN "BACK" ELSE "FAULT",
                          fd |-> IF c.vmac[v] THEN 2 ELSE 1, vmac_up |-> c.vmac[v]]]]

Next == kernel_netlink \/ delayed_if_flags_change_thread \/ recreate_vmac_thread \/ Promote \/ Kernel

-----------------------------------------------------------------------------
Settled == s.queue = <<>> /\ ~s.reading /\ ~s.recreate /\ s.forgotten = {} /\ \A n \in Names : s.ifp[n].pending = "none"

\* However interfaces go down, go away, come back and are renamed, and however late that
\* is read: once it has been, an instance is in the fault state exactly when one of its
\* interfaces is down, its VMAC has been created again on the interface it belongs to,
\* and its socket is bound to the interface there is now.  Renaming has two exceptions, in
\* the code ("what if interface has been deleted, name changed, etc?"): a delayed change is
\* applied although the interface has another name by then, and the state of a VMAC that
\* is renamed is taken for that of the one to come.  The instance then may have the wrong
\* state until the next change.
LinksSettle ==
    Settled => \A v \in DOMAIN s.vrrp :
      LET n == IfOf(s, v)
      IN /\ {n, "eth0"} \cap s.late = {} =>
              /\ s.setup.track => (s.vrrp[v].flags = {} <=> Runs(s.k, n) /\ Runs(s.k, "eth0"))
              /\ (s.vrrp[v].state = "FAULT") <=> (s.vrrp[v].flags # {})
         /\ Exists(s.k, "eth0") => Exists(s.k, n) /\ s.vrrp[v].fd = s.k[n].index
         /\ Exists(s.k, "vm") => s.k["vm"].base = s.k["eth0"].index

=============================================================================
