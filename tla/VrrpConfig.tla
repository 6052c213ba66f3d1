----------------------------- MODULE VrrpConfig -----------------------------
(***************************************************************************)
(* How the configuration of VRRP instances is read and completed: the      *)
(* keyword handlers of vrrp_parser.c, which take the statements one by one *)
(* in the order of the file, and vrrp_complete_init() (vrrp.c), which      *)
(* defaults, corrects and cross-checks what they left.                     *)
(*                                                                         *)
(* A statement is <<keyword, value>>.  Numbers are as in the code (-1 is    *)
(* PARAMETER_UNSET; BAD is one the keyword's handler cannot read),         *)
(* times are in milliseconds, flags are the set of bits of vrrp->flags.    *)
(* A device is <<interface>>, or <<interface, family, vrid>> for the       *)
(* macvlan that has the virtual MAC address on it, or <<>>.                *)
(***************************************************************************)
EXTENDS Integers, Sequences, FiniteSets, SequencesExt

CONSTANTS
    Cases,      \* what may be configured: a sequence of sets, see Init
    Ifs,        \* the interfaces: name |-> [index, ether, mcast, mtu, lo, base]
    MaxAddr     \* VRRP_MAX_ADDR: the addresses the count field can express

VARIABLE cfg    \* what is read, and the instances: see Init

-----------------------------------------------------------------------------
UNSET == -1
BAD == -999                             \* a number the handler rejects
OWNER == 255
Tracked == {"if", "own", "script", "file", "process", "bfd"}   \* "own": its own interface
NoTrack == 999                          \* not tracked
No == "none"

\* alloc_vrrp(): an instance as it is before its first statement.  "removed" is not in
\* the code: how many addresses were removed although vip_cnt still counts them.
alloc_vrrp == [
    flags |-> {}, family |-> 0, version |-> 0, wantstate |-> "INIT", base_priority |-> 0,
    ifp |-> No, configured_ifp |-> No, vrf |-> No, saddr |-> No, mcast |-> 0, ttl |-> -1,
    auth |-> "NONE", pass |-> FALSE, strict |-> UNSET, preempt_delay |-> 0,
    down_timer_adverts |-> 3, other_prio |-> 0, accept |-> UNSET, adver_int |-> 0,
    lower_rep |-> UNSET, lower_no_advert |-> UNSET, higher_send |-> UNSET,
    owner_ignore |-> UNSET, vrid |-> 0, vip |-> <<>>, vip_cnt |-> 0, evip |-> <<>>,
    peers |-> {}, ipvlan_addr |-> 0, name |-> No, link |-> <<>>, vipset |-> FALSE, vmac_garp |-> UNSET,
    track |-> [k \in Tracked |-> NoTrack], top |-> [k \in Tracked |-> NoTrack],
    faults |-> 0, notify |-> {}, notify_priority |-> UNSET, removed |-> 0 ]

Has(v, bit) == bit \in v.flags
Set(v, bits) == [v EXCEPT !.flags = @ \union bits]
Clear(v, bits) == [v EXCEPT !.flags = @ \ bits]
Owner(v) == v.base_priority = OWNER
Vlan(v) == v.flags \intersect {"VMAC", "IPVLAN"} # {}
When(cond, new, old) == IF cond THEN new ELSE old
IfUp(i) == i # No /\ Ifs[i].index

-----------------------------------------------------------------------------
(* The keyword handlers.                                                   *)

\* The instance takes the family of its first address; another family is refused.
TakesFamily(v, f) == v.family \in {0, f}

vrrp_vmac_handler(v, arg) ==
    LET w == Set(v, {"VMAC"})
    IN  CASE arg = "" -> w
          [] arg = "mac" -> Set(w, {"MAC_SPECIFIED"})
          [] arg = "bad" -> w                       \* an address or a name that is refused
          [] OTHER -> When(w.name = No, [w EXCEPT !.name = arg], w)

\* use_vmac_addr, vmac_xmit_base
vrrp_vmac_flag(v, bit) == Set(v, {bit})

vrrp_ipvlan_handler(v, f) ==
    IF Has(v, "IPVLAN") THEN v
    ELSE LET w == Set(v, {"IPVLAN"})
         IN  IF f = 0 \/ ~TakesFamily(w, f) THEN w
             ELSE LET a == [w EXCEPT !.ipvlan_addr = f, !.family = f]
                  IN  When(a.saddr = No, Set([a EXCEPT !.saddr = "ipvlan"], {"SADDR"}), a)

\* unicast_peer, unicast_fault_no_peer, check_unicast_src, old_unicast_checksum
vrrp_unicast_handler(v, kw, arg) ==
    LET w == Set(v, {"UNICAST_CONFIGURED"})
    IN  CASE kw = "unicast_peer" ->
               When(TakesFamily(w, arg[1]),
                    [w EXCEPT !.family = arg[1], !.peers = @ \union {arg}], w)
          [] kw = "unicast_fault_no_peer" -> Set(w, {"FAULT_NO_PEERS"})
          [] OTHER -> w

vrrp_native_ipv6_handler(v) ==
    When(v.family # 4, [v EXCEPT !.family = 6, !.version = 3], v)

vrrp_state_handler(v, arg) ==
    [v EXCEPT !.wantstate =
        CASE arg = "MASTER" -> "MAST"
          [] arg = "BACKUP" -> When(@ = "MAST", "MAST", "BACK")
          [] OTHER -> "BACK"]

vrrp_int_handler(v, i) ==
    LET dev == When(i \in DOMAIN Ifs, i, No)
        use == When(dev # No /\ Ifs[dev].lo, No, dev)
    IN  [v EXCEPT !.ifp = use, !.configured_ifp = use]

vrrp_vrf_handler(v, i) ==
    When(v.ifp = No /\ v.vrf = No /\ i \in DOMAIN Ifs /\ ~Ifs[i].lo, [v EXCEPT !.vrf = i], v)

\* track_interface, track_script, ...: the weight of the one object of its kind; ±254 is
\* reduced for interfaces and scripts, a bad weight is the default, a second one is ignored.
vrrp_track_handler(v, kind, w) ==
    LET weight == CASE w = BAD -> IF kind = "file" THEN 1 ELSE 0
                    [] w = 254 /\ kind \in {"if", "script"} -> 253
                    [] OTHER -> w
    IN  When(v.track[kind] = NoTrack, [v EXCEPT !.track[kind] = weight], v)

vrrp_dont_track_handler(v) == Set(v, {"DONT_TRACK_PRIMARY"})

\* mcast_src_ip and, with UNICAST_CONFIGURED, unicast_src_ip; an address of the wrong
\* family takes back an earlier one.
SaddrFamily(a) == IF a = "v4" THEN 4 ELSE 6
vrrp_srcip_handler(v, a) ==
    IF a = "bad" THEN v
    ELSE IF TakesFamily(v, SaddrFamily(a))
         THEN Set([v EXCEPT !.saddr = a, !.family = SaddrFamily(a)], {"SADDR"})
         ELSE Clear([v EXCEPT !.saddr = No], {"SADDR"})

\* mcast_dst_ip: f is the family, 0 an address that is not multicast or link-local.
vrrp_mcast_dstip_handler(v, f, multicast) ==
    IF TakesFamily(v, f) THEN [v EXCEPT !.family = f, !.mcast = When(multicast, f, 0)]
    ELSE [v EXCEPT !.mcast = 0]

vrrp_vrid_handler(v, n) == When(n \in 1..255, [v EXCEPT !.vrid = n], v)
vrrp_ttl_handler(v, n) == When(n \in 0..255, [v EXCEPT !.ttl = n], v)
vrrp_prio_handler(v, n) == [v EXCEPT !.base_priority = When(n \in 1..OWNER, n, 100)]
vrrp_adv_handler(v, ms) == When(ms \in 10..255000, [v EXCEPT !.adver_int = ms], v)

\* The value is read and then ignored: "skip_check_adv_addr false" sets the flag too.
vrrp_skip_check_adv_addr_handler(v, arg) ==
    When(arg # BAD, Set(v, {"SKIP_CHECK_ADV_ADDR"}), v)
vrrp_strict_mode_handler(v, arg) == When(arg # BAD, [v EXCEPT !.strict = arg], v)
vrrp_preempt_handlers(v, no) ==
    When(no, Set(v, {"NOPREEMPT"}), Clear(v, {"NOPREEMPT"}))
vrrp_preempt_delay_handler(v, ms) == [v EXCEPT !.preempt_delay = When(ms = BAD, 0, ms)]

\* notify_master, notify_backup, ...: the first script of a kind stays.
vrrp_notify_handlers(v, kind) == [v EXCEPT !.notify = @ \union {kind}]
vrrp_notify_priority_changes_handler(v, arg) ==
    When(arg # BAD, [v EXCEPT !.notify_priority = arg], v)

vrrp_garp_lower_prio_rep_handler(v, n) == When(n # BAD, [v EXCEPT !.lower_rep = n], v)
vrrp_down_timer_adverts_handler(v, n) ==
    When(n \in 1..100, [v EXCEPT !.down_timer_adverts = n], v)
vrrp_timer_expired_backup_handler(v, n) ==
    When(n \in 1..(OWNER - 1), [v EXCEPT !.other_prio = n], v)
vrrp_garp_extra_if_handler(v, all, secs) ==
    LET w == When(all, Set(v, {"GARP_ALL_IF"}), v)
    IN  When(secs \in 0..86400, [w EXCEPT !.vmac_garp = secs], w)
\* lower_prio_no_advert, higher_prio_send_advert, owner_ignore_adverts
vrrp_advert_choice(v, field, arg) == When(arg # BAD, [v EXCEPT ![field] = arg], v)

vrrp_auth_handlers(v, kw, arg) ==
    IF kw = "auth_pass" THEN [v EXCEPT !.pass = arg # ""]
    ELSE When(arg \in {"AH", "PASS"}, [v EXCEPT !.auth = arg], v)

\* vip_is_duplicate(): an address may come twice only as VIP and eVIP of different devices.
vip_is_duplicate(v, a, excluded) ==
    \/ \E i \in DOMAIN v.vip : v.vip[i].id = a.id /\ (excluded => v.vip[i].dev = a.dev)
    \/ \E i \in DOMAIN v.evip : v.evip[i].id = a.id /\ v.evip[i].dev = a.dev

\* A block of addresses is n of them; alloc_vrrp_vip() takes one.
alloc_vrrp_vip(v, a) ==
    IF ~TakesFamily(v, a.family) \/ vip_is_duplicate(v, a, FALSE)
    THEN When(v.family = 0, [v EXCEPT !.family = a.family], v)
    ELSE [v EXCEPT !.family = a.family, !.vip = Append(@, a), !.vip_cnt = @ + 1]
alloc_vrrp_evip(v, a) ==
    When(vip_is_duplicate(v, a, TRUE), v, [v EXCEPT !.evip = Append(@, a)])

vrrp_no_vip_handler(v) == Set(v, {"ALLOW_NO_VIPS"})
vrrp_promote_secondaries_handler(v) == Set(v, {"PROMOTE_SECONDARIES"})

vrrp_version_handler(v, n) ==
    When(/\ n \in {2, 3}
         /\ v.version \in {0, n}
         /\ ~(n = 2 /\ v.family = 6), [v EXCEPT !.version = n], v)

\* accept, no_accept
vrrp_accept_handlers(v, yes) == [v EXCEPT !.accept = yes]

\* vrrp_end_handler(): the closing brace of the instance.
vrrp_end_handler(v) ==
    LET novlan == Has(v, "UNICAST_CONFIGURED") /\ Vlan(v) /\ v.ifp = No
        xmit == Has(v, "UNICAST_CONFIGURED") /\ Vlan(v) /\ v.ifp # No
        w == CASE novlan -> [Clear(v, {"VMAC", "IPVLAN"}) EXCEPT !.name = No]
               [] xmit -> Set(v, {"XMITBASE"})
               [] OTHER -> v
    IN  When(v.peers = {} /\ v.ttl # -1, [w EXCEPT !.ttl = 0], w)

\* One statement: the handler init_vrrp_keywords() installs for the keyword.
Handle(v, kw, arg) ==
    CASE kw = "use_vmac" -> vrrp_vmac_handler(v, arg)
      [] kw = "use_vmac_addr" -> vrrp_vmac_flag(v, "VMAC_ADDR")
      [] kw = "vmac_xmit_base" -> vrrp_vmac_flag(v, "XMITBASE")
      [] kw = "use_ipvlan" -> vrrp_ipvlan_handler(v, arg)
      [] kw \in {"unicast_peer", "unicast_fault_no_peer", "check_unicast_src"} ->
           vrrp_unicast_handler(v, kw, arg)
      [] kw = "native_ipv6" -> vrrp_native_ipv6_handler(v)
      [] kw = "state" -> vrrp_state_handler(v, arg)
      [] kw = "interface" -> vrrp_int_handler(v, arg)
      [] kw = "vrf" -> vrrp_vrf_handler(v, arg)
      [] kw \in Tracked -> vrrp_track_handler(v, kw, arg)
      [] kw = "dont_track_primary" -> vrrp_dont_track_handler(v)
      [] kw = "mcast_src_ip" -> vrrp_srcip_handler(v, arg)
      [] kw = "unicast_src_ip" -> vrrp_srcip_handler(Set(v, {"UNICAST_CONFIGURED"}), arg)
      [] kw = "mcast_dst_ip" -> vrrp_mcast_dstip_handler(v, arg[1], arg[2])
      [] kw = "track_src_ip" -> Set(v, {"TRACK_SADDR"})
      [] kw = "virtual_router_id" -> vrrp_vrid_handler(v, arg)
      [] kw = "unicast_ttl" -> vrrp_ttl_handler(v, arg)
      [] kw = "version" -> vrrp_version_handler(v, arg)
      [] kw = "priority" -> vrrp_prio_handler(v, arg)
      [] kw = "advert_int" -> vrrp_adv_handler(v, arg)
      [] kw = "virtual_ipaddress" -> FoldSeq(LAMBDA a, w : alloc_vrrp_vip(w, a), v, arg)
      [] kw = "virtual_ipaddress_excluded" -> FoldSeq(LAMBDA a, w : alloc_vrrp_evip(w, a), v, arg)
      [] kw = "no_virtual_ipaddress" -> vrrp_no_vip_handler(v)
      [] kw = "promote_secondaries" -> vrrp_promote_secondaries_handler(v)
      [] kw = "accept" -> vrrp_accept_handlers(v, arg)
      [] kw = "skip_check_adv_addr" -> vrrp_skip_check_adv_addr_handler(v, arg)
      [] kw = "strict_mode" -> vrrp_strict_mode_handler(v, arg)
      [] kw = "preempt" -> vrrp_preempt_handlers(v, FALSE)
      [] kw = "nopreempt" -> vrrp_preempt_handlers(v, TRUE)
      [] kw = "preempt_delay" -> vrrp_preempt_delay_handler(v, arg)
      [] kw = "notify" -> vrrp_notify_handlers(v, arg)
      [] kw = "notify_priority_changes" -> vrrp_notify_priority_changes_handler(v, arg)
      [] kw = "garp_lower_prio_repeat" -> vrrp_garp_lower_prio_rep_handler(v, arg)
      [] kw = "down_timer_adverts" -> vrrp_down_timer_adverts_handler(v, arg)
      [] kw = "timer_expired_backup" -> vrrp_timer_expired_backup_handler(v, arg)
      [] kw = "garp_extra_if" -> vrrp_garp_extra_if_handler(v, arg[1], arg[2])
      [] kw \in {"lower_no_advert", "higher_send", "owner_ignore"} ->
           vrrp_advert_choice(v, kw, arg)
      [] kw \in {"auth_type", "auth_pass"} -> vrrp_auth_handlers(v, kw, arg)

-----------------------------------------------------------------------------
(* vrrp_complete_instance(), in the order of the code; g is global_data.   *)

\* Strict mode, address family and version.
complete_version(v, g) ==
    LET s == When(v.strict = UNSET, g.strict, v.strict)
        f == When(v.family = 0, 4, v.family)
        n == CASE v.family = 6 /\ v.version = 2 /\ s = 1 -> 3
               [] v.version = 0 -> When(f = 6, 3, g.version)
               [] OTHER -> v.version
    IN  [v EXCEPT !.strict = s, !.family = f, !.version = n,
                  !.ttl = When(f = 4 /\ @ = -1, 255, @)]

\* Priority and initial state derive from each other; strict mode wants them to match.
complete_state(v) ==
    LET p == CASE v.base_priority # 0 -> v.base_priority
               [] v.wantstate = "MAST" -> OWNER
               [] OTHER -> 100
        own == When(p = OWNER, "MAST", "BACK")
    IN  [v EXCEPT !.base_priority = p,
                  !.wantstate = When(@ = "INIT" \/ v.strict = 1, own, @)]

\* Authentication is for version 2 outside strict mode, AH for IPv4 backups.
complete_auth(v) ==
    CASE v.auth = "NONE" -> v
      [] \/ v.strict = 1 \/ v.version = 3 \/ ~v.pass
         \/ v.family = 6 /\ v.auth = "AH" -> [v EXCEPT !.auth = "NONE"]
      [] v.auth = "AH" /\ v.wantstate = "MAST" /\ ~Owner(v) -> [v EXCEPT !.wantstate = "BACK"]
      [] OTHER -> v

\* Unicast needs peers: without them the instance falls back to multicast or is held down.
complete_unicast(v) ==
    CASE ~Has(v, "UNICAST_CONFIGURED") -> v
      [] v.peers # {} -> Set(v, {"UNICAST"})
      [] Has(v, "FAULT_NO_PEERS") -> [v EXCEPT !.faults = @ + 1]
      [] OTHER -> v

\* The two cases in which the whole configuration is refused at this point.
RefusedUnicast(v) ==
    \/ v.strict = 1 /\ Has(v, "UNICAST") /\ IfUp(v.ifp) /\ Ifs[v.ifp].mcast
    \/ v.ifp = No /\ (~Has(v, "SADDR") \/ (v.family = 6 /\ v.saddr = "v6ll"))

\* What the interface supports; use_vmac on something else than Ethernet clears all flags.
complete_interface(v) ==
    LET a == When(v.strict = 1, Clear(v, {"MAC_SPECIFIED"}), v)
        b == When(Vlan(a) /\ IfUp(a.ifp) /\ ~Ifs[a.ifp].ether,
                  [a EXCEPT !.flags = {}, !.faults = @ + 1], a)
        c == When(IfUp(b.ifp) /\ ~Ifs[b.ifp].mcast /\ ~Has(b, "UNICAST"),
                  [b EXCEPT !.faults = @ + 1], b)
    IN  When(c.ifp # No \/ ~Has(c, "UNICAST"), [c EXCEPT !.vrf = No], c)

\* How many addresses fit into an advert (the subtraction is in size_t: an interface that
\* does not exist yet has MTU 0, and the difference wraps round to a huge number).
MaxAdvertised(v) ==
    LET mtu == IF v.ifp = No THEN 1500 ELSE Ifs[v.ifp].mtu
        hdr == CASE v.family = 6 -> 62
                 [] v.version = 3 -> 42
                 [] v.auth = "AH" -> 74
                 [] OTHER -> 50
        n == (mtu - hdr) \div When(v.family = 6, 16, 4)
    IN  When(mtu < hdr \/ n > MaxAddr, MaxAddr, n)

\* Addresses that do not fit are moved to the addresses that are not advertised.
complete_vips(v, n) ==
    IF v.vip_cnt <= n THEN v
    ELSE [v EXCEPT !.vip = SubSeq(@, 1, n), !.evip = @ \o SubSeq(v.vip, n + 1, Len(v.vip)),
                   !.vip_cnt = @ - (Len(v.vip) - n)]

\* Mutant of complete_preempt: timer_expired_backup is checked before nopreempt is cleared.
complete_preempt_early(v) ==
    LET mast == v.wantstate = "MAST"
        a == When(Owner(v) \/ mast, Clear(v, {"NOPREEMPT"}), v)
    IN  [a EXCEPT !.preempt_delay = When(mast \/ a.strict = 1 \/ Has(a, "NOPREEMPT"), 0, @),
                  !.down_timer_adverts = When(a.strict = 1, 3, @),
                  !.other_prio = When(Has(v, "NOPREEMPT"), @, 0)]

\* nopreempt, preempt_delay, down_timer_adverts and timer_expired_backup.
complete_preempt(v) ==
    LET mast == v.wantstate = "MAST"
        a == When(Owner(v) \/ mast, Clear(v, {"NOPREEMPT"}), v)
        no == Has(a, "NOPREEMPT")
    IN  [a EXCEPT !.preempt_delay = When(mast \/ a.strict = 1 \/ no, 0, @),
                  !.down_timer_adverts = When(a.strict = 1, 3, @),
                  !.other_prio = When(no, @, 0)]

\* accept mode and the multicast destination.
complete_accept(v) ==
    LET d == When(v.accept = UNSET, When(Owner(v) \/ v.strict = 0, 1, 0), v.accept)
    IN  [v EXCEPT !.accept = When(~Owner(v) /\ v.strict = 1 /\ v.version = 2, 0, d),
                  !.mcast = CASE Has(v, "UNICAST") -> 0
                              [] @ = 0 -> v.family
                              [] OTHER -> @]

\* What strict mode says about adverts, and the defaults outside it.
complete_adverts(v, g) ==
    LET s == v.strict = 1
        o == v.owner_ignore
    IN  [v EXCEPT
           !.lower_rep = CASE s -> 0 [] @ = UNSET -> g.lower_rep [] OTHER -> @,
           !.lower_no_advert = CASE s -> 1 [] @ = UNSET -> g.lower_no_advert [] OTHER -> @,
           !.higher_send = CASE s -> 0 [] @ = UNSET -> g.higher_send [] OTHER -> @,
           !.owner_ignore =
               CASE ~Owner(v) -> 0
                 [] Owner(v) /\ o = UNSET -> When(s, 1, g.owner_ignore)
                 [] OTHER -> 1,
           !.notify_priority = When(@ = UNSET, g.notify_priority, @)]

\* The advert interval fits the packet: whole seconds in 8 bits, or 10 ms units in 12 bits.
Rounded(ms, unit) == ((ms + unit \div 2) \div unit) * unit
complete_adver_int(v) ==
    LET i == When(v.adver_int = 0, 1000, v.adver_int)
        v2 == CASE i >= 256000 -> 255000
                [] i % 1000 # 0 -> When(Rounded(i, 1000) = 0, 1000, Rounded(i, 1000))
                [] OTHER -> i
        v3 == CASE i >= 40960 -> 40950
                [] i % 10 # 0 -> When(Rounded(i, 10) = 40960, 40950,
                                      When(Rounded(i, 10) = 0, 10, Rounded(i, 10)))
                [] OTHER -> i
    IN  [v EXCEPT !.adver_int = When(v.version = 2, v2, v3)]

\* Source address tracking, and the name and interface of a VMAC or IPVLAN.  g.exists says
\* what interface is there already: one that matches, or one with the configured name.
complete_vlan(v, g) ==
    LET a == When(Has(v, "SADDR"), v, Clear(v, {"TRACK_SADDR"}))
        gone == g.exists = "match" /\ a.name \notin {No, "found"} /\ g.reload
        found == g.exists = "match" /\ ~gone
        name == CASE found -> "found"
                  [] a.name = No \/ g.exists = "plain" -> "generated"
                  [] OTHER -> a.name
        b == Clear([a EXCEPT !.name = name, !.link = <<a.ifp, a.family, a.vrid>>],
                   {"PROMOTE_SECONDARIES"} \union When(Has(a, "VMAC") /\ a.strict = 1, {"XMITBASE"}, {}))
        c == When(found, Set(b, {"VMAC_UP"}), b)
        bad == /\ Has(c, "IPVLAN")
               /\ c.ipvlan_addr \notin When(c.family = 4, {4}, {0, 6})
    IN  IF ~Vlan(a) THEN [a EXCEPT !.vipset = ~g.reload /\ (a.ifp = No \/ Ifs[a.ifp].index)]
        ELSE [c EXCEPT !.faults = @ + When(bad, 1, 0), !.vipset = found /\ ~g.reload]

\* add_vrrp_to_interface(), add_vrrp_to_track_script(), ...: a weight of the sync group
\* replaces the instance's own unless that is 0.
add_vrrp_to(v, kind, w) ==
    When(v.top[kind] = 0, v, [v EXCEPT !.top[kind] = w])

\* The interfaces the instance tracks, and the flags only a VMAC has.
complete_interfaces(v) ==
    LET a == [v EXCEPT !.track["own"] = When(v.ifp = No, @, NoTrack)]
        b == When(a.ifp # No /\ a.track["if"] # NoTrack, add_vrrp_to(a, "if", a.track["if"]), a)
        c == When(Has(b, "VMAC"), b, Clear(b, {"XMITBASE"}))
        d == When(Vlan(c) /\ \E i \in DOMAIN c.evip : c.evip[i].family # c.family,
                  Set(c, {"EVIP_OTHER_FAMILY"}), c)
    IN  When(Vlan(d) /\ IfUp(d.ifp), Set(d, {"VMAC_UP"}), d)

\* The interface of each address; an address that has none is removed (vip_cnt is not).
OnOwnIf(v, a) == a.dev \in {<<>>, <<v.ifp>>}
OnOwnVmac(v, a) == OnOwnIf(v, a) /\ Has(v, "VMAC") /\ a.family = v.family
\* The address gets a macvlan of its own.
OnExtraVmac(v, a) ==
    LET mine == OnOwnIf(v, a) /\ a.family = v.family
    IN  ~OnOwnVmac(v, a) /\ (IF Has(v, "VMAC_ADDR") THEN a.vmac \/ ~mine ELSE a.vmac)
AddressDev(v, a) ==
    LET dev == When(OnOwnIf(v, a), When(v.ifp = No, <<>>, <<v.ifp>>), a.dev)
    IN  CASE OnOwnVmac(v, a) -> v.link
          [] ~OnOwnVmac(v, a) /\ OnExtraVmac(v, a) -> <<dev[1], a.family, v.vrid>>
          [] OTHER -> dev

\* The code that reads vrrp->ifp without asking whether there is one.  A process that
\* gets there with an instance without interface ends by SIGSEGV.
ReadsNoInterface(v) ==
    /\ v.ifp = No
    /\ \/ v.down_timer_adverts = 1
       \/ v.mcast = 6
       \/ \E a \in Range(v.vip \o v.evip) :
             IF a.dev = <<>> THEN OnExtraVmac(v, a) ELSE Has(v, "DONT_TRACK_PRIMARY")
complete_addresses(v, g) ==
    LET set(s) == SelectSeq([i \in DOMAIN s |-> [s[i] EXCEPT !.dev = AddressDev(v, s[i])]],
                            LAMBDA a : a.dev # <<>>)
        own == When(Vlan(v), v.link, When(v.ifp = No, <<>>, <<v.ifp>>))
        vips == set(v.vip)
        evips == set(v.evip)
        others == {d \in {a.dev : a \in Range(vips \o evips)} : d # own}
        secs == When(v.vmac_garp = UNSET, g.vmac_garp, v.vmac_garp)
        all == Has(v, "GARP_ALL_IF") \/ (v.vmac_garp = UNSET /\ g.garp_all)
        flags == When(all, {"GARP_ALL_IF"}, {}) \union (v.flags \ When(v.strict = 1, {"ALLOW_NO_VIPS"}, {}))
    IN  [v EXCEPT !.flags = flags, !.vip = vips, !.evip = evips, !.removed = Len(v.vip) - Len(vips),
                  !.vmac_garp = When(\/ \E d \in others : Len(d) = 3
                                     \/ others # {} /\ all, secs, 0)]

RefusedAddresses(v) ==
    v.vip = <<>> /\ ~Has(v, "ALLOW_NO_VIPS") /\ (v.version = 3 \/ v.strict = 1)

\* Weights are dropped for members of a sync group and for address owners; only then are
\* the scripts, files, processes and BFD sessions told of the instance.
complete_tracking(v, g) ==
    LET drop == g.sync = "plain" \/ Owner(v)
        t == v.track
        weighted(kind) == t[kind] \notin {0, NoTrack}
        kept == [k \in Tracked |->
                   CASE ~drop \/ ~weighted(k) \/ k = "process" -> t[k]
                     [] k = "file" /\ t[k] = 1 -> 0
                     [] k \in {"if", "own"} /\ g.sync = "plain" -> 0
                     [] OTHER -> NoTrack]
    IN  [v EXCEPT !.track = kept,
                  !.top = [k \in Tracked |-> When(k \in {"if", "own"}, @[k], kept[k])]]


-----------------------------------------------------------------------------
(* Rules about several instances (a pair <<v, w>> here).                   *)

\* check_vrid_conflicts(): the same virtual router twice.  The interfaces have addresses of
\* both families; AddressOf is the source address that unicast instances use.
AddressOf(v) == When(Has(v, "SADDR"), v.saddr, v.ifp)
BaseOf(v) == When(v.configured_ifp = No, No, Ifs[v.configured_ifp].base)
SameRouter(v, w) ==
    /\ v.family = w.family /\ v.vrid = w.vrid
    /\ Has(v, "UNICAST") <=> Has(w, "UNICAST")
    /\ IF Has(v, "UNICAST")
       THEN /\ v.ifp = No \/ w.ifp = No \/ v.ifp = w.ifp
            /\ AddressOf(v) = AddressOf(w)
            /\ v.peers \intersect w.peers # {}
       ELSE BaseOf(v) = BaseOf(w) /\ v.mcast = w.mcast
\* Two multicast instances are compared by their interfaces without asking for them.
ComparesNoInterface(v, w) ==
    /\ v.family = w.family /\ v.vrid = w.vrid /\ ~Has(v, "UNICAST") /\ ~Has(w, "UNICAST")
    /\ No \in {v.configured_ifp, w.configured_ifp}
check_vrid_conflicts(v, w) == SameRouter(v, w) /\ (Has(v, "UNICAST") \/ IfUp(v.configured_ifp))

\* check_vmac_conflicts(): w, the later one, is held down if it shares a macvlan with v and
\* no sync group makes them master together.
Devs(s) == {s[i].dev : i \in DOMAIN s}
check_vmac_conflicts(v, w, g) ==
    LET same == v.family = w.family
        vOther == Has(v, "EVIP_OTHER_FAMILY")
        wOther == Has(w, "EVIP_OTHER_FAMILY")
        shared(s, r) == \E d \in Devs(s) \intersect Devs(r) : Len(d) = 3
        clash == \/ /\ Has(w, "VMAC") /\ (same \/ vOther)
                    /\ w.link \in Devs(When(same, v.vip, <<>>) \o v.evip)
                 \/ same /\ shared(v.vip, w.vip)
                 \/ (same \/ vOther) /\ shared(v.evip, w.vip)
                 \/ (same \/ wOther) /\ shared(v.vip, w.evip)
                 \/ (same \/ vOther \/ wOther) /\ shared(v.evip, w.evip)
    IN  When(v.vrid = w.vrid /\ g.sync = "none" /\ clash,
             <<v, [w EXCEPT !.faults = @ + 1]>>, <<v, w>>)

\* sync_group_tracking_init(): what the group tracks (g.tracks) is tracked for each member,
\* without a weight if one of them is an address owner.
sync_group_tracking_init(v, w, g) ==
    LET weight == When(Owner(v) \/ Owner(w), 0, g.tracks[2])
    IN  IF g.sync = "none" \/ g.tracks[1] = No THEN <<v, w>>
        ELSE <<add_vrrp_to(v, g.tracks[1], weight), add_vrrp_to(w, g.tracks[1], weight)>>

\* The members of a sync group start as master only if all of them can.
sync_group_wantstate(v, w, g) ==
    LET backup == \E x \in {v, w} : x.wantstate = "BACK" \/ ~Owner(x)
    IN  IF g.sync # "none" /\ backup
        THEN <<[v EXCEPT !.wantstate = "BACK"], [w EXCEPT !.wantstate = "BACK"]>>
        ELSE <<v, w>>

-----------------------------------------------------------------------------
(* Reading and completing a configuration of two instances.                *)

Init ==
    \E i \in DOMAIN Cases : \E c \in Cases[i] :
       cfg = [text |-> c.text, g |-> c.g, inst |-> <<alloc_vrrp, alloc_vrrp>>, at |-> 1,
              phase |-> "parse"]

At(phase) == cfg.phase = phase
This == cfg.inst[cfg.at]
\* The instance becomes v, and its next phase follows.
Put(v, phase) == cfg' = [cfg EXCEPT !.inst[cfg.at] = v, !.phase = phase]
\* The instance becomes v; the phase `again` follows for the second, `next` after both.
PutLast(v, again, next) ==
    cfg' = [cfg EXCEPT !.inst[cfg.at] = v, !.at = 3 - @, !.phase = When(cfg.at = 2, next, again)]
Reject == cfg' = [cfg EXCEPT !.phase = "rejected"]
Crash == cfg' = [cfg EXCEPT !.phase = "crashed"]

Parse ==
    /\ At("parse") /\ cfg.text[cfg.at] # <<>>
    /\ LET st == Head(cfg.text[cfg.at])
       IN  cfg' = [cfg EXCEPT !.inst[cfg.at] = Handle(@, st[1], st[2]), !.text[cfg.at] = Tail(@)]

End == At("parse") /\ cfg.text[cfg.at] = <<>> /\ PutLast(vrrp_end_handler(This), "parse", "minimum")

\* chk_min_cfg()
chk_min_cfg(v) ==
    v.vrid # 0 /\ (v.ifp # No \/ (Has(v, "UNICAST_CONFIGURED") /\ ~Has(v, "VMAC")))
Minimum ==
    /\ At("minimum")
    /\ IF \A i \in 1..2 : chk_min_cfg(cfg.inst[i])
       THEN cfg' = [cfg EXCEPT !.phase = "settle"]
       ELSE Reject

Settle ==
    /\ At("settle")
    /\ LET v == complete_unicast(complete_auth(complete_state(complete_version(This, cfg.g))))
       IN  IF RefusedUnicast(v) THEN Reject ELSE Put(v, "shape")

Shape(v) ==
    complete_adver_int(complete_adverts(complete_accept(complete_preempt(
        complete_vips(v, MaxAdvertised(v)))), cfg.g))
Adapt == At("shape") /\ Put(Shape(complete_interface(This)), "place")

Place ==
    /\ At("place")
    /\ LET i == complete_interfaces(complete_vlan(This, cfg.g))
           v == complete_addresses(i, cfg.g)
       IN  IF ReadsNoInterface(i) THEN Crash
           ELSE IF RefusedAddresses(v) THEN Reject ELSE Put(v, "track")

Track == At("track") /\ PutLast(complete_tracking(This, cfg.g), "settle", "conflicts")

Conflicts ==
    /\ At("conflicts")
    /\ IF ComparesNoInterface(cfg.inst[1], cfg.inst[2]) THEN Crash
       ELSE IF check_vrid_conflicts(cfg.inst[1], cfg.inst[2]) THEN Reject
       ELSE cfg' = [cfg EXCEPT !.inst = check_vmac_conflicts(@[1], @[2], cfg.g),
                               !.phase = "group"]
Group ==
    /\ At("group")
    /\ cfg' = [cfg EXCEPT !.inst = sync_group_tracking_init(@[1], @[2], cfg.g),
                          !.phase = "start"]
Start ==
    /\ At("start")
    /\ cfg' = [cfg EXCEPT !.inst = sync_group_wantstate(@[1], @[2], cfg.g), !.phase = "done"]

Next ==
    \/ Parse \/ End \/ Minimum \/ Settle \/ Adapt \/ Place \/ Track
    \/ Conflicts \/ Group \/ Start
Spec == Init /\ [][Next]_cfg

-----------------------------------------------------------------------------
(* Properties.                                                             *)

\* What the packets can carry and the protocol allows.  Two things get through: an
\* instance without interface loses the addresses without one, and vip_cnt still counts
\* them (vrrp.c:4061-4064); and with a source address and no peer it is to use multicast
\* nowhere (vrrp.c:3225-3259), IPv4 only as for IPv6 the process has ended by then.
Sendable(v) ==
    /\ IF v.version = 2 THEN v.adver_int \in {1000 * n : n \in 1..255}
       ELSE v.adver_int \in 10..40950 /\ v.adver_int % 10 = 0
    /\ v.vip_cnt = Len(v.vip) + v.removed /\ v.vip_cnt <= MaxAdvertised(v)
    /\ v.removed > 0 => v.configured_ifp = No
    /\ v.family = 6 => v.version = 3 \/ v.strict = 0
    /\ v.auth # "NONE" => v.version = 2 /\ v.pass /\ (v.auth = "AH" => v.family = 4)
    /\ \A i \in DOMAIN v.vip : v.vip[i].family = v.family
    /\ Has(v, "UNICAST") => v.peers # {} /\ v.mcast = 0
    /\ ~Has(v, "UNICAST") => v.mcast = v.family
    /\ ~Has(v, "UNICAST") /\ v.ifp = No =>
         v.family = 4 /\ Has(v, "UNICAST_CONFIGURED") /\ Has(v, "SADDR") /\ v.peers = {}
\* What strict mode promises.
StrictlyConforms(v) ==
    v.strict = 1 =>
        /\ v.auth = "NONE" /\ v.vip # <<>>
        /\ v.version = 2 /\ v.accept = 1 => Owner(v)
        /\ v.lower_no_advert = 1 /\ v.higher_send = 0 /\ v.down_timer_adverts = 3
        /\ Owner(v) => v.owner_ignore # 0
        /\ v.preempt_delay = 0 /\ ~(Has(v, "VMAC") /\ Has(v, "XMITBASE"))
\* Settings that exclude each other.  "If address owner, then we must totally ignore
\* weights", and a member of a sync group without sgroup_tracking_weight must not have
\* them either (vrrp.c:4125-4129).  Only the weights of interfaces, whose trackers know
\* of the instance by then (vrrp.c:3829), and of processes, which are not looked at, get
\* through.
Coherent(v) ==
    /\ Has(v, "NOPREEMPT") => ~Owner(v) /\ v.wantstate # "MAST" /\ v.preempt_delay = 0
    /\ v.other_prio > 0 => Has(v, "NOPREEMPT")
    /\ Owner(v) \/ (cfg.g.sync = "plain" /\ cfg.g.tracks[1] = No) =>
         \A k \in Tracked \ {"if", "process"} : v.top[k] \in {0, NoTrack}
    /\ Vlan(v) => v.ifp # No /\ v.name # No
    /\ Has(v, "TRACK_SADDR") => v.saddr # No

\* Whatever the statements and their order, an accepted configuration can be sent, is what
\* strict mode promises, has no settings that exclude each other, has no virtual router
\* twice, and starts the members of a sync group as masters together or not at all, except
\* for what the comments of Sendable and Coherent name (vrrp_complete_init()).  Nothing but
\* an instance without interface brings the process down.
AcceptedIsSound ==
    /\ At("crashed") => \E i \in 1..2 : /\ cfg.inst[i].configured_ifp = No
                                        /\ Has(cfg.inst[i], "UNICAST_CONFIGURED")
    /\ At("done") =>
        /\ \A i \in 1..2 : /\ Sendable(cfg.inst[i]) /\ StrictlyConforms(cfg.inst[i])
                           /\ Coherent(cfg.inst[i])
        /\ SameRouter(cfg.inst[1], cfg.inst[2]) => ~IfUp(cfg.inst[1].configured_ifp)
        /\ cfg.g.sync # "none" => cfg.inst[1].wantstate = cfg.inst[2].wantstate

=============================================================================
