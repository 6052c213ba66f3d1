---------------------------- MODULE GlobalConfig ----------------------------
(***************************************************************************)
(* The global settings (core/global_parser.c, core/global_data.c and       *)
(* reload_config() in core/main.c).  At the start the parent reads them    *)
(* and the children inherit what it has read; at a reload the parent reads *)
(* them again, refuses what cannot be changed, and then each child reads   *)
(* them for itself.  A child that is started again inherits from the       *)
(* parent once more.  No process tells another what it has made of the     *)
(* text.                                                                   *)
(*                                                                         *)
(* A text is a sequence of lines <<keyword, argument>>.  The argument is a *)
(* number, a name ("" if it is missing), or a sequence of words, each with *)
(* its text (k) and its value as a number (n); NaN is not a number, Huge   *)
(* is one that no unsigned int can hold, and NONE a missing option.  The   *)
(* settings carry the names of their keywords.                             *)
(***************************************************************************)
EXTENDS Integers, Sequences, SequencesExt, FiniteSetsExt, TLC

CONSTANTS TextCases,    \* a sequence of sets of [first, next, opts]: a text, what it is changed to, and
                        \* opts = [namespace, umask, host]: the command line, and the name of the host
          Uptime,       \* of the system, in ms, when the texts are read
          MaxRespawns   \* how many times a child ends

VARIABLE s

Child == {"vrrp", "checker", "bfd"}
Process == Child \cup {"parent"}

NaN == -1000000
Huge == 2147483647
NONE == -3
BADV == -2
UNSET == -1
Unsigned == <<0, Huge - 1>>
Positive == <<1, Huge - 1>>

W(k) == [k |-> k, n |-> NaN]
N(n) == [k |-> "", n |-> n]

In(n, r) == r[1] <= n /\ n <= r[2]

\* The ways in which most handlers treat their argument.
Flag(g, f, x) == IF x = BADV THEN g ELSE [g EXCEPT ![f] = IF x = NONE THEN 1 ELSE x]
Number(g, f, x, r) == IF In(x, r) THEN [g EXCEPT ![f] = x] ELSE g
Name(g, f, x) == IF x = "" THEN g ELSE [g EXCEPT ![f] = x]
First(g, f, x) == IF g[f] # "" THEN g ELSE Name(g, f, x)
AtLeast1(n) == IF n = 0 THEN 1 ELSE n

-----------------------------------------------------------------------------
(* Defaults *)

VRRP_GARP_REP == 5
VRRP_GARP_REFRESH == 0
VRRP_GARP_REFRESH_REP == 1
VRRP_GARP_DELAY == 5

set_vrrp_defaults ==
    [vrrp_garp_master_repeat |-> VRRP_GARP_REP, vrrp_garp_master_refresh |-> VRRP_GARP_REFRESH,
     vrrp_garp_master_refresh_repeat |-> VRRP_GARP_REFRESH_REP, vrrp_garp_master_delay |-> VRRP_GARP_DELAY,
     vrrp_garp_lower_prio_delay |-> UNSET, vrrp_garp_lower_prio_repeat |-> UNSET, vrrp_down_timer_adverts |-> 3,
     vrrp_garp_interval |-> 0, vrrp_gna_interval |-> 0, vrrp_garp_extra_if |-> 0, vrrp_version |-> 2,
     using_ipsets |-> UNSET, ipsets |-> <<>>, nftables_priority |-> -1,
     vrrp_mcast_group4 |-> "mcast4", vrrp_mcast_group6 |-> "mcast6"]

Flags == {"use_symlink_paths", "dynamic_interfaces", "allow_if_changes", "no_email_faults", "checker_log_all_failures",
    "disable_local_igmp", "v3_checksum_as_v2", "lvs_flush", "garp_all_if", "vrrp_lower_prio_no_advert",
    "vrrp_higher_prio_send_advert", "nftables_ifindex", "nftables_counters", "vrrp_check_unicast_src",
    "vrrp_skip_check_adv_addr", "vrrp_strict", "vrrp_no_swap", "checker_no_swap", "bfd_no_swap",
    "vrrp_notify_priority_changes", "fifo_write_vrrp_states_on_reload", "enable_traps", "enable_snmp_vrrp",
    "enable_snmp_rfcv2", "enable_snmp_rfcv3", "enable_snmp_checker", "namespace_with_ipsets", "enable_dbus",
    "vrrp_netlink_monitor_rcv_bufs_force", "vrrp_netlink_cmd_rcv_bufs_force", "process_monitor_rcv_bufs_force",
    "lvs_netlink_monitor_rcv_bufs_force", "lvs_netlink_cmd_rcv_bufs_force", "rs_init_notifies", "no_checker_emails",
    "log_unknown_vrids", "vrrp_owner_ignore_adverts", "reload_repeat", "data_use_instance"}
Zeros == {"process_name", "vrrp_process_name", "checker_process_name", "bfd_process_name", "smtp_connect_timeout",
    "notification_email", "startup_script_timeout", "shutdown_script_timeout", "max_auto_priority", "tcp", "tcpfin", "udp",
    "maxlen", "port", "ttl", "vrrp_priority", "checker_priority", "bfd_priority", "vrrp_rt_priority",
    "checker_rt_priority", "bfd_rt_priority", "nftables_ipvs_priority", "nftables_ipvs_start_fwmark",
    "snmp_rs_stats_update_interval", "vrrp_rx_bufs_size", "vrrp_netlink_monitor_rcv_bufs", "vrrp_netlink_cmd_rcv_bufs",
    "process_monitor_rcv_bufs", "lvs_netlink_monitor_rcv_bufs", "lvs_netlink_cmd_rcv_bufs", "vrrp_startup_delay"}
Names == {"router_id", "notification_email_from", "smtp_server", "smtp_helo_name", "startup_script", "shutdown_script",
    "default_interface", "lvs_sync_daemon", "inst", "group", "lvs_flush_on_stop", "inchain", "outchain", "nftables",
    "nftables_ipvs", "notify_fifo", "vrrp_notify_fifo", "lvs_notify_fifo", "notify_fifo_script", "vrrp_notify_fifo_script",
    "lvs_notify_fifo_script", "snmp_socket", "net_namespace", "net_namespace_ipvs", "dbus_service_name",
    "dbus_no_interface_name", "instance", "vmac_prefix", "vmac_addr_prefix", "reload_check_config", "reload_time_file",
    "reload_file", "tmp_config_directory", "iproute_usr_dir", "iproute_etc_dir", "state_dump_file", "stats_dump_file",
    "json_dump_file", "local_name"}
RT_RLIMIT_DEFAULT == 10000
Cpus == 0 .. 1

alloc_global_data ==
    [f \in Flags |-> 0] @@ [f \in Zeros |-> 0] @@ [f \in Names |-> ""] @@ set_vrrp_defaults
    @@ [smtp_alert |-> UNSET, smtp_alert_vrrp |-> UNSET, smtp_alert_checker |-> UNSET, min_auto_priority_delay |-> 1000000,
        vrrp_rlimit_rttime |-> RT_RLIMIT_DEFAULT, checker_rlimit_rttime |-> RT_RLIMIT_DEFAULT,
        bfd_rlimit_rttime |-> RT_RLIMIT_DEFAULT, vrrp_rx_bufs_policy |-> {}, vrrp_rx_bufs_multiplier |-> 3,
        snmp_vs_stats_update_interval |-> 5000, id |-> UNSET, json_version |-> 1,
        vrrp_cpu_affinity |-> {}, checker_cpu_affinity |-> {}, bfd_cpu_affinity |-> {}]

\* Variables of the process that are no part of the data: a reload does not reset them.
Sticky == [use_pid_dir |-> 0, enable_script_security |-> 0, child_wait_time |-> 5, umask |-> {}, config_save_dir |-> "",
           umask_cmdline |-> FALSE]

-----------------------------------------------------------------------------
(* Handlers *)

TASK_COMM_LEN == 16

\* The argument is the length of the name, and what is kept of it the setting.
save_process_name(g, f, len) == IF len = 0 THEN g ELSE [g EXCEPT ![f] = Min({len, TASK_COMM_LEN - 1})]

ProcessNames(g, kw, x) ==
    CASE kw = "process_names" -> [g EXCEPT !.vrrp_process_name = 15, !.checker_process_name = 14, !.bfd_process_name = 14]
      [] kw = "lvs_process_name" -> save_process_name(g, "checker_process_name", x)
      [] OTHER -> save_process_name(g, kw, x)

\* A server that is malformed takes the place of one that was not.
MailWord(g, kw, x) ==
    CASE kw \in {"use_symlink_paths", "smtp_alert"} -> Flag(g, kw, x)
      [] kw \in {"router_id", "notification_email_from", "smtp_helo_name"} -> Name(g, kw, x)
      [] kw = "smtp_connect_timeout" -> IF In(x, <<0, 4294>>) THEN [g EXCEPT ![kw] = AtLeast1(x)] ELSE g
      [] kw = "dynamic_interfaces" ->
            [g EXCEPT ![kw] = 1, !.allow_if_changes = IF x = "allow_if_changes" THEN 1 ELSE @]
      [] kw = "no_email_faults" -> [g EXCEPT ![kw] = 1]
      [] kw = "smtp_server" -> [g EXCEPT ![kw] = x]
      [] kw = "notification_email" -> [g EXCEPT ![kw] = @ + x]

startup_shutdown_script(g, proc, f, x) ==
    IF proc # "parent" \/ g[f] # "" \/ x = "" THEN g
    ELSE [g EXCEPT ![f] = x, ![f \o "_timeout"] = IF @ = 0 THEN 10 ELSE @]

StartStop(g, proc, kw, x) ==
    IF kw \in {"startup_script", "shutdown_script"} THEN startup_shutdown_script(g, proc, kw, x)
    ELSE IF proc # "parent" THEN g ELSE Number(g, kw, x, <<1, 1000>>)

SCHED_MAX == 99
AutoPriority(g, kw, x) ==
    CASE kw = "max_auto_priority" -> IF x = NONE THEN [g EXCEPT ![kw] = SCHED_MAX] ELSE Number(g, kw, x, <<-1, SCHED_MAX>>)
      [] kw = "min_auto_priority_delay" -> Number(g, kw, x, <<1, 10000000>>)

\* The kernel may have no such setting of IGMP (x = 0).
AlertWord(g, kw, x) ==
    CASE kw = "default_interface" -> Name(g, kw, x)
      [] kw = "disable_local_igmp" -> IF x = 0 THEN g ELSE [g EXCEPT ![kw] = 1]
      [] kw = "v3_checksum_as_v2" -> [g EXCEPT ![kw] = 1]
      [] OTHER -> Flag(g, kw, x)

\* Options with a value: key is the one whose value comes next, i the number of words read.
Options(g, x, keys, option(_, _, _), other(_, _, _)) ==
    FoldLeft(LAMBDA a, w :
        IF a.key # "" THEN [g |-> option(a.g, a.key, w), key |-> "", i |-> a.i + 1]
        ELSE IF w.k \in keys THEN [a EXCEPT !.key = w.k, !.i = @ + 1]
        ELSE [g |-> other(a.g, w, a.i), key |-> "", i |-> a.i + 1],
        [g |-> g, key |-> "", i |-> 2], x).g

LVS_MAX_TIMEOUT == 2678400
lvs_timeouts(g, x) ==
    IF Len(x) < 2 THEN g
    ELSE Options(g, x, {"tcp", "tcpfin", "udp"},
                 LAMBDA h, k, w : Number(h, k, w.n, <<0, LVS_MAX_TIMEOUT>>), LAMBDA h, w, i : h)

SyncOption(g, k, w) ==
    CASE k = "inst" -> IF g.inst # "" THEN g ELSE [g EXCEPT !.inst = w.k]
      [] k = "id" -> Number(g, k, w.n, <<0, 255>>)
      [] k = "maxlen" -> Number(g, k, w.n, <<1, 65507>>)
      [] k = "port" -> Number(g, k, w.n, <<1, 65535>>)
      [] k = "ttl" -> Number(g, k, w.n, <<1, 255>>)
      [] k = "group" -> [g EXCEPT !.group = IF w.k \in {"mcast4", "mcast6"} THEN w.k ELSE ""]

\* The instance and its id once came without keywords, right after the interface.
lvs_syncd_handler(g, x) ==
    IF g.lvs_sync_daemon # "" \/ x = <<>> \/ x[1].k = "long" THEN g
    ELSE Options([g EXCEPT !.lvs_sync_daemon = x[1].k], Tail(x), {"inst", "id", "maxlen", "port", "ttl", "group"}, SyncOption,
                 LAMBDA h, w, i : CASE i = 2 -> [h EXCEPT !.inst = w.k]
                                    [] i = 3 -> Number(h, "id", w.n, <<0, 255>>)
                                    [] OTHER -> h)

LvsFlush(g, kw, x) ==
    CASE kw = "lvs_flush" -> [g EXCEPT ![kw] = 1]
      [] kw = "lvs_flush_on_stop" -> CASE x = "" -> [g EXCEPT ![kw] = "full"] [] x = "VS" -> [g EXCEPT ![kw] = "VS"] [] OTHER -> g

get_realtime_priority(g, f, x) == IF x = NaN THEN g ELSE [g EXCEPT ![f] = IF x < 1 THEN 1 ELSE Min({x, SCHED_MAX})]

\* The first word that is no number of a CPU clears the whole set.
get_cpu_affinity(g, f, x) ==
    IF x = <<>> THEN g
    ELSE [g EXCEPT ![f] = IF \A i \in 1 .. Len(x) : x[i].n \in Cpus THEN {x[i].n : i \in 1 .. Len(x)} ELSE {}]

\* Half of the limit must not be 0 (set_process_priorities()); 0 is no limit.
get_rt_rlimit(x) == IF In(x, Positive) THEN Max({x, 2}) ELSE 0

get_priority(x) == IF In(x, <<-20, 19>>) THEN x ELSE 0

McastGroup(g, kw, x) ==
    IF (kw = "vrrp_mcast_group4" /\ x \in {"mcast4", "other4"}) \/ (kw = "vrrp_mcast_group6" /\ x \in {"mcast6", "other6"})
    THEN [g EXCEPT ![kw] = x] ELSE g

\* An interval that is refused is not ignored, but set to 0.
GarpWord(g, kw, x) ==
    CASE kw \in {"vrrp_garp_master_delay", "vrrp_garp_lower_prio_delay"} -> Number(g, kw, x, <<0, 4294>>)
      [] kw \in {"vrrp_garp_master_repeat", "vrrp_garp_master_refresh_repeat"} ->
            IF In(x, Unsigned) THEN [g EXCEPT ![kw] = AtLeast1(x)] ELSE g
      [] kw = "vrrp_garp_master_refresh" -> [g EXCEPT ![kw] = IF In(x, Unsigned) THEN x ELSE 0]
      [] kw = "vrrp_garp_lower_prio_repeat" -> Number(g, kw, x, Unsigned)
      [] kw = "vrrp_down_timer_adverts" -> Number(g, kw, x, <<1, 100>>)
      [] kw \in {"vrrp_garp_interval", "vrrp_gna_interval"} -> Number(g, kw, x, Positive)

\* What still has its default is taken to be unset.
vrrp_min_garp_handler(g, x) ==
    IF x \in {BADV, 0} THEN g
    ELSE [g EXCEPT !.vrrp_garp_master_repeat = IF @ = VRRP_GARP_REP THEN 1 ELSE @,
                   !.vrrp_garp_master_refresh = IF @ = VRRP_GARP_REFRESH THEN 0 ELSE @,
                   !.vrrp_garp_master_refresh_repeat = IF @ = VRRP_GARP_REFRESH_REP THEN 0 ELSE @,
                   !.vrrp_garp_master_delay = IF @ = VRRP_GARP_DELAY THEN 0 ELSE @]

\* The words up to the first that is refused; without one, the last number counts.
vrrp_vmac_garp_extra_if_handler(g, x) ==
    LET bad == {i \in 1 .. Len(x) : x[i].k # "all" /\ ~In(x[i].n, <<1, 86400>>)}
        read == IF bad = {} THEN 1 .. Len(x) ELSE 1 .. (Min(bad) - 1)
        nums == {i \in read : x[i].k # "all"}
    IN [g EXCEPT !.garp_all_if = IF \E i \in read : x[i].k = "all" THEN 1 ELSE @,
                 !.vrrp_garp_extra_if = IF bad # {} \/ nums = {} THEN @ ELSE x[Max(nums)].n]

-----------------------------------------------------------------------------
(* The firewall.  A name "long" is too long. *)

ValidName(x) == x \notin {"", "long"}

vrrp_iptables_handler(g, x) ==
    CASE g.inchain # "" -> g
      [] x = <<>> -> [g EXCEPT !.inchain = "VRRP_INPUT", !.outchain = "VRRP_OUTPUT"]
      [] OTHER ->
            IF ~ValidName(x[1]) THEN g
            ELSE IF Len(x) = 1 \/ (Len(x) > 1 /\ ~ValidName(x[2])) THEN [g EXCEPT !.inchain = x[1]]
            ELSE IF x[1] = x[2] THEN g
            ELSE [g EXCEPT !.inchain = x[1], !.outchain = x[2]]

IPSET_MAXNAMELEN == 32
\* The name of a set: so many times a letter, and an ending.
SetName(letter, n, ending) == [letter |-> letter, n |-> n, ending |-> ending]
ValidSet(x) == x.n > 0 /\ x.n < IPSET_MAXNAMELEN - 1
CutTo(x, n, ending) == SetName(x.letter, Min({x.n, n}), ending)

\* The six sets; those without a name get one that is made from the name of another, cut
\* so that its ending fits.
AllSets(x) ==
    LET addr6 == IF Len(x) >= 2 THEN x[2] ELSE CutTo(x[1], IPSET_MAXNAMELEN - 2, "6")
        named(i, name) == IF Len(x) >= i THEN x[i] ELSE name
    IN << x[1], addr6, named(3, CutTo(addr6, IPSET_MAXNAMELEN - 5, "_if6")),
          named(4, CutTo(x[1], IPSET_MAXNAMELEN - 6, "_igmp")), named(5, CutTo(x[1], IPSET_MAXNAMELEN - 5, "_mld")),
          named(6, CutTo(x[1], IPSET_MAXNAMELEN - 5, "_nd")) >>

Different(q) == \A i, j \in 1 .. Len(q) : i # j => q[i] # q[j]

vrrp_ipsets_handler(g, x) ==
    IF x = <<>> THEN [g EXCEPT !.ipsets = <<>>, !.using_ipsets = 0]
    ELSE IF (\A i \in 1 .. Len(x) : ValidSet(x[i])) /\ Different(AllSets(x))
         THEN [g EXCEPT !.ipsets = AllSets(x), !.using_ipsets = 1]
         ELSE [g EXCEPT !.ipsets = <<>>, !.using_ipsets = UNSET]

\* To name the table sets what else there is to set of it.
vrrp_nftables_handler(g, x) ==
    IF g.nftables # "" \/ x = "long" THEN g
    ELSE [g EXCEPT !.nftables = IF x = "" THEN "keepalived" ELSE x, !.nftables_priority = -1]

ipvs_nftables_handler(g, x) ==
    IF g.nftables_ipvs # "" \/ x = "long" THEN g
    ELSE [g EXCEPT !.nftables_ipvs = IF x = "" THEN "keepalived_ipvs" ELSE x,
                   !.nftables_ipvs_priority = -1, !.nftables_ipvs_start_fwmark = 1000]

NftWord(g, kw, x) ==
    CASE kw \in {"nftables_priority", "nftables_ipvs_priority"} -> IF x = NaN THEN g ELSE [g EXCEPT ![kw] = x]
      [] kw = "nftables_ipvs_start_fwmark" -> Number(g, kw, x, Positive)
      [] OTHER -> [g EXCEPT ![kw] = 1]

-----------------------------------------------------------------------------
VrrpWord(g, kw, x) ==
    CASE kw = "vrrp_version" -> Number(g, kw, x, <<2, 3>>)
      [] kw \in {"vrrp_skip_check_adv_addr", "vrrp_strict"} -> Flag(g, kw, x)
      [] kw \in {"vrrp_check_unicast_src", "vrrp_no_swap"} -> [g EXCEPT ![kw] = 1]
      [] kw = "vrrp_priority" -> [g EXCEPT ![kw] = get_priority(x)]
      [] kw = "vrrp_rt_priority" -> get_realtime_priority(g, kw, x)
      [] kw = "vrrp_cpu_affinity" -> get_cpu_affinity(g, kw, x)
      [] kw = "vrrp_rlimit_rttime" -> [g EXCEPT ![kw] = get_rt_rlimit(x)]

OtherProcessWord(g, kw, x) ==
    CASE kw \in {"checker_priority", "bfd_priority"} -> [g EXCEPT ![kw] = get_priority(x)]
      [] kw \in {"checker_no_swap", "bfd_no_swap"} -> [g EXCEPT ![kw] = 1]
      [] kw \in {"checker_rt_priority", "bfd_rt_priority"} -> get_realtime_priority(g, kw, x)
      [] kw \in {"checker_cpu_affinity", "bfd_cpu_affinity"} -> get_cpu_affinity(g, kw, x)
      [] kw \in {"checker_rlimit_rttime", "bfd_rlimit_rttime"} -> [g EXCEPT ![kw] = get_rt_rlimit(x)]

\* A FIFO has a name, and an owner that may not exist.
notify_fifo(g, f, x) == IF x[1] = "" \/ g[f] # "" \/ x[2] = "bad" THEN g ELSE [g EXCEPT ![f] = x[1]]

FifoWord(g, kw, x) ==
    CASE kw \in {"notify_fifo", "vrrp_notify_fifo", "lvs_notify_fifo"} -> notify_fifo(g, kw, x)
      [] kw = "vrrp_notify_priority_changes" -> Flag(g, kw, x)
      [] kw = "fifo_write_vrrp_states_on_reload" -> [g EXCEPT ![kw] = 1]
      [] OTHER -> First(g, kw, x)

SnmpWord(g, kw, x) ==
    CASE kw = "snmp_socket" -> IF x = "long" THEN g ELSE First(g, kw, x)
      [] kw = "enable_snmp_rfc" -> [g EXCEPT !.enable_snmp_rfcv2 = 1, !.enable_snmp_rfcv3 = 1]
      [] kw \in {"snmp_vs_stats_update_interval", "snmp_rs_stats_update_interval"} -> Number(g, kw, x, <<1, 30000>>)
      [] OTHER -> [g EXCEPT ![kw] = 1]

\* The namespace of IPVS may be the default one.
NamespaceWord(g, kw, x) ==
    CASE kw = "net_namespace" ->
            IF x = "" \/ g[kw] # "" THEN g ELSE [g EXCEPT ![kw] = x, !.use_pid_dir = 1]
      [] kw = "net_namespace_ipvs" -> First(g, kw, IF x = "" THEN "default" ELSE x)
      [] kw \in {"namespace_with_ipsets", "enable_dbus"} -> [g EXCEPT ![kw] = 1]
      [] kw \in {"dbus_service_name", "dbus_no_interface_name"} -> Name(g, kw, x)

\* A child that reloads has no use for the name of the instance.
InstanceWord(g, reload, kw, x) ==
    CASE kw = "instance" ->
            IF x = "" \/ reload \/ g[kw] # "" THEN g ELSE [g EXCEPT ![kw] = x, !.use_pid_dir = 1]
      [] kw = "use_pid_dir" -> [g EXCEPT ![kw] = 1]

ProcessWord(g, kw, x) ==
    CASE kw = "enable_script_security" -> [g EXCEPT ![kw] = 1]
      [] kw = "child_wait_time" -> Number(g, kw, x, Unsigned)

\* A size is looked for in the first word, whichever word it is.
vrrp_rx_bufs_policy_handler(g, x) ==
    LET policies == {"MTU", "ADVERT"}
        size == (\E i \in 1 .. Len(x) : x[i].k \notin policies) /\ In(x[1].n, Unsigned)
        all == g.vrrp_rx_bufs_policy \cup {x[i].k : i \in {j \in 1 .. Len(x) : x[j].k \in policies}}
               \cup (IF size THEN {"SIZE"} ELSE {})
    IN IF x = <<>> THEN g
       ELSE [g EXCEPT !.vrrp_rx_bufs_size = IF size THEN x[1].n ELSE @,
                      !.vrrp_rx_bufs_policy = IF "SIZE" \in all THEN {"SIZE"}
                                              ELSE IF "MTU" \in all THEN {"MTU"} ELSE all]

\* A size of 0, or none, changes nothing.
get_netlink_rcv_bufs_size(x) == IF In(x, Unsigned) THEN x ELSE 0
RcvBufs(g, kw, x) == IF get_netlink_rcv_bufs_size(x) = 0 THEN g ELSE [g EXCEPT ![kw] = x]

VrrpBufs(g, kw, x) ==
    IF kw \in {"vrrp_netlink_monitor_rcv_bufs", "vrrp_netlink_cmd_rcv_bufs", "process_monitor_rcv_bufs"} THEN RcvBufs(g, kw, x)
    ELSE Flag(g, kw, x)

LvsBufs(g, kw, x) ==
    IF kw \in {"lvs_netlink_monitor_rcv_bufs", "lvs_netlink_cmd_rcv_bufs"} THEN RcvBufs(g, kw, x) ELSE Flag(g, kw, x)

\* A number, or names of bits with a | between each and the next.  The argument is the
\* bits of the number, if it is one.
umask_handler(g, x) ==
    IF g.umask_cmdline THEN g
    ELSE IF x.number THEN (IF x.valid THEN [g EXCEPT !.umask = x.bits] ELSE g)
    ELSE LET bit(i) == i % 2 = 1
         IN IF Len(x.words) % 2 = 1 /\ \A i \in 1 .. Len(x.words) : (x.words[i] # "|") = bit(i) /\ x.words[i] # "?"
            THEN [g EXCEPT !.umask = {x.words[i] : i \in {j \in 1 .. Len(x.words) : bit(j)}}] ELSE g

vrrp_startup_delay_handler(g, x) ==
    IF In(x, Positive) /\ x > g.vrrp_startup_delay THEN [g EXCEPT !.vrrp_startup_delay = x] ELSE g

vrrp_delay_after_boot_handler(g, x) ==
    IF In(x, Positive) /\ x > Uptime THEN vrrp_startup_delay_handler(g, x - Uptime) ELSE g

VmacWord(g, kw, x) ==
    CASE kw \in {"vmac_prefix", "vmac_addr_prefix"} -> First(g, kw, x)
      [] kw = "log_unknown_vrids" -> [g EXCEPT ![kw] = 1]
      [] kw = "vrrp_owner_ignore_adverts" -> Flag(g, kw, x)

\* The parent, who has read the text before the others, makes a directory that is missing.
config_save_dir_handler(g, x) == IF x[2] \in {"dir", "missing"} THEN [g EXCEPT !.config_save_dir = x[1]] ELSE g

ReloadWord(g, kw, x) ==
    CASE kw = "reload_check_config" -> [g EXCEPT ![kw] = IF x = "" THEN "/dev/null" ELSE x]
      [] kw = "reload_time_file" -> Name(g, kw, x)
      [] kw = "reload_repeat" -> [g EXCEPT ![kw] = 1]
      [] kw = "reload_file" -> [g EXCEPT ![kw] = IF x = "" THEN "DEFAULT" ELSE x]
      [] kw = "tmp_config_directory" -> First(g, kw, x)

FileWord(g, kw, x) ==
    CASE kw = "data_use_instance" -> Flag(g, kw, x)
      [] kw = "json_version" -> Number(g, kw, x, <<1, 2>>)
      [] OTHER -> Name(g, kw, x)

-----------------------------------------------------------------------------
(* Which handler is whose *)

ProcessKeys == {"process_names", "process_name", "vrrp_process_name", "checker_process_name", "lvs_process_name", "bfd_process_name"}
MailKeys == {"use_symlink_paths", "router_id", "notification_email_from", "smtp_server", "smtp_helo_name",
    "smtp_connect_timeout", "notification_email", "smtp_alert", "dynamic_interfaces", "no_email_faults"}
ScriptKeys == {"startup_script", "startup_script_timeout", "shutdown_script", "shutdown_script_timeout"}
AlertKeys == {"smtp_alert_vrrp", "smtp_alert_checker", "checker_log_all_failures", "default_interface", "disable_local_igmp",
    "v3_checksum_as_v2"}
GarpKeys == {"vrrp_garp_master_delay", "vrrp_garp_master_repeat", "vrrp_garp_master_refresh",
    "vrrp_garp_master_refresh_repeat", "vrrp_garp_lower_prio_delay", "vrrp_garp_lower_prio_repeat",
    "vrrp_down_timer_adverts", "vrrp_garp_interval", "vrrp_gna_interval"}
NftKeys == {"nftables_priority", "nftables_ifindex", "nftables_ipvs_priority", "nftables_ipvs_start_fwmark", "nftables_counters"}
VrrpKeys == {"vrrp_version", "vrrp_check_unicast_src", "vrrp_skip_check_adv_addr", "vrrp_strict", "vrrp_priority",
    "vrrp_no_swap", "vrrp_rt_priority", "vrrp_cpu_affinity", "vrrp_rlimit_rttime"}
OtherProcessKeys == {"checker_priority", "checker_no_swap", "checker_rt_priority", "checker_cpu_affinity",
    "checker_rlimit_rttime", "bfd_priority", "bfd_no_swap", "bfd_rt_priority", "bfd_cpu_affinity", "bfd_rlimit_rttime"}
FifoKeys == {"notify_fifo", "notify_fifo_script", "vrrp_notify_fifo", "vrrp_notify_fifo_script",
    "vrrp_notify_priority_changes", "fifo_write_vrrp_states_on_reload", "lvs_notify_fifo", "lvs_notify_fifo_script"}
SnmpKeys == {"snmp_socket", "enable_traps", "enable_snmp_vrrp", "enable_snmp_rfc", "enable_snmp_rfcv2",
    "enable_snmp_rfcv3", "enable_snmp_checker", "snmp_vs_stats_update_interval", "snmp_rs_stats_update_interval"}
NamespaceKeys == {"net_namespace", "net_namespace_ipvs", "namespace_with_ipsets", "enable_dbus", "dbus_service_name",
    "dbus_no_interface_name"}
VrrpBufKeys == {"vrrp_netlink_cmd_rcv_bufs", "vrrp_netlink_cmd_rcv_bufs_force", "vrrp_netlink_monitor_rcv_bufs",
    "vrrp_netlink_monitor_rcv_bufs_force", "process_monitor_rcv_bufs", "process_monitor_rcv_bufs_force"}
LvsBufKeys == {"lvs_netlink_cmd_rcv_bufs", "lvs_netlink_cmd_rcv_bufs_force", "lvs_netlink_monitor_rcv_bufs",
    "lvs_netlink_monitor_rcv_bufs_force", "rs_init_notifies", "no_checker_emails"}
VmacKeys == {"log_unknown_vrids", "vrrp_owner_ignore_adverts", "vmac_prefix", "vmac_addr_prefix"}
ReloadKeys == {"reload_check_config", "reload_time_file", "reload_repeat", "reload_file", "tmp_config_directory"}

\* init_global_keywords().
Word(g, proc, reload, kw, x) ==
    CASE kw \in ProcessKeys -> ProcessNames(g, kw, x)
      [] kw \in MailKeys -> MailWord(g, kw, x)
      [] kw \in ScriptKeys -> StartStop(g, proc, kw, x)
      [] kw \in {"max_auto_priority", "min_auto_priority_delay"} -> AutoPriority(g, kw, x)
      [] kw \in AlertKeys -> AlertWord(g, kw, x)
      [] kw = "lvs_timeouts" -> lvs_timeouts(g, x)
      [] kw = "lvs_sync_daemon" -> lvs_syncd_handler(g, x)
      [] kw \in {"lvs_flush", "lvs_flush_on_stop"} -> LvsFlush(g, kw, x)
      [] kw \in {"vrrp_mcast_group4", "vrrp_mcast_group6"} -> McastGroup(g, kw, x)
      [] kw \in GarpKeys -> GarpWord(g, kw, x)
      [] kw = "vrrp_min_garp" -> vrrp_min_garp_handler(g, x)
      [] kw = "vrrp_garp_extra_if" -> vrrp_vmac_garp_extra_if_handler(g, x)
      [] kw \in {"vrrp_lower_prio_no_advert", "vrrp_higher_prio_send_advert"} -> Flag(g, kw, x)
      [] kw = "vrrp_iptables" -> vrrp_iptables_handler(g, x)
      [] kw = "vrrp_ipsets" -> vrrp_ipsets_handler(g, x)
      [] kw = "nftables" -> vrrp_nftables_handler(g, x)
      [] kw = "nftables_ipvs" -> ipvs_nftables_handler(g, x)
      [] kw \in NftKeys -> NftWord(g, kw, x)
      [] kw \in VrrpKeys -> VrrpWord(g, kw, x)
      [] kw \in OtherProcessKeys -> OtherProcessWord(g, kw, x)
      [] kw \in FifoKeys -> FifoWord(g, kw, x)
      [] kw \in SnmpKeys -> SnmpWord(g, kw, x)
      [] kw \in NamespaceKeys -> NamespaceWord(g, kw, x)
      [] kw \in {"instance", "use_pid_dir"} -> InstanceWord(g, reload, kw, x)
      [] kw \in {"enable_script_security", "child_wait_time"} -> ProcessWord(g, kw, x)
      [] kw = "vrrp_rx_bufs_policy" -> vrrp_rx_bufs_policy_handler(g, x)
      [] kw = "vrrp_rx_bufs_multiplier" -> Number(g, kw, x, Positive)
      [] kw \in VrrpBufKeys -> VrrpBufs(g, kw, x)
      [] kw \in LvsBufKeys -> LvsBufs(g, kw, x)
      [] kw = "umask" -> umask_handler(g, x)
      [] kw = "vrrp_startup_delay" -> vrrp_startup_delay_handler(g, x)
      [] kw = "vrrp_delay_after_boot" -> vrrp_delay_after_boot_handler(g, x)
      [] kw \in VmacKeys -> VmacWord(g, kw, x)
      [] kw = "config_save_dir" -> config_save_dir_handler(g, x)
      [] kw \in ReloadKeys -> ReloadWord(g, kw, x)
      [] OTHER -> FileWord(g, kw, x)

\* A process reads a text into new data; what is no part of the data it keeps.
Read(proc, reload, old, text) ==
    FoldLeft(LAMBDA g, line : Word(g, proc, reload, line[1], line[2]),
             alloc_global_data @@ [f \in DOMAIN Sticky |-> old[f]], text)

-----------------------------------------------------------------------------
(* The processes *)

UnknownName == "[unknown]"
DEFAULT_SMTP_CONNECTION_TIMEOUT == 30

\* The name of the host is asked for when it is needed, and kept over a reload.
LocalName(g, prev, host) ==
    LET kept == IF prev = <<>> THEN "" ELSE prev[1].local_name
        need == g.router_id = "" \/ (g.smtp_server # "" /\ "" \in {g.smtp_helo_name, g.notification_email_from})
    IN IF kept = "" /\ need THEN host ELSE kept

MailDefaults(g, local) ==
    IF g.smtp_server = "" THEN g
    ELSE LET known == local \notin {"", UnknownName}
         IN [g EXCEPT !.smtp_connect_timeout = IF @ = 0 THEN DEFAULT_SMTP_CONNECTION_TIMEOUT ELSE @,
                      !.notification_email_from = IF @ = "" /\ known THEN "user@" \o local ELSE @,
                      !.smtp_helo_name = IF @ = "" /\ known THEN local ELSE @]

\* What is written to the same FIFO twice is dropped, by the process that would write it.
FifoConflicts(g, proc) ==
    LET same(a, b) == g[a] # "" /\ g[a] = g[b]
        script2 == same("lvs_notify_fifo", "vrrp_notify_fifo") /\ g.vrrp_notify_fifo_script # ""
    IN CASE proc = "vrrp" /\ same("notify_fifo", "vrrp_notify_fifo") ->
               [g EXCEPT !.vrrp_notify_fifo = "", !.vrrp_notify_fifo_script = ""]
         [] proc = "checker" /\ same("notify_fifo", "lvs_notify_fifo") ->
               [g EXCEPT !.lvs_notify_fifo = "", !.lvs_notify_fifo_script = ""]
         [] proc = "checker" /\ ~same("notify_fifo", "lvs_notify_fifo") /\ script2 ->
               [g EXCEPT !.lvs_notify_fifo_script = ""]
         [] OTHER -> g

OwnReloadFile(g) ==
    IF g.reload_file # "DEFAULT" THEN g.reload_file
    ELSE IF g.instance # "" THEN "pid_dir/" \o g.instance ELSE IF g.use_pid_dir = 1 THEN "pid_dir" ELSE "run"

\* prev is <<the data before the reload>>, if there is any.
init_global_data(data, prev, unchangeable, proc, host) ==
    LET kept == IF unchangeable
                THEN [data EXCEPT !.net_namespace = prev[1].net_namespace,
                                  !.net_namespace_ipvs = prev[1].net_namespace_ipvs, !.instance = prev[1].instance]
                ELSE data
        local == LocalName(kept, prev, host)
        mail == MailDefaults([kept EXCEPT !.reload_file = OwnReloadFile(kept), !.local_name = local,
                                          !.router_id = IF @ = "" THEN local ELSE @], local)
    IN [FifoConflicts(mail, proc) EXCEPT
          !.snmp_rs_stats_update_interval = IF @ = 0 THEN data.snmp_vs_stats_update_interval ELSE @,
          !.iproute_usr_dir = IF @ = "" THEN "usr" ELSE @, !.iproute_etc_dir = IF @ = "" THEN "etc" ELSE @]

Unchangeable == {"net_namespace", "net_namespace_ipvs", "instance", "nftables", "nftables_ipvs", "tmp_config_directory",
                 "disable_local_igmp"}

Override(g) == IF s.opts.namespace = "" THEN g ELSE [g EXCEPT !.net_namespace = s.opts.namespace]

Init ==
    \E i \in 1 .. Len(TextCases) : \E c \in TextCases[i] :
        s = [text |-> <<c.first, c.next>>, opts |-> c.opts, state |-> "new", read |-> [p \in Process |-> 0],
             own |-> {}, respawns |-> 0, start |-> <<>>, data |-> [p \in Process |-> <<>>]]

\* The parent reads the text, and forks.
Start ==
    /\ s.state = "new"
    /\ LET g == Override(init_global_data(
                    Read("parent", FALSE, [Sticky EXCEPT !.umask_cmdline = s.opts.umask], s.text[1]),
                    <<>>, FALSE, "parent", s.opts.host))
           named == g.instance # "" \/ g.net_namespace # ""
       IN s' = [s EXCEPT !.state = "running", !.start = [k \in Unchangeable |-> g[k]],
                         !.read = [p \in Process |-> 1],
                         !.data = [p \in Process |-> <<[g EXCEPT !.use_pid_dir = IF named THEN 1 ELSE @]>>]]

\* reload_config().  What was read before has lost its local name, also when it stays in use.
Changed(old, new) == \E k \in Unchangeable : old[k] # new[k]

ReloadParent ==
    /\ s.state = "running"
    /\ LET old == s.data["parent"][1]
           new == Override(init_global_data(Read("parent", FALSE, old, s.text[2]), <<old>>, FALSE, "parent", s.opts.host))
       IN s' = IF Changed(old, new)
               THEN [s EXCEPT !.state = "refused",
                              !.data["parent"] = <<[f \in DOMAIN Sticky |-> new[f]] @@ [old EXCEPT !.local_name = ""]>>]
               ELSE [s EXCEPT !.state = "reloading", !.read["parent"] = 2, !.data["parent"] = <<new>>]

\* A child that is told to reload reads the text itself.
ReloadChild(p) ==
    /\ s.state = "reloading" /\ s.read[p] = 1
    /\ LET old == s.data[p][1]
       IN s' = [s EXCEPT !.read[p] = 2, !.own = @ \cup {p},
                         !.data[p] = <<init_global_data(Read(p, TRUE, old, s.text[2]), <<old>>, TRUE, p, s.opts.host)>>]

\* A child has ended, and the parent forks another.
Respawn(p) ==
    /\ s.state # "new" /\ s.respawns < MaxRespawns
    /\ s' = [s EXCEPT !.respawns = @ + 1, !.read[p] = s.read["parent"], !.own = @ \ {p}, !.data[p] = s.data["parent"]]

Next == Start \/ ReloadParent \/ \E p \in Child : ReloadChild(p) \/ Respawn(p)

-----------------------------------------------------------------------------
(* Properties *)

RtPriority(p) == p \o "_rt_priority"

\* What the rest of a process relies on: no limit that is 0 when halved, repeats that send
\* something unless vrrp_min_garp was asked for, chains and sets that are not mixed up, one
\* way to size a buffer, and a mail that has an envelope where the host has a name.
Usable(g, text) ==
    /\ \A p \in Child : g[p \o "_rlimit_rttime"] # 1 /\ g[RtPriority(p)] \in 0 .. SCHED_MAX /\ g[p \o "_priority"] \in -20 .. 19
    /\ g.vrrp_garp_master_repeat >= 1
    /\ g.vrrp_garp_master_refresh_repeat = 0 => \E i \in 1 .. Len(text) : text[i][1] = "vrrp_min_garp"
    /\ g.outchain # "" => g.inchain \notin {"", g.outchain}
    /\ IF g.using_ipsets = 1 THEN Len(g.ipsets) = 6 /\ Different(g.ipsets) /\ \A i \in 1 .. 6 : g.ipsets[i].n > 0
       ELSE g.ipsets = <<>>
    /\ Cardinality(g.vrrp_rx_bufs_policy) <= 1
    /\ g.inst # "" => g.lvs_sync_daemon # ""
    /\ g.nftables_ipvs # "" => g.nftables_ipvs_start_fwmark >= 1
    /\ g.startup_script # "" => g.startup_script_timeout \in 1 .. 1000
    /\ g.shutdown_script # "" => g.shutdown_script_timeout \in 1 .. 1000
    /\ g.smtp_server # "" => g.smtp_connect_timeout >= 1
    /\ g.smtp_server # "" /\ s.opts.host # UnknownName => "" \notin {g.notification_email_from, g.smtp_helo_name}
    /\ g.router_id # "" /\ g.snmp_rs_stats_update_interval >= 1 /\ g.reload_file # "DEFAULT"

\* The longest of the delays that the text asks for, in whatever order.
LongestDelay(text) ==
    LET asked(i) == CASE text[i][1] = "vrrp_startup_delay" /\ In(text[i][2], Positive) -> text[i][2]
                      [] text[i][1] = "vrrp_delay_after_boot" /\ In(text[i][2], Positive) -> text[i][2] - Uptime
                      [] OTHER -> 0
    IN Max({0} \cup {asked(i) : i \in 1 .. Len(text)})

\* What only the parent reads, and what each process drops for itself.
OfOneProcess == {"startup_script", "shutdown_script", "startup_script_timeout", "shutdown_script_timeout",
    "vrrp_notify_fifo", "vrrp_notify_fifo_script", "lvs_notify_fifo", "lvs_notify_fifo_script", "local_name", "reload_file"}

Agree(g, h) == \A f \in DOMAIN alloc_global_data \ OfOneProcess : g[f] = h[f]

\* Whatever the text and the order in which the processes come to read it: what a process
\* has read is usable; a child that has read the same text as the parent has the settings
\* of the parent, whether it inherited them or read them under the rules of a reload; what
\* cannot be changed is what it was at the start; a refused reload changes nothing in the
\* data of any process; and one that has itself reloaded writes no FIFO twice.
\* (global_parser.c, init_global_data(), reload_config())
AcceptedIsSound ==
    s.state # "new" =>
      LET g(p) == s.data[p][1]
      IN /\ \A p \in Process :
               /\ Usable(g(p), s.text[s.read[p]])
               /\ g(p).vrrp_startup_delay = LongestDelay(s.text[s.read[p]])
               /\ \A k \in Unchangeable : g(p)[k] = s.start[k]
               /\ s.opts.namespace # "" => g(p).net_namespace = s.opts.namespace
         /\ \A p \in Child : s.read[p] = s.read["parent"] => Agree(g(p), g("parent"))
         /\ "vrrp" \in s.own /\ g("vrrp").notify_fifo # "" => g("vrrp").vrrp_notify_fifo # g("vrrp").notify_fifo
         /\ "checker" \in s.own /\ g("checker").notify_fifo # "" => g("checker").lvs_notify_fifo # g("checker").notify_fifo
=============================================================================
