-------------------------- MODULE GlobalConfigCases --------------------------
(***************************************************************************)
(* The texts that the processes of GlobalConfig read: the lines of one     *)
(* theme, good and bad, by one, two or three, and at the reload the same   *)
(* lines in the other order, none of them, or any others.                  *)
(***************************************************************************)
EXTENDS Integers, Sequences, SequencesExt

Text(k) == [k |-> k, n |-> -1000000]
Num(n) == [k |-> "", n |-> n]
NoNumber == -1000000
TooBig == 2147483647
Missing == -3
Wrong == -2
Lines(keys, args) == {<<k, x>> : k \in keys, x \in args}

ProcessLines ==
    Lines({"process_name", "vrrp_process_name", "lvs_process_name"}, {0, 15, 16}) \cup {<<"process_names", 0>>}
    \cup Lines({"vrrp_priority", "bfd_priority"}, {-21, -20, 19, NoNumber})
    \cup Lines({"vrrp_rt_priority", "checker_rt_priority"}, {-5, 50, 100, NoNumber})
    \cup Lines({"vrrp_rlimit_rttime", "checker_rlimit_rttime", "bfd_rlimit_rttime"}, {0, 1, 2, TooBig})
    \cup Lines({"vrrp_cpu_affinity", "bfd_cpu_affinity"}, {<<>>, <<Num(0)>>, <<Num(0), Num(1)>>, <<Num(1), Num(2)>>})
    \cup {<<"max_auto_priority", -3>>, <<"max_auto_priority", -1>>, <<"max_auto_priority", 99>>,
          <<"min_auto_priority_delay", 0>>, <<"min_auto_priority_delay", 10000000>>,
          <<"vrrp_no_swap", 0>>, <<"checker_no_swap", 0>>, <<"bfd_no_swap", 0>>}

MailLines ==
    Lines({"router_id", "notification_email_from", "smtp_helo_name"}, {"", "a"})
    \cup Lines({"smtp_server"}, {"", "a"}) \cup Lines({"smtp_connect_timeout"}, {0, 7, 4295})
    \cup Lines({"smtp_alert", "smtp_alert_vrrp", "smtp_alert_checker", "checker_log_all_failures"}, {0, Missing, Wrong})
    \cup Lines({"dynamic_interfaces"}, {"", "allow_if_changes"}) \cup Lines({"default_interface"}, {"", "eth0"})
    \cup {<<"notification_email", 2>>, <<"no_email_faults", 0>>, <<"v3_checksum_as_v2", 0>>, <<"use_symlink_paths", 1>>}

ScriptLines ==
    Lines({"startup_script", "shutdown_script"}, {"", "a", "b"})
    \cup Lines({"startup_script_timeout", "shutdown_script_timeout"}, {0, 1, 1000, 1001})

LvsLines ==
    Lines({"lvs_timeouts"}, {<<Text("tcp")>>, <<Text("tcp"), Num(5), Text("udp")>>, <<Text("x"), Text("udp"), Num(2678401)>>,
                             <<Text("tcpfin"), Text("tcp"), Text("udp"), Num(0)>>})
    \cup Lines({"lvs_sync_daemon"}, {<<>>, <<Text("long"), Text("id"), Num(5)>>, <<Text("eth0"), Text("vi"), Num(256)>>,
            <<Text("eth0"), Text("vi"), Num(5), Text("ttl"), Num(255)>>, <<Text("eth1"), Text("inst"), Text("vi"), Num(9)>>,
            <<Text("eth1"), Text("id"), Num(0), Text("maxlen"), Num(65508), Text("port"), Num(1)>>,
            <<Text("eth1"), Text("group"), Text("mcast4"), Text("group"), Text("ucast4")>>, <<Text("eth1"), Text("group")>>})
    \cup Lines({"lvs_flush_on_stop"}, {"", "VS", "x"}) \cup Lines({"lvs_flush"}, {0})
    \cup Lines({"lvs_netlink_cmd_rcv_bufs", "lvs_netlink_monitor_rcv_bufs"}, {0, 1, TooBig})
    \cup Lines({"lvs_netlink_cmd_rcv_bufs_force", "rs_init_notifies", "no_checker_emails"}, {0, Missing, Wrong})

GarpLines ==
    Lines({"vrrp_garp_master_delay", "vrrp_garp_lower_prio_delay"}, {0, 5, 4295})
    \cup Lines({"vrrp_garp_master_repeat", "vrrp_garp_master_refresh_repeat"}, {0, 5, TooBig})
    \cup Lines({"vrrp_garp_master_refresh", "vrrp_garp_lower_prio_repeat"}, {0, 60, NoNumber})
    \cup Lines({"vrrp_min_garp"}, {0, 1, Missing, Wrong}) \cup Lines({"vrrp_garp_interval", "vrrp_gna_interval"}, {0, 1})
    \cup Lines({"vrrp_down_timer_adverts"}, {0, 100}) \cup Lines({"vrrp_version"}, {3, 4})
    \cup Lines({"vrrp_garp_extra_if"}, {<<>>, <<Text("all"), Num(0), Num(5)>>, <<Num(5), Text("all"), Num(6)>>})
    \cup Lines({"vrrp_mcast_group4", "vrrp_mcast_group6"}, {"other4", "other6", "ucast4"})
    \cup Lines({"vrrp_lower_prio_no_advert", "vrrp_strict", "vrrp_skip_check_adv_addr"}, {0, Missing})
    \cup {<<"vrrp_check_unicast_src", 0>>, <<"vrrp_higher_prio_send_advert", 1>>, <<"log_unknown_vrids", 0>>,
          <<"vrrp_owner_ignore_adverts", 1>>}

Set(letter, n) == [letter |-> letter, n |-> n, ending |-> ""]
SetLines ==
    LET a == Set("a", 1)
        b == Set("b", 1)
        six == {Set("c", 1), Set("d", 1), Set("e", 30)}
    IN Lines({"vrrp_ipsets"},
         {<<>>, <<a, a>>, <<a, b, a>>, <<a, b, Set("c", 1), Set("d", 1), b>>, <<a, Set("a", 31)>>, <<Set("a", 0), b>>}
         \cup {<<Set("a", n)>> : n \in {1, 26, 27, 30, 31}} \cup {<<Set("a", n), Set("b", 30)>> : n \in {28, 30}}
         \cup {<<a, b, x, y, z, w>> : x \in six, y \in six, z \in {Set("f", 1)}, w \in {a, Set("g", 1), [a EXCEPT !.ending = "_nd"]}}
         \cup {<<a, b, [a EXCEPT !.ending = "_mld"]>>, <<a, b, [a EXCEPT !.ending = "_igmp"]>>})
       \cup Lines({"vrrp_iptables"}, {<<>>, <<"i">>, <<"i", "o">>, <<"o", "o">>, <<"long", "o">>, <<"i", "long">>, <<"i", "">>})

SnmpLines ==
    Lines({"snmp_socket"}, {"", "long", "a", "b"})
    \cup Lines({"snmp_vs_stats_update_interval", "snmp_rs_stats_update_interval"}, {0, 1, 30000, 30001})
    \cup Lines({"enable_traps", "enable_snmp_vrrp", "enable_snmp_rfc", "enable_snmp_rfcv3", "enable_snmp_checker"}, {0})

BufferLines ==
    Lines({"vrrp_rx_bufs_policy"}, {<<>>, <<Text("MTU")>>, <<Text("ADVERT")>>, <<Num(5)>>, <<Text("MTU"), Text("ADVERT")>>,
            <<Text("MTU"), Num(5)>>, <<Num(5), Text("ADVERT")>>, <<Text("x")>>, <<Num(TooBig), Num(5)>>})
    \cup Lines({"vrrp_rx_bufs_multiplier", "vrrp_netlink_monitor_rcv_bufs", "process_monitor_rcv_bufs"}, {0, 1, NoNumber})
    \cup Lines({"vrrp_netlink_cmd_rcv_bufs_force", "process_monitor_rcv_bufs_force"}, {1, Wrong})

DelayLines == Lines({"vrrp_startup_delay", "vrrp_delay_after_boot"}, {0, 1, 20, 21, 25, TooBig})

FifoLines ==
    Lines({"notify_fifo", "vrrp_notify_fifo", "lvs_notify_fifo"}, {<<"a", "">>, <<"b", "">>, <<"a", "bad">>})
    \cup Lines({"vrrp_notify_fifo_script", "lvs_notify_fifo_script"}, {"x"})
    \cup {<<"notify_fifo", <<"", "">>>>, <<"notify_fifo_script", "y">>, <<"vrrp_notify_priority_changes", Missing>>,
          <<"fifo_write_vrrp_states_on_reload", 0>>}

FixedLines ==
    Lines({"net_namespace", "instance", "tmp_config_directory"}, {"", "a", "b"})
    \cup Lines({"nftables", "nftables_ipvs"}, {"", "a", "long"}) \cup Lines({"disable_local_igmp"}, {0, 1})
    \cup {<<"net_namespace_ipvs", "">>, <<"net_namespace_ipvs", "a">>}
    \cup {<<"reload_file", "">>, <<"enable_script_security", 0>>}

FileLines ==
    Lines({"umask"}, {[number |-> TRUE, valid |-> v, bits |-> {"IRUSR"}, words |-> <<>>] : v \in BOOLEAN}
        \cup {[number |-> FALSE, valid |-> TRUE, bits |-> {}, words |-> q] :
                q \in {<<"IRWXO">>, <<"IWOTH", "|", "IWGRP">>, <<"IWOTH", "|">>, <<"IWOTH", "IWGRP">>, <<"?">>, <<>>}})
    \cup Lines({"config_save_dir"}, {<<"d", "dir">>, <<"e", "missing">>, <<"f", "file">>})
    \cup Lines({"reload_check_config", "reload_file"}, {"", "a"}) \cup Lines({"reload_time_file"}, {"", "a"})
    \cup Lines({"json_version"}, {0, 2, 3}) \cup Lines({"child_wait_time"}, {0, NoNumber})
    \cup Lines({"vmac_prefix", "vmac_addr_prefix"}, {"a", "b"}) \cup Lines({"data_use_instance"}, {0, Missing})
    \cup Lines({"iproute_usr_dir", "iproute_etc_dir", "state_dump_file", "stats_dump_file", "json_dump_file"}, {"", "a"})
    \cup Lines({"nftables_priority", "nftables_ipvs_priority"}, {-5, NoNumber})
    \cup Lines({"nftables_ipvs_start_fwmark"}, {0, 5}) \cup Lines({"nftables_ipvs"}, {"a"})
    \cup Lines({"nftables_ifindex", "nftables_counters", "reload_repeat", "use_pid_dir", "enable_dbus",
                "namespace_with_ipsets"}, {0})
    \cup Lines({"dbus_service_name", "dbus_no_interface_name"}, {"", "a"})

Plain == [namespace |-> "", umask |-> FALSE, host |-> "host"]
Up2(T) == {<<>>} \cup {<<a>> : a \in T} \cup {<<a, b>> : a \in T, b \in T}

\* Each line by itself, and two lines of the same keyword, turned round at the reload.
Alone(T) == [first : {<<>>}, next : {<<a>> : a \in T}, opts : {Plain}]
Same(T) == {[first |-> <<l[1], l[2]>>, next |-> <<l[2], l[1]>>, opts |-> Plain] : l \in {k \in T \X T : k[1][1] = k[2][1]}}
Both(T, U) == {[first |-> <<a, b>>, next |-> <<b, a>>, opts |-> Plain] : a \in T, b \in U}
Of(keys, T) == {l \in T : l[1] \in keys}

SmtpKeys == {"router_id", "notification_email_from", "smtp_helo_name", "smtp_server"}

GlobalTexts ==
    << Alone(ProcessLines), Same(ProcessLines), Alone(MailLines), Same(MailLines),
       [first : {<<>>} \cup {<<a>> : a \in Lines(SmtpKeys, {"a"})}, next : Up2(Lines(SmtpKeys \ {"smtp_helo_name"}, {"a"})),
        opts : [namespace : {"cmd"}, umask : {FALSE}, host : {"host", "[unknown]"}]],
       Both(Of({"startup_script", "shutdown_script"}, ScriptLines), ScriptLines),
       Alone(LvsLines), Same(LvsLines), Same(GarpLines), Both(Of({"vrrp_min_garp"}, GarpLines), GarpLines),
       Alone(SetLines), Both({<<"vrrp_iptables", <<"i">>>>, <<"vrrp_ipsets", <<Set("a", 1)>>>>}, SetLines),
       Same(SnmpLines), Same(BufferLines), Both(DelayLines, DelayLines),
       [first : {<<a>> : a \in FifoLines}, next : {<<<<"notify_fifo", <<"a", "">>>>, a, b>> : a \in FifoLines, b \in Of({"vrrp_notify_fifo_script"}, FifoLines)},
        opts : {Plain}],
       Both(Of({"vrrp_notify_fifo", "lvs_notify_fifo"}, FifoLines), FifoLines),
       [first : {<<a>> : a \in FixedLines}, next : {<<>>} \cup {<<a>> : a \in FixedLines}, opts : {Plain}], Same(FixedLines),
       Alone(FileLines), Same(FileLines),
       Both(Of({"nftables_ipvs"}, FileLines), Of({"nftables_ipvs_priority", "nftables_ipvs_start_fwmark"}, FileLines)),
       [first : {<<l>> : l \in Of({"umask"}, FileLines)}, next : {<<>>}, opts : {[Plain EXCEPT !.umask = TRUE]}] >>
=============================================================================
