-------------------------- MODULE CheckConfigCases --------------------------
(***************************************************************************)
(* Configurations of virtual servers for TLC: a few basic ones, each with  *)
(* any two more statements in any order at one of the three levels.        *)
(***************************************************************************)
EXTENDS Integers, Sequences

LOCAL BAD == -2
LOCAL UNSET == -1

Addr(f, ip, port) == [f |-> f, ip |-> ip, port |-> port]
Tun(type, port, csum) == [type |-> type, port |-> port, csum |-> csum]
Plain == Tun("ipip", 0, "nocsum")
Refused == Addr(BAD, 1, 0)

Methods == { <<"NAT", Plain>>, <<"DR", Plain>>, <<"TUN", Plain>>, <<"TUN", Tun("gue", 5, "remcsum")>>,
             <<"TUN", Tun("gue", 0, "nocsum")>>, <<"TUN", Tun("gre", 0, "remcsum")>>, <<"TUN", Tun("gre", 0, "csum")>>,
             <<"TUN", Tun("ipip", 0, "csum")>>, <<"DR", Tun("bad", 0, "nocsum")>>, <<"bad", Plain>> }
FewMethods == { <<"NAT", Plain>>, <<"TUN", Plain>>, <<"bad", Plain>> }

Check(kind, text) == <<"check", kind, text>>
Rs(a, text) == <<"real_server", a, text>>
Tcp == Check("tcp", <<>>)

Settings == { <<k, n>> : k \in {"connect_timeout", "retry", "delay_before_retry", "warmup"}, n \in {2, BAD} }

VsWords ==
    { <<"lvs_method", m>> : m \in Methods } \cup Settings
    \cup { <<"ip_family", f>> : f \in {4, 6, BAD} } \cup { <<"lb_algo", a>> : a \in {"sh", "bad"} }
    \cup { <<"flag", f>> : f \in {"ops", "flag-1", "sh-port", "mh-port"} }
    \cup { <<"persistence_timeout", n>> : n \in {10, UNSET, BAD} } \cup { <<"persistence_granularity", f>> : f \in {4, 6} }
    \cup { <<"protocol", p>> : p \in {"tcp", "udp", "bad"} } \cup { <<"quorum", n>> : n \in {0, 3, 9} }
    \cup { <<"hysteresis", n>> : n \in {1, 4, BAD} } \cup { <<"weight", n>> : n \in {0, 4, BAD} }
    \cup { <<"sorry_server", a>> : a \in {Addr(4, 3, 81), Addr(6, 3, 0), Addr(4, 1, 0), Refused} }
    \cup { <<"sorry_server_inhibit", 1>>, <<"quorum_script", "up">>, <<"smtp_alert", 0>>, <<"ha_suspend", 1>>,
           <<"alpha", 1>>, <<"inhibit", 1>>, <<"omega", 1>>, <<"delay_loop", 7>> }
    \cup { <<"sorry_server_lvs_method", m>> : m \in FewMethods }
    \cup { Rs(a, t) : a \in {Addr(4, 1, 0), Addr(4, 2, 81), Addr(6, 2, 0), Refused}, t \in {<<>>, <<Tcp>>, <<<<"lvs_method", <<"TUN", Plain>>>>>>} }

RsWords ==
    { <<"lvs_method", m>> : m \in Methods } \cup Settings
    \cup { <<"weight", n>> : n \in {0, 3, BAD} } \cup { <<k, n>> : k \in {"alpha", "inhibit", "smtp_alert"}, n \in {0, 1, BAD} }
    \cup { <<"uthreshold", 5>>, <<"lthreshold", BAD>>, <<"delay_loop", 7>>, <<"notify", "up">> }
    \cup { Check(k, <<>>) : k \in {"tcp", "udp", "ping", "dns", "http", "smtp", "misc", "file", "bfd"} }
    \cup { Check("bfd", <<<<"name", n>>>>) : n \in {"b", "other"} }

Url(path, codes, regex, min, max) ==
    <<"url", [path |-> path, codes |-> codes, regex |-> regex, min |-> min, max |-> max]>>

\* The statements of the blocks of each kind.
Own == [tcp |-> {}, udp |-> {}, ping |-> {}, dns |-> { <<"name", 1>>, <<"name", BAD>> },
        http |-> { Url(TRUE, <<>>, FALSE, 3, 1), Url(FALSE, <<>>, FALSE, 0, UNSET), Url(TRUE, <<<<301, 200>>, <<90, 100>>>>, TRUE, 3, 2),
                   Url(TRUE, <<<<200, 204>>, <<500, 600>>>>, TRUE, 2, UNSET), Url(TRUE, <<>>, TRUE, 2, 2) },
        smtp |-> { <<"host", 1>> },
        misc |-> { <<"misc_path", 1>>, <<"user", 1>>, <<"user", BAD>> },
        file |-> { <<"track_file", "f">>, <<"track_file", "other">>, <<"weight", 2>>, <<"weight", 9>> },
        bfd |-> { <<"name", "b">>, <<"name", "c">>, <<"name", "other">> }]
Times == { <<k, n>> : k \in {"retry", "delay_before_retry", "warmup", "delay_loop"}, n \in {0, BAD} }
         \cup { <<"alpha", 0>>, <<"alpha", 1>> }
Conn == { <<"connect_ip", a>> : a \in {Addr(4, 5, 0), Addr(6, 5, 0), Addr(6, 0, 0), Refused} }
        \cup { <<"bindto", a>> : a \in {Addr(4, 6, 0), Addr(6, 6, 0), Refused} }
        \cup { <<k, n>> : k \in {"connect_port", "bind_port", "bind_if", "fwmark", "connect_timeout"}, n \in {8, BAD} }
WordsOf(k) == Own[k] \cup (IF k \in {"file", "bfd"} THEN {} ELSE Times)
              \cup (IF k \in {"file", "bfd", "misc"} THEN {} ELSE Conn)

Usual == [alert_checker |-> UNSET, alert |-> UNSET, reload |-> FALSE, user |-> TRUE, bfds |-> {"b", "c"}, files |-> {"f"},
          file_weight |-> 1]
Case(vs, text, groups, g) == [vs |-> vs, text |-> text, groups |-> groups, g |-> g]
Vs4 == <<"addr", Addr(4, 9, 80)>>
Vs6 == <<"addr", Addr(6, 9, 0)>>
Marked == <<"fwmark", 7>>
InGroup == <<"group", "g">>

Range(a, to) == <<"range", a, to>>
Entries == { Range(Addr(f, ip, p), to) : f \in {4, 6}, ip \in {4, 6}, p \in {0, 80},
             to \in { <<"none", 0>>, <<"mask", 3>>, <<"mask", 0>>, <<"mask", 1>>, <<"to", Addr(4, 5, 0)>>, <<"to", Addr(6, 7, 0)>>, <<"last", 3>>, <<"last", 2>>,
                      <<"last", 9>> } }
           \cup { <<"fwmark", m, f>> : m \in {3, BAD}, f \in {0, 4, 6, BAD} } \cup { Range(Refused, <<"none", 0>>) }
FewEntries == { <<"fwmark", 3, 0>>, <<"fwmark", 3, 6>>, Range(Addr(4, 4, 80), <<"none", 0>>), Range(Addr(6, 6, 0), <<"none", 0>>) }
Two == <<Rs(Addr(4, 1, 80), <<Tcp>>), Rs(Addr(4, 2, 0), <<>>)>>
Six == <<Rs(Addr(6, 1, 80), <<Tcp>>)>>

ServerCases == <<
    { Case(vs, <<a, Two[1], b, Two[2]>>, <<>>, Usual) : vs \in {Vs4, Marked}, a, b \in VsWords },
    { Case(Vs4, Two \o <<a, b>>, <<>>, [Usual EXCEPT !.alert = 1]) : a, b \in VsWords },
    { Case(vs, <<a, b>> \o Six, <<>>, [Usual EXCEPT !.alert_checker = 0])
        : vs \in {Vs6, <<"addr", Refused>>, <<"fwmark", 0>>}, a \in VsWords, b \in {w \in VsWords : w[1] \notin {"connect_timeout", "retry", "warmup"}} },
    { Case(Vs4, <<Rs(Addr(4, 1, 0), <<a, Tcp, b>>), Rs(Addr(4, 1, 80), <<Tcp>>)>>, <<>>, [Usual EXCEPT !.reload = r])
        : a, b \in RsWords, r \in BOOLEAN },
    { Case(Marked, <<<<"lvs_method", <<"TUN", Plain>>>>, Rs(Addr(4, 1, 0), <<a, b>>), Rs(Addr(6, 1, 0), <<b>>)>>, <<>>, Usual)
        : a, b \in RsWords } >>
    \o [i \in 1 .. 9 |->
        LET k == <<"tcp", "udp", "ping", "dns", "http", "smtp", "misc", "file", "bfd">>[i] IN
        { Case(Vs6, <<Rs(a, <<Check(k, <<x, y, z>>), Check(k, <<x>>)>>)>>, <<>>, [Usual EXCEPT !.user = x[1] # "retry"])
            : a \in {Addr(6, 0, 8), Addr(6, 1, 0)}, x, y \in WordsOf(k), z \in Own[k] \cup {<<"alpha", 1>>} }]
    \o << { Case(InGroup, r \o <<w>>, <<<<"g", <<a, b>>>>, <<"h", <<b>>>>>>, Usual)
            : a \in Entries, b \in FewEntries, r \in {Two, Six}, w \in {<<"ip_family", 6>>, <<"flag", "ops">>, <<"ha_suspend", 1>>} },
          { Case(InGroup, <<<<"lvs_method", <<"TUN", Plain>>>>, a, Rs(Addr(4, 1, 0), <<Tcp>>), b>>, <<<<"g", <<c, d>>>>>>, Usual)
            : a \in VsWords, b \in {<<"ip_family", 6>>, Rs(Addr(6, 2, 0), <<>>)}, c, d \in FewEntries },
          { Case(InGroup, Two, <<<<"h", <<a, a>>>>>>, Usual) : a \in FewEntries } >>
=============================================================================
