---------------------------- MODULE CheckConfig ----------------------------
(***************************************************************************)
(* How the checker process reads its virtual servers: the statements of    *)
(* the groups, the virtual server, its real servers and their checkers in  *)
(* the order they are written (check_parser.c, check_data.c, check_api.c   *)
(* and the handlers of the checkers), then the group is linked and the     *)
(* whole is validated (link_vsg_to_vs, validate_check_config).  A case is  *)
(* one virtual server with its groups; an action is one of these phases.   *)
(*                                                                         *)
(* A statement is <<keyword, argument>>; the argument BAD stands for one   *)
(* that its handler refuses, UNSET for the -1, UINT_MAX or ULONG_MAX of    *)
(* what was not configured.                                                *)
(***************************************************************************)
EXTENDS Integers, Sequences, SequencesExt

CONSTANTS Cases     \* sequence of sets of configurations

VARIABLE s

UNSET == -1
BAD == -2
NONE == <<>>

-----------------------------------------------------------------------------
(* Virtual server groups.  An address is a family, a number and a port;    *)
(* the last Byte of it is what "a-b" gives the end of.                     *)

Byte == 4
Width == 4

\* The last address of a range, or BAD.
RangeEnd(a, to) ==
    CASE to[1] = "none" -> a.ip
      [] to[1] = "mask" -> IF to[2] \in 1 .. Width /\ a.ip % 2 ^ (Width - to[2]) = 0
                           THEN a.ip + 2 ^ (Width - to[2]) - 1 ELSE BAD
      [] to[1] = "to" -> IF to[2].f = a.f /\ a.ip <= to[2].ip THEN to[2].ip ELSE BAD
      [] to[1] = "last" -> IF to[2] < Byte /\ a.ip % Byte < to[2]
                           THEN (a.ip - (a.ip % Byte)) + to[2] ELSE BAD

alloc_vsg(name) == [name |-> name, marks |-> {}, ranges |-> {}, have |-> {}, no_family |-> FALSE]

alloc_vsg_entry(g, e) ==
    CASE e[1] = "fwmark" /\ BAD \notin {e[2], e[3]} ->
           [g EXCEPT !.marks = @ \cup {<<e[2], e[3]>>}, !.have = @ \cup ({e[3]} \ {0}), !.no_family = @ \/ e[3] = 0]
      [] e[1] = "range" /\ e[2].f # BAD /\ RangeEnd(e[2], e[3]) # BAD ->
           [g EXCEPT !.ranges = @ \cup {[a |-> e[2], end |-> RangeEnd(e[2], e[3])]}, !.have = @ \cup {e[2].f}]
      [] OTHER -> g

\* The groups that are kept, in order.
vsg_handler(gs, def) ==
    LET g == FoldLeft(alloc_vsg_entry, alloc_vsg(def[1]), def[2])
    IN  IF (g.marks = {} /\ g.ranges = {}) \/ (g.have = {4, 6} /\ g.no_family) THEN gs ELSE Append(gs, g)

-----------------------------------------------------------------------------
(* Forwarding methods; tun holds the type, the port and the checksum of a  *)
(* tunnel.                                                                 *)

IPIP == [type |-> "ipip", port |-> 0, csum |-> "nocsum"]

GoodTunnel(t) ==
    /\ t.type # "bad"
    /\ (t.type = "gue") <=> (t.port # 0)
    /\ t.type = "ipip" => t.csum = "nocsum"
    /\ t.type = "gre" => t.csum # "remcsum"

\* The method is set before the options are looked at.
svr_forwarding_handler(x, arg) ==
    CASE arg[1] \notin {"NAT", "DR", "TUN"} -> x
      [] GoodTunnel(arg[2]) -> [x EXCEPT !.method = arg[1], !.tun = arg[2]]
      [] OTHER -> [x EXCEPT !.method = arg[1]]

-----------------------------------------------------------------------------
(* Checkers.                                                               *)

Connects == {"tcp", "udp", "dns", "http", "smtp", "ping"}
NoAddr == [f |-> 0, ip |-> 0, port |-> 0]
LinkLocal(a) == a.f = 6 /\ a.ip = 0

\* has: what the checker's own statements have given it.
queue_checker(kind, rs) ==
    [kind |-> kind, launch |-> kind \notin {"file", "bfd"}, co |-> kind \in Connects, enabled |-> TRUE,
     dst |-> IF kind \in Connects \ {"smtp"} THEN rs.addr ELSE NoAddr, bindto |-> NoAddr, bind_if |-> FALSE,
     connect_timeout |-> UNSET, alpha |-> UNSET, delay_loop |-> UNSET, warmup |-> UNSET, retry |-> UNSET,
     delay_before_retry |-> UNSET, up |-> TRUE, refused |-> FALSE, gone |-> FALSE, hosts |-> <<>>,
     has |-> {}, urls |-> <<>>, codes |-> {}, path |-> FALSE, weight |-> UNSET, marked |-> FALSE,
     default_retry |-> CASE kind = "dns" -> 3 [] kind = "misc" -> 0 [] OTHER -> 1,
     default_delay |-> CASE kind = "dns" -> 0 [] kind = "http" -> 3 [] OTHER -> 1]

checker_set_dst_port(a, port) == [a EXCEPT !.port = port]

\* A connect_ip of the wrong family leaves the check without an address.
co_ip_handler(c, a) ==
    CASE a.f = BAD -> [c EXCEPT !.dst.f = 0, !.refused = TRUE]
      [] c.bindto.f \notin {0, a.f} -> [c EXCEPT !.dst = [a EXCEPT !.f = 0, !.port = c.dst.port], !.refused = TRUE]
      [] OTHER -> [c EXCEPT !.dst = [a EXCEPT !.port = c.dst.port]]

co_srcip_handler(c, a) ==
    CASE a.f = BAD -> [c EXCEPT !.bindto.f = 0]
      [] c.dst.f \notin {0, a.f} -> [c EXCEPT !.bindto = [a EXCEPT !.f = 0, !.port = c.bindto.port]]
      [] OTHER -> [c EXCEPT !.bindto = [a EXCEPT !.port = c.bindto.port]]

co_port_handler(c, port) == IF port = BAD THEN c ELSE [c EXCEPT !.dst = checker_set_dst_port(@, port)]
co_srcport_handler(c, port) == IF port = BAD THEN c ELSE [c EXCEPT !.bindto = checker_set_dst_port(@, port)]
co_srcif_handler(c, name) == IF name = BAD THEN c ELSE [c EXCEPT !.bind_if = TRUE]
co_fwmark_handler(c, mark) == IF mark = BAD THEN c ELSE [c EXCEPT !.marked = mark # 0]

\* A number, a time or a Boolean that the handler reads.
Set(x, w) == IF w[2] = BAD THEN x ELSE [x EXCEPT ![w[1]] = w[2]]

Common == {"retry", "delay_before_retry", "warmup", "delay_loop", "alpha"}

check_conn_opts(c) == LinkLocal(c.dst) => c.bind_if

\* url blocks: a path, status codes and the range of a regular expression.
status_code_handler(c, r) ==
    IF 100 <= r[1] /\ r[1] <= r[2] /\ r[2] <= 599 THEN [c EXCEPT !.codes = @ \cup {r}] ELSE c

\* A regular expression is searched for between two offsets; the second is one beyond the last.
regex_offsets(u) ==
    CASE ~u.regex -> <<0, 0>>
      [] u.max # UNSET /\ u.min >= u.max + 1 -> <<0, 0>>
      [] OTHER -> <<u.min, u.max + 1>>

url_check(c, u) ==
    IF ~u.path THEN c
    ELSE LET d == FoldLeft(status_code_handler, [c EXCEPT !.codes = {}], u.codes)
         IN  [d EXCEPT !.urls = Append(@, [codes |-> IF d.codes = {} THEN {<<200, 299>>} ELSE d.codes,
                                           offsets |-> regex_offsets(u)])]

bfd_name_handler(c, name, rs, g) ==
    IF name \notin g.bfds \/ "name" \in c.has \/ name \in rs.bfds THEN [c EXCEPT !.gone = TRUE]
    ELSE [c EXCEPT !.has = {"name", name}]

track_file_handler(c, name, g) == IF name \in g.files THEN [c EXCEPT !.has = {name}] ELSE c

track_file_weight_handler(c, n) == IF n \in -5 .. 5 THEN [c EXCEPT !.weight = n] ELSE c

\* Every statement of a checker's block; those after it was dropped are skipped.
CkWord(c, w, rs, g) ==
    CASE c.gone -> c
      [] w[1] \in Common -> Set(c, w)
      [] w[1] = "connect_timeout" -> Set(c, w)
      [] w[1] = "connect_ip" -> co_ip_handler(c, w[2])
      [] w[1] = "connect_port" -> co_port_handler(c, w[2])
      [] w[1] = "bindto" -> co_srcip_handler(c, w[2])
      [] w[1] = "bind_port" -> co_srcport_handler(c, w[2])
      [] w[1] = "bind_if" -> co_srcif_handler(c, w[2])
      [] w[1] = "fwmark" -> co_fwmark_handler(c, w[2])
      [] w[1] = "url" -> url_check(c, w[2])
      [] w[1] = "host" -> IF LinkLocal(rs.addr) THEN c ELSE [c EXCEPT !.hosts = Append(@, rs.addr)]
      [] w[1] = "misc_path" -> [c EXCEPT !.has = @ \cup {"path"}]
      [] w[1] = "user" -> IF w[2] = BAD THEN [c EXCEPT !.gone = TRUE] ELSE [c EXCEPT !.has = @ \cup {"user"}]
      [] w[1] = "name" /\ c.kind = "bfd" -> bfd_name_handler(c, w[2], rs, g)
      [] w[1] = "name" -> IF w[2] = BAD \/ "name" \in c.has THEN c ELSE [c EXCEPT !.has = @ \cup {"name"}]
      [] w[1] = "track_file" -> track_file_handler(c, w[2], g)
      [] w[1] = "weight" -> track_file_weight_handler(c, w[2])

\* SMTP_CHECK: what is not given comes from the real server; without any connection
\* statement the first host is used instead, and every other host is a checker more.
smtp_check_end_handler(c, rs, vs) ==
    LET given == c.dst.f # 0 \/ c.dst.port # 0 \/ c.bindto.f # 0 \/ c.bindto.port # 0 \/ c.bind_if
                 \/ c.hosts = <<>> \/ c.marked \/ c.connect_timeout # UNSET
        port == IF c.dst.port = 0 THEN rs.addr.port ELSE c.dst.port
        main == IF given THEN [c EXCEPT !.dst = checker_set_dst_port(IF c.dst.f = 0 THEN rs.addr ELSE c.dst, port)]
                ELSE [c EXCEPT !.dst = Head(c.hosts), !.connect_timeout = 0]
        rest == IF given THEN c.hosts ELSE Tail(c.hosts)
        timeout == IF rs.connect_timeout = UNSET THEN vs.connect_timeout ELSE rs.connect_timeout
        timed == IF main.connect_timeout = UNSET THEN [main EXCEPT !.connect_timeout = timeout] ELSE main
    IN  IF given /\ ~check_conn_opts(main) THEN <<>>
        ELSE <<timed>> \o [i \in 1 .. Len(rest) |->
                 [timed EXCEPT !.dst = rest[i], !.bindto = NoAddr, !.bind_if = FALSE, !.connect_timeout = 0]]

misc_end_handler(c, g) == IF "path" \notin c.has \/ ("user" \notin c.has /\ ~g.user) THEN <<>> ELSE <<c>>

file_end_handler(c, g) ==
    IF c.has = {} THEN <<>>
    ELSE <<[c EXCEPT !.weight = IF @ = UNSET THEN g.file_weight ELSE @, !.alpha = 0]>>

\* The checkers that a block leaves.
CkEnd(c, rs, vs, g) ==
    CASE c.gone -> <<>>
      [] c.kind = "smtp" -> smtp_check_end_handler(c, rs, vs)
      [] c.kind = "misc" -> misc_end_handler(c, g)
      [] c.kind = "file" -> file_end_handler(c, g)
      [] c.kind = "bfd" -> IF c.has = {} THEN <<>> ELSE <<c>>
      [] c.kind = "http" /\ c.urls = <<>> -> <<>>
      [] OTHER -> IF check_conn_opts(c) THEN <<c>> ELSE <<>>

-----------------------------------------------------------------------------
(* Real servers.                                                           *)

alloc_rs(a, vs) ==
    [addr |-> a, weight |-> UNSET, method |-> vs.method, tun |-> vs.tun, alpha |-> UNSET, inhibit |-> UNSET,
     connect_timeout |-> UNSET, delay_loop |-> UNSET, warmup |-> UNSET, retry |-> UNSET,
     delay_before_retry |-> UNSET, smtp_alert |-> UNSET, uthreshold |-> 0, lthreshold |-> 0,
     scripts |-> {}, bfds |-> {}, checkers |-> <<>>, failed |-> 0]

rs_weight_handler(rs, n) == IF n = BAD THEN rs ELSE [rs EXCEPT !.weight = n]
rs_settings == {"connect_timeout", "delay_loop", "delay_before_retry", "retry", "warmup"}
rs_flags == {"inhibit", "alpha", "smtp_alert"}
rs_thresholds == {"uthreshold", "lthreshold"}
rs_notify_handlers(rs, which) == [rs EXCEPT !.scripts = @ \cup {which}]

\* A block of a checker: its statements, then its end handler.
CkBlock(rs, kind, text, vs, g) ==
    LET c == FoldLeft(LAMBDA a, w : CkWord(a, w, rs, g), queue_checker(kind, rs), text)
        left == CkEnd(c, rs, vs, g)
    IN  [rs EXCEPT !.checkers = @ \o left,
                   !.bfds = IF kind = "bfd" /\ left # <<>> THEN @ \cup (c.has \ {"name"}) ELSE @]

RsWord(rs, w, vs, g) ==
    CASE w[1] = "weight" -> rs_weight_handler(rs, w[2])
      [] w[1] = "lvs_method" -> svr_forwarding_handler(rs, w[2])
      [] w[1] \in rs_settings \cup rs_flags \cup rs_thresholds -> Set(rs, w)
      [] w[1] = "notify" -> rs_notify_handlers(rs, w[2])
      [] w[1] = "check" -> CkBlock(rs, w[2], w[3], vs, g)

\* The family of a server that is not tunnelled to is that of the virtual server.
TakesFamily(vs, x) == x.method = "TUN" \/ vs.af \in {0, x.addr.f}
FamilyFrom(vs, x) == IF x.method # "TUN" /\ vs.af = 0 THEN x.addr.f ELSE vs.af

rs_end_handler(vs, rs) ==
    IF TakesFamily(vs, rs) THEN [vs EXCEPT !.af = FamilyFrom(vs, rs), !.rs = Append(@, rs)] ELSE vs

RsBlock(vs, a, text, g) ==
    IF a.f = BAD THEN vs
    ELSE rs_end_handler(vs, FoldLeft(LAMBDA x, w : RsWord(x, w, vs, g), alloc_rs(a, vs), text))

-----------------------------------------------------------------------------
(* The virtual server; group is the name of its group, mark its fwmark.    *)

alloc_vs(def) ==
    [group |-> IF def[1] = "group" THEN def[2] ELSE "", mark |-> IF def[1] = "fwmark" THEN def[2] ELSE 0,
     addr |-> IF def[1] = "addr" THEN def[2] ELSE NoAddr, af |-> IF def[1] = "addr" THEN def[2].f ELSE 0,
     vsg |-> NONE, alpha |-> 0, omega |-> 0, inhibit |-> 0, ha_suspend |-> 0, quorum |-> 1,
     hysteresis |-> 0, ops |-> FALSE, sched |-> NONE, flags |-> {}, method |-> "unset", tun |-> IPIP, proto |-> NONE,
     connect_timeout |-> 5, delay_loop |-> 60, warmup |-> UNSET, retry |-> UNSET, delay_before_retry |-> UNSET,
     weight |-> 1, smtp_alert |-> UNSET, persistence |-> 0, scripts |-> {}, ss |-> NONE, rs |-> <<>>,
     duplicate |-> FALSE]

ip_family_handler(vs, f) == IF f # BAD /\ vs.af \in {0, f} THEN [vs EXCEPT !.af = f] ELSE vs

vs_settings == {"connect_timeout", "delay_loop", "delay_before_retry", "retry", "warmup"}

lbalgo_handler(vs, name) == IF name \notin {"rr", "wlc", "sh", "mh"} THEN vs ELSE [vs EXCEPT !.sched = <<name>>]

\* The flags of a scheduler are taken only after that scheduler was given.
lbflags_handler(vs, flag) ==
    CASE flag = "ops" -> [vs EXCEPT !.ops = TRUE]
      [] flag = "flag-1" -> [vs EXCEPT !.flags = @ \cup {flag}]
      [] \/ flag = "sh-port" /\ vs.sched = <<"sh">>
         \/ flag = "mh-port" /\ vs.sched = <<"mh">> -> [vs EXCEPT !.flags = @ \cup {flag}]
      [] OTHER -> vs

vs_forwarding_handler(vs, arg) == svr_forwarding_handler(vs, arg)

DefaultPersistence == 360
pto_handler(vs, n) ==
    CASE n = BAD -> vs [] n = UNSET -> [vs EXCEPT !.persistence = DefaultPersistence]
      [] OTHER -> [vs EXCEPT !.persistence = n]

\* f is the family whose notation the granularity is written in.
pgr_handler(vs, f) ==
    IF vs.af \notin {0, f} THEN vs
    ELSE [vs EXCEPT !.af = f, !.persistence = IF @ = 0 THEN DefaultPersistence ELSE @]

proto_handler(vs, p) == IF p \notin {"tcp", "udp", "sctp"} THEN vs ELSE [vs EXCEPT !.proto = <<p>>]

vs_flags == {"ha_suspend", "smtp_alert", "inhibit", "alpha", "omega"}

alloc_ssvr(vs, a) ==
    IF a.f = BAD THEN vs
    ELSE [vs EXCEPT !.ss = <<[addr |-> a, method |-> vs.method, tun |-> vs.tun, inhibit |-> 0]>>]

\* Statements about a sorry server that is not there yet are ignored.
sorry_server_handlers(vs, w) ==
    CASE w[1] = "sorry_server" -> alloc_ssvr(vs, w[2])
      [] vs.ss = NONE -> vs
      [] w[1] = "sorry_server_inhibit" -> [vs EXCEPT !.ss[1].inhibit = 1]
      [] w[1] = "sorry_server_lvs_method" -> [vs EXCEPT !.ss[1] = svr_forwarding_handler(@, w[2])]

quorum_handler(vs, n) == [vs EXCEPT !.quorum = IF n \in {0, BAD} THEN 1 ELSE n]
hysteresis_handler(vs, n) == IF n = BAD THEN vs ELSE [vs EXCEPT !.hysteresis = n]
vs_weight_handler(vs, n) == IF n \in {0, BAD} THEN vs ELSE [vs EXCEPT !.weight = n]
quorum_script_handlers(vs, which) == [vs EXCEPT !.scripts = @ \cup {which}]

VsWord(vs, w, g) ==
    CASE w[1] = "ip_family" -> ip_family_handler(vs, w[2])
      [] w[1] \in vs_settings \cup vs_flags -> Set(vs, w)
      [] w[1] = "lb_algo" -> lbalgo_handler(vs, w[2])
      [] w[1] = "flag" -> lbflags_handler(vs, w[2])
      [] w[1] = "lvs_method" -> vs_forwarding_handler(vs, w[2])
      [] w[1] = "persistence_timeout" -> pto_handler(vs, w[2])
      [] w[1] = "persistence_granularity" -> pgr_handler(vs, w[2])
      [] w[1] = "protocol" -> proto_handler(vs, w[2])
      [] w[1] \in {"sorry_server", "sorry_server_inhibit", "sorry_server_lvs_method"} -> sorry_server_handlers(vs, w)
      [] w[1] = "quorum" -> quorum_handler(vs, w[2])
      [] w[1] = "hysteresis" -> hysteresis_handler(vs, w[2])
      [] w[1] = "weight" -> vs_weight_handler(vs, w[2])
      [] w[1] = "quorum_script" -> quorum_script_handlers(vs, w[2])
      [] w[1] = "real_server" -> RsBlock(vs, w[2], w[3], g)

\* Families that were not given: from the sorry server, or from servers that all have the same.
vs_end_handler(vs) ==
    LET kept == vs.ss # NONE /\ TakesFamily(vs, vs.ss[1])
        v == [vs EXCEPT !.ss = IF kept THEN @ ELSE NONE, !.af = IF kept THEN FamilyFrom(vs, vs.ss[1]) ELSE @]
        families == {x.addr.f : x \in ToSet(v.rs \o v.ss)}
    IN  IF v.rs = <<>> THEN NONE
        ELSE <<[v EXCEPT !.af = IF @ = 0 /\ v.group = ""
                                THEN (IF 4 \in families THEN 4 ELSE 6) ELSE @]>>

-----------------------------------------------------------------------------
(* The group of a virtual server: it must exist, and the families agree.   *)

Named(gs, name) == SelectSeq(gs, LAMBDA g : g.name = name)

link_vsg_to_vs(vs, gs) ==
    LET g == Named(gs, vs.group)[1]
    IN  CASE vs.group = "" -> <<vs>>
          [] Named(gs, vs.group) = <<>> -> NONE
          [] g.have = {4, 6} /\ vs.af # 0 -> NONE
          [] vs.af # 0 /\ g.have \cap ({4, 6} \ {vs.af}) # {} -> NONE
          [] OTHER -> <<[vs EXCEPT !.vsg = <<g>>,
                            !.af = IF g.have \in {{4}, {6}} /\ @ = 0 THEN CHOOSE f \in g.have : TRUE ELSE @]>>

-----------------------------------------------------------------------------
(* validate_check_config: the virtual server, then each real server, then  *)
(* what depends on all of them, then the checkers.                         *)

HasMarks(vs) == vs.mark # 0 \/ (vs.vsg # NONE /\ vs.vsg[1].marks # {})
HasAddress(vs) == IF vs.vsg # NONE THEN vs.vsg[1].ranges # {} ELSE vs.mark = 0
NeedsPersistence(vs) ==
    IF vs.vsg = NONE THEN vs.mark = 0 /\ vs.addr.port = 0 ELSE \E r \in vs.vsg[1].ranges : r.a.port = 0

Alert(given, default, g) ==
    CASE given # UNSET -> given
      [] g.alert_checker # UNSET -> g.alert_checker
      [] g.alert # UNSET -> g.alert
      [] OTHER -> default

validate_service(vs, g) ==
    LET proto == IF ~HasAddress(vs) THEN NONE ELSE IF vs.proto = NONE THEN <<"udp">> ELSE vs.proto
    IN  [vs EXCEPT !.ha_suspend = IF HasMarks(vs) THEN 0 ELSE @,
                   !.proto = proto,
                   !.ops = @ /\ (HasAddress(vs) => proto = <<"udp">>),
                   !.persistence = IF @ = 0 /\ NeedsPersistence(vs) THEN DefaultPersistence ELSE @,
                   !.sched = IF @ = NONE THEN <<"wlc">> ELSE @,
                   !.smtp_alert = Alert(@, 0, g)]

Default(x, y) == IF x = UNSET THEN y ELSE x

\* The values a real server takes from its virtual server.
RsDefaults(rs, vs, g) ==
    [rs EXCEPT !.method = IF @ = "unset" THEN vs.method ELSE @,
               !.tun = IF rs.method = "unset" THEN vs.tun ELSE @,
               !.alpha = Default(@, vs.alpha), !.inhibit = Default(@, vs.inhibit), !.retry = Default(@, vs.retry),
               !.connect_timeout = Default(@, vs.connect_timeout), !.delay_loop = Default(@, vs.delay_loop),
               !.warmup = Default(@, vs.warmup), !.delay_before_retry = Default(@, vs.delay_before_retry),
               !.weight = Default(@, vs.weight), !.smtp_alert = Alert(@, 1, g)]

\* One real server, after those in vs.rs: dropped if it is the same as an earlier one.
validate_rs(vs, rs, g) ==
    IF \E x \in ToSet(vs.rs) : x.addr = rs.addr THEN vs
    ELSE LET method == IF rs.method = "unset" /\ vs.method = "unset" THEN "NAT" ELSE vs.method
             r == RsDefaults(rs, [vs EXCEPT !.method = method], g)
             same == vs.ss # NONE /\ vs.ss[1].addr = rs.addr
         IN  [vs EXCEPT !.method = method, !.rs = Append(@, r), !.duplicate = @ \/ same,
                        !.ss = IF same THEN <<[vs.ss[1] EXCEPT !.inhibit = r.inhibit]>> ELSE @]

validate_ss(vs) ==
    IF vs.ss = NONE \/ vs.ss[1].method # "unset" THEN vs
    ELSE LET method == IF vs.method = "unset" THEN "NAT" ELSE vs.method
         IN  [vs EXCEPT !.method = method, !.ss[1].method = method, !.ss[1].tun = vs.tun]

Weights(vs) == FoldLeft(LAMBDA n, x : n + x.weight, 0, vs.rs)

validate_quorum(vs) ==
    LET q == IF vs.quorum > Weights(vs) THEN Weights(vs) ELSE vs.quorum
    IN  [vs EXCEPT !.quorum = q, !.hysteresis = IF @ >= q THEN q - 1 ELSE @]

\* The port of a server that is not reached with NAT is that of the virtual server.
PortOf(vs, x) ==
    CASE x.method = "NAT" -> IF vs.mark = 0 /\ x.addr.port = 0 THEN vs.addr.port ELSE x.addr.port
      [] OTHER -> IF vs.mark # 0 THEN 0 ELSE vs.addr.port

validate_ports(vs) ==
    IF vs.vsg # NONE THEN vs
    ELSE [vs EXCEPT !.rs = [i \in 1 .. Len(vs.rs) |-> [vs.rs[i] EXCEPT !.addr.port = PortOf(vs, vs.rs[i])]],
                    !.ss = IF @ = NONE \/ @[1].method = "NAT" THEN @
                           ELSE <<[vs.ss[1] EXCEPT !.addr.port = PortOf(vs, vs.ss[1])]>>]

\* The values a checker takes from its real server; one that starts in alpha mode is down.
validate_checker(c, rs, vs, g) ==
    LET delay == Default(c.delay_loop, rs.delay_loop)
        alpha == Default(c.alpha, rs.alpha)
        up == c.up /\ (alpha = 0 \/ g.reload)
    IN  [c EXCEPT !.enabled = @ \/ vs.ha_suspend = 0, !.alpha = alpha, !.up = up,
                  !.retry = IF c.launch THEN Default(@, Default(rs.retry, c.default_retry)) ELSE @,
                  !.connect_timeout = IF c.launch /\ c.co THEN Default(@, rs.connect_timeout) ELSE @,
                  !.delay_loop = IF c.launch THEN delay ELSE @,
                  !.warmup = IF c.launch THEN Default(@, Default(rs.warmup, delay)) ELSE @,
                  !.delay_before_retry =
                      IF ~c.launch THEN @
                      ELSE Default(@, Default(rs.delay_before_retry,
                                              IF c.default_delay # 0 THEN c.default_delay ELSE delay))]

validate_checkers(rs, vs, g) ==
    LET cs == [i \in 1 .. Len(rs.checkers) |-> validate_checker(rs.checkers[i], rs, vs, g)]
    IN  [rs EXCEPT !.checkers = cs, !.failed = Len(SelectSeq(cs, LAMBDA c : ~c.up))]

validate_check_config(vs, g) ==
    LET v == validate_service(vs, g)
        all == FoldLeft(LAMBDA a, x : validate_rs(a, x, g), [v EXCEPT !.rs = <<>>], v.rs)
        w == validate_ports(validate_quorum(validate_ss(all)))
    IN  [w EXCEPT !.rs = [i \in 1 .. Len(w.rs) |-> validate_checkers(w.rs[i], w, g)]]

\* Checkers of a suspended virtual server wait for its address.
register_checkers_thread(vs) ==
    [vs EXCEPT !.rs = [i \in 1 .. Len(vs.rs) |->
        [vs.rs[i] EXCEPT !.checkers = [j \in 1 .. Len(vs.rs[i].checkers) |->
            [vs.rs[i].checkers[j] EXCEPT !.enabled = @ /\ (vs.ha_suspend = 0 \/ ~vs.rs[i].checkers[j].launch)]]]]]

-----------------------------------------------------------------------------
Init ==
    \E i \in 1 .. Len(Cases) : \E c \in Cases[i] :
        s = [phase |-> "start", c |-> c, groups |-> <<>>, vs |-> NONE]

Read ==
    /\ s.phase = "start"
    /\ s' = [s EXCEPT !.phase = "read", !.groups = FoldLeft(vsg_handler, <<>>, s.c.groups),
                      !.vs = IF s.c.vs[1] = "addr" /\ s.c.vs[2].f = BAD THEN NONE
                             ELSE vs_end_handler(FoldLeft(LAMBDA v, w : VsWord(v, w, s.c.g),
                                                          alloc_vs(s.c.vs), s.c.text))]

Link ==
    /\ s.phase = "read" /\ s.vs # NONE
    /\ s' = [s EXCEPT !.phase = "linked", !.vs = link_vsg_to_vs(s.vs[1], s.groups)]

Validate ==
    /\ s.phase = "linked" /\ s.vs # NONE
    /\ s' = [s EXCEPT !.phase = "valid", !.vs = <<validate_check_config(s.vs[1], s.c.g)>>]

Register ==
    /\ s.phase = "valid"
    /\ s' = [s EXCEPT !.phase = "running", !.vs = <<register_checkers_thread(s.vs[1])>>]

Next == Read \/ Link \/ Validate \/ Register

Spec == Init /\ [][Next]_s

-----------------------------------------------------------------------------
(* What is accepted.                                                       *)

ServerSound(vs, x) ==
    /\ x.method \in {"NAT", "DR", "TUN"} /\ GoodTunnel(x.tun)
    /\ x.method # "TUN" => x.addr.f = vs.af
    /\ x.method # "NAT" /\ vs.vsg = NONE => x.addr.port = IF vs.mark # 0 THEN 0 ELSE vs.addr.port

\* A checker never runs without its times; where the addresses it was given were not
\* refused, those of the two ends have the same family (SMTP_CHECK compares only what is given).
CheckerSound(c, rs) ==
    /\ c.up <=> (c.alpha = 0 \/ s.c.g.reload)
    /\ c.launch => UNSET \notin {c.retry, c.delay_loop, c.warmup, c.delay_before_retry}
    /\ c.co => /\ c.connect_timeout # UNSET
               /\ LinkLocal(c.dst) => c.bind_if
               /\ c.dst.f = 0 => c.refused
               /\ c.bindto.f \notin {0, c.dst.f} => c.kind = "smtp" \/ c.refused
    /\ c.kind = "http" => /\ c.urls # <<>>
                          /\ \A u \in ToSet(c.urls) : u.codes # {} /\ (u.offsets[2] # 0 => u.offsets[1] < u.offsets[2])

\* Whatever is written, in whatever order, a virtual server that is accepted is one that can be
\* installed and can come up: its families, ports, forwarding methods and protocol agree, its
\* quorum can be reached, and its checkers know their addresses and times.
AcceptedIsSound ==
    s.phase \in {"valid", "running"} =>
        LET vs == s.vs[1]
        IN  /\ vs.rs # <<>>
            /\ vs.af # 0 \/ vs.vsg # NONE
            /\ \A x \in ToSet(vs.rs) : ServerSound(vs, x)
            /\ \A x \in ToSet(vs.ss) : ServerSound(vs, x)
            /\ vs.quorum <= Weights(vs) /\ (Weights(vs) > 0 => vs.hysteresis < vs.quorum)
            /\ vs.ops /\ HasAddress(vs) => vs.proto = <<"udp">>
            /\ HasAddress(vs) <=> vs.proto # NONE
            /\ NeedsPersistence(vs) => vs.persistence > 0
            /\ vs.ha_suspend = 1 => ~HasMarks(vs)
            /\ vs.vsg # NONE =>
                 /\ \A r \in vs.vsg[1].ranges : r.a.ip <= r.end /\ r.a.f \in vs.vsg[1].have
                 /\ vs.vsg[1].have \subseteq {vs.af} \/ (vs.af = 0 /\ \A x \in ToSet(vs.rs) : x.method = "TUN")
            /\ \A x \in ToSet(vs.rs) :
                 /\ \A c \in ToSet(x.checkers) : CheckerSound(c, x)
                 /\ x.failed = Len(SelectSeq(x.checkers, LAMBDA c : ~c.up))
            /\ vs.duplicate => \A x \in ToSet(vs.rs) : vs.ss[1].addr = x.addr => vs.ss[1].inhibit = x.inhibit
            /\ s.phase = "running" => \A x \in ToSet(vs.rs) : \A c \in ToSet(x.checkers) :
                 c.launch => (c.enabled <=> vs.ha_suspend = 0)
=============================================================================
