------------------------------ MODULE MCChild ------------------------------
(***************************************************************************)
(* What a child process does around its protocol, for TLC: VrrpKernel and  *)
(* the other components named in Parts, each instantiated below.  They     *)
(* share no state here, so a behaviour is about one of them (part); all    *)
(* but the first keep theirs in st.                                        *)
(***************************************************************************)
EXTENDS VrrpKernel

CONSTANT Parts

VARIABLES part, st

-----------------------------------------------------------------------------
(* Scenarios of the kernel.                                                *)

A == [vip |-> {"v1", "v2"}, route |-> {"r"}, rule |-> {"u"}, src |-> [r \in {"r"} |-> "v1"],
      stat |-> {"sa", "sr"}, accept |-> FALSE, present |-> TRUE]
B == [A EXCEPT !.vip = {"v2"}, !.src = [r \in {"r"} |-> "v2"], !.rule = {}]
C == [A EXCEPT !.accept = TRUE, !.stat = {"sa"}]
D == [A EXCEPT !.present = FALSE]
All == {"v1", "v2", "r", "u", "sa", "sr"}
Scenario(cs, n, sc, vs, budget) ==
    [first |-> A, confs |-> cs, nft |-> n, scripts |-> sc, victims |-> vs, admin |-> budget[1],
     flips |-> budget[2], reloads |-> budget[3], crashes |-> budget[4]]
Idle == Scenario({A, B}, TRUE, TRUE, All \ {"u"}, <<2, 2, 1, 1>>)
MCSetups == {
    Scenario({A, B, D}, TRUE, TRUE, All \ {"u"}, <<2, 1, 2, 0>>),
    Scenario({A, B, C}, FALSE, TRUE, All \ {"u"}, <<2, 1, 2, 0>>),
    Scenario({A, B}, TRUE, FALSE, All, <<3, 0, 2, 0>>),
    Idle }

\* A rule is deleted while the tracked script fails.
RuleSetups == { Scenario({A}, TRUE, TRUE, {"u"}, <<1, 0, 0, 0>>) }

-----------------------------------------------------------------------------
(* Configurations of two instances: a few basic ones, each with any two    *)
(* more statements in any order.                                           *)

If(index, ether, mcast, mtu, base) ==
    [index |-> index, ether |-> ether, mcast |-> mcast, mtu |-> mtu, lo |-> FALSE, base |-> base]
IfSet == [eth0 |-> If(TRUE, TRUE, TRUE, 1500, "eth0"), p2p |-> If(TRUE, FALSE, FALSE, 1500, "p2p"),
          ib |-> If(TRUE, FALSE, TRUE, 1500, "ib"), tiny |-> If(TRUE, TRUE, TRUE, 68, "tiny"),
          later |-> If(FALSE, TRUE, TRUE, 0, "later"), mv |-> If(TRUE, TRUE, TRUE, 1500, "eth0")]
Addr(f, id, dev) == [family |-> f, id |-> id, dev |-> dev, vmac |-> FALSE]
OWNER == 255
BAD == -999
Words == {
  <<"use_vmac", "">>, <<"use_vmac", "vm">>, <<"use_vmac", "mac">>, <<"use_vmac_addr", "">>,
  <<"vmac_xmit_base", "">>, <<"use_ipvlan", 0>>, <<"use_ipvlan", 4>>, <<"use_ipvlan", 6>>,
  <<"unicast_peer", <<4, "p">>>>, <<"unicast_peer", <<6, "q">>>>, <<"unicast_fault_no_peer", "">>,
  <<"check_unicast_src", "">>, <<"native_ipv6", "">>, <<"state", "MASTER">>, <<"state", "BACKUP">>,
  <<"interface", "p2p">>, <<"interface", "ib">>, <<"interface", "tiny">>, <<"interface", "later">>,
  <<"interface", "mv">>, <<"vrf", "eth0">>, <<"if", 10>>, <<"own", 0>>, <<"script", 254>>,
  <<"script", BAD>>, <<"file", 1>>, <<"file", 5>>, <<"process", 10>>, <<"bfd", 10>>,
  <<"dont_track_primary", "">>, <<"mcast_src_ip", "v4">>, <<"mcast_src_ip", "v6ll">>,
  <<"unicast_src_ip", "v4">>, <<"mcast_dst_ip", <<4, TRUE>>>>, <<"mcast_dst_ip", <<6, TRUE>>>>,
  <<"track_src_ip", "">>, <<"unicast_ttl", 5>>, <<"version", 2>>, <<"version", 3>>,
  <<"priority", OWNER>>, <<"priority", 100>>, <<"advert_int", 10>>, <<"advert_int", 40956>>,
  <<"advert_int", 255000>>, <<"virtual_ipaddress", [i \in 1..6 |-> Addr(4, i, <<>>)]>>,
  <<"virtual_ipaddress_excluded", <<Addr(6, 7, <<>>)>>>>,
  <<"virtual_ipaddress", <<Addr(4, 8, <<"p2p">>)>>>>, <<"virtual_ipaddress", <<Addr(6, 8, <<>>)>>>>,
  <<"no_virtual_ipaddress", "">>, <<"promote_secondaries", "">>, <<"accept", 1>>, <<"accept", 0>>,
  <<"skip_check_adv_addr", 0>>, <<"strict_mode", 1>>, <<"strict_mode", 0>>,
  <<"nopreempt", "">>, <<"preempt", "">>, <<"preempt_delay", 1000>>, <<"notify", "master">>,
  <<"garp_lower_prio_repeat", 5>>, <<"down_timer_adverts", 1>>, <<"timer_expired_backup", 50>>,
  <<"garp_extra_if", <<TRUE, 10>>>>, <<"lower_no_advert", 0>>, <<"higher_send", 1>>,
  <<"owner_ignore", 0>>, <<"auth_type", "AH">>, <<"auth_type", "PASS">>, <<"auth_pass", "x">>,
  <<"notify_priority_changes", 1>> }
Few == {w \in Words : w[1] \in {"strict_mode", "version", "state", "priority", "unicast_peer",
                                "use_vmac", "if", "process", "script", "file", "bfd", "accept"}}
Globals == [strict |-> 0, version |-> 2, owner_ignore |-> 0, lower_rep |-> 1, lower_no_advert |-> 0,
            higher_send |-> 0, notify_priority |-> 0, vmac_garp |-> 5, garp_all |-> FALSE,
            exists |-> "no", reload |-> FALSE, sync |-> "none", tracks |-> <<"none", 0>>]
Stmt(kw, arg) == <<kw, arg>>
On(i) == <<Stmt("interface", i), Stmt("virtual_router_id", 51)>>
VipOf(f) == Stmt("virtual_ipaddress", <<Addr(f, 9, <<>>)>>)
NoIf == <<Stmt("unicast_peer", <<4, "p">>), Stmt("unicast_src_ip", "v4"), Stmt("virtual_router_id", 51),
          Stmt("virtual_ipaddress", <<Addr(4, 9, <<"eth0">>)>>)>>
\* ... with or without a peer, and with addresses that have no interface either.
NoPeer(a, f) == <<Stmt("unicast_src_ip", a), Stmt("virtual_router_id", 51), VipOf(f),
                  Stmt("virtual_ipaddress", <<Addr(f, 10, <<"eth0">>)>>)>>
Peers == {w \in Words : w[1] \in {"unicast_peer", "unicast_fault_no_peer", "use_vmac_addr", "priority"}}
Six == On("eth0") \o <<VipOf(6)>>
Case(first, second, g) == [text |-> <<first, second>>, g |-> g]
ConfCases == <<
    { Case(On("eth0") \o <<a, b, VipOf(4)>>, Six, Globals) : a, b \in Words },
    { Case(On("eth0") \o <<Stmt("strict_mode", 1), VipOf(6), a, b>>, On("mv") \o <<VipOf(4)>>, Globals)
        : a \in Words, b \in Few },
    { Case(On("eth0") \o <<Stmt("nopreempt", ""), Stmt("timer_expired_backup", 50), a, b, VipOf(4)>>,
           Six, Globals) : a \in Words, b \in Few },
    { Case(NoIf \o <<a, b>>, Six, [Globals EXCEPT !.version = 3]) : a \in Words, b \in Few },
    { Case(NoPeer(n[1], n[2]) \o <<a, b>>, On("eth0") \o <<VipOf(f)>>, [Globals EXCEPT !.version = 3])
        : n \in {<<"v4", 4>>, <<"v6", 6>>}, a \in Words, b \in Peers, f \in {4, 6} },
    { Case(On("eth0") \o <<Stmt("auth_type", "AH"), Stmt("auth_pass", "x"), a, b, VipOf(4)>>,
           On("mv") \o <<b, VipOf(4)>>, Globals) : a \in Few, b \in Words },
    { Case(On("eth0") \o <<Stmt("use_vmac", n), a, VipOf(4)>>, On("eth0") \o <<Stmt("use_vmac", ""), b, VipOf(4)>>,
           [Globals EXCEPT !.exists = e, !.reload = r, !.garp_all = r])
        : n \in {"", "vm"}, a, b \in Few, e \in {"no", "match", "plain"}, r \in BOOLEAN },
    { Case(On("eth0") \o <<a, b, VipOf(4)>>, <<VipOf(6)>> \o On("eth0") \o <<b>>,
           [Globals EXCEPT !.sync = s, !.tracks = t, !.strict = k])
        : a, b \in Few, s \in {"plain", "weight"}, k \in {0, 1},
          t \in {<<"none", 0>>, <<"script", 20>>, <<"if", 20>>} } >>

Config == INSTANCE VrrpConfig WITH cfg <- st, Cases <- ConfCases, Ifs <- IfSet, MaxAddr <- 5

-----------------------------------------------------------------------------
(* Health checkers.                                                        *)

Check(kind, retry, urls, reply) ==
    [kind |-> kind, retry |-> retry, urls |-> urls, reply |-> reply, fast |-> FALSE, suspend |-> TRUE, up |-> TRUE]
Checks == { Check(k, r, 1, "none") : k \in {"tcp", "ping", "dns", "smtp"}, r \in 0 .. 1 }
          \cup { Check("udp", 1, 1, a) : a \in {"none", "any", "data"} }
          \cup { [Check(k, r, u, "none") EXCEPT !.fast = (r = 0)] : k \in {"http", "ssl"}, r \in 0 .. 1, u \in 1 .. 2 }
CheckConfs == {c \in Checks : c.urls = 1 /\ c.retry = 1} \cup { [c EXCEPT !.up = u, !.suspend = FALSE] : c \in Checks, u \in BOOLEAN }

Talk == INSTANCE CheckConversation WITH s <- st, Confs <- CheckConfs, MaxFd <- 2, MaxReloads <- 1, MaxFlips <- 1

-----------------------------------------------------------------------------
(* The event loop: a socket or a script, and room for six threads.         *)

Loop == INSTANCE Scheduler WITH s <- st, Socket <- {"a"}, Pid <- {1}, Slots <- 1 .. 6, MaxLoad <- 2

-----------------------------------------------------------------------------
(* Interfaces: one instance on eth0, alone or with one that uses a VMAC.   *)

LinkSetup(vs, debounce) ==
    [order |-> vs, vmac |-> [v \in {vs[i] : i \in 1 .. Len(vs)} |-> v = "m"], track |-> TRUE,
     debounce |-> debounce, rename |-> TRUE]
LinkSetups == { LinkSetup(vs, d) : vs \in {<<"p">>, <<"p", "m">>, <<"m">>}, d \in BOOLEAN }
Links == INSTANCE VrrpLinks WITH s <- st, Setups <- LinkSetups, MaxKernel <- 5

-----------------------------------------------------------------------------
(* The text of the configuration.                                          *)

PC == INSTANCE ConfParserCases
Parser == INSTANCE ConfParser WITH
    s <- st, Cases <- PC!Texts \o PC!Trees, CondOf <- PC!Conds, RefOf <- PC!Refs, DefOf <- PC!Defs, SequenceOf <- PC!Seqs,
    LstOf <- PC!Lsts, FilesOf <- PC!Files, DirOf <- PC!Dirs, Keywords <- PC!Keys

-----------------------------------------------------------------------------
(* Adverts between two routers.                                            *)

PK == INSTANCE PacketCases
AllPairs == PK!AllPairs
OldPairs == PK!OldPairs
CONSTANT PacketPairs
Packet == INSTANCE VrrpPacket WITH
    s <- st, Pairs <- PacketPairs, NewAddrs <- {PK!Addr(7)}, Priorities <- {254}, Group <- PK!GroupAddr

-----------------------------------------------------------------------------
(* Red-black trees: nine nodes with different keys, and four that are      *)
(* moved between two keys.                                                 *)

Tree == INSTANCE RbTree WITH s <- st, TreeSets <- {
    [nodes |-> 9, keys |-> [x \in 1 .. 9 |-> {x}]], [nodes |-> 4, keys |-> [x \in 1 .. 4 |-> 1 .. 2]] }

-----------------------------------------------------------------------------
(* Tracked processes: two processes that come and go, with one of two      *)
(* names, and the parameters of a command of up to three bytes.            *)

TrackSetups == {
    << << <<"quorum_max", 1>>, <<"process", "a", FALSE>>, <<"delay">>, <<"process", "b", TRUE>> >> >>,
    << << <<"process", "a", FALSE>>, <<"quorum", 2>>, <<"quorum_max", 1>>, <<"terminate_delay">> >>,
       << <<"quorum", 1>> >>,
       << <<"full_command">>, <<"process", "b", FALSE>>, <<"quorum_max", 0>>, <<"quorum", 2>>, <<"fork_delay">> >> >> }
Params == {x \in UNION {[1 .. n -> 0 .. 2] : n \in 0 .. 3} : Len(x) = 0 \/ x[Len(x)] = 0}
Track == INSTANCE ProcessTrack WITH
    s <- st, Pids <- {1, 2}, Names <- {"a", "b"}, Setups <- TrackSetups, MaxQueue <- 2, MaxChanges <- 3,
    ArgCases <- { [match |-> m, params |-> p, args |-> a] : m \in {"exact", "partial", "initial"}, p, a \in Params }

-----------------------------------------------------------------------------
(* What is tracked with a weight, and the messages to the neighbours.      *)

TC == INSTANCE TrackCases
Weights == INSTANCE VrrpTrack WITH
    s <- st, Setups <- TC!Trackers, Numbers <- TC!FileNumbers, MaxQueue <- 2, MaxChanges <- 3
Garp == INSTANCE VrrpGarp WITH s <- st, Setups <- TC!Networks, MaxChanges <- 2

-----------------------------------------------------------------------------
(* Virtual servers.                                                        *)

SC == INSTANCE CheckConfigCases
Servers == INSTANCE CheckConfig WITH s <- st, Cases <- SC!ServerCases

-----------------------------------------------------------------------------
(* Alerts by mail.                                                         *)

Mail == INSTANCE SmtpAlert WITH s <- st, Emails <- {0, 1, 2}, MaxAlerts <- 2, MaxQuits <- 2

-----------------------------------------------------------------------------
(* BFD instances: two blocks with a basic one between them, or one block.  *)

BfdWords == { Stmt("neighbor_ip", a) : a \in {<<4, 1>>, <<4, 2>>, <<6, 1>>, <<0, 0>>} }
    \cup { Stmt("source_ip", a) : a \in {<<4, 3>>, <<6, 3>>, <<0, 0>>} }
    \cup { Stmt("ttl", n) : n \in {0, 1, 255, 256} } \cup { Stmt("max_hops", n) : n \in {-2, -1, 65, 255, 256} }
    \cup { Stmt("multihop", n) : n \in {-1, 0, 1} } \cup { Stmt("multiplier", n) : n \in {0, 1, 255, 256} }
    \cup { Stmt(k, n) : k \in {"min_rx", "min_tx", "idle_tx"}, n \in {0, 1, 999, 1000, 4294967, 4294968} }
    \cup { <<"weight", n, r>> : n \in {-254, 253}, r \in BOOLEAN } \cup { <<"vrrp">>, <<"checker">>, <<"passive">> }
BfdFew == {w \in BfdWords : w[1] \in {"neighbor_ip", "source_ip", "multihop", "vrrp", "checker"}}
Block(name, len, words) == [name |-> name, len |-> len, words |-> words]
BfdOf(a) == Stmt("neighbor_ip", a)
BfdCaseSets == <<
    { <<Block("a", 1, <<v, BfdOf(a), w>>), Block("b", n, <<BfdOf(<<4, 1>>)>>)>>
        : v, w \in BfdWords, a \in {<<4, 1>>, <<6, 1>>}, n \in {31, 32} },
    { <<Block("a", 1, <<u, v, w>>), Block("a", 1, <<BfdOf(<<4, 1>>), x>>)>> : u, v, w, x \in BfdFew },
    { <<Block("a", 1, <<u, BfdOf(<<4, 1>>), v>>), Block("b", 1, <<w, BfdOf(<<4, 1>>), x>>)>> : u, v, w, x \in BfdFew } >>

Bfd == INSTANCE BfdConfig WITH s <- st, BfdCases <- BfdCaseSets

-----------------------------------------------------------------------------
(* The global settings, of lines of a few themes *)

GC == INSTANCE GlobalConfigCases
Global == INSTANCE GlobalConfig WITH s <- st, TextCases <- GC!GlobalTexts, Uptime <- 20, MaxRespawns <- 1

-----------------------------------------------------------------------------
MCInit ==
    /\ part \in Parts
    /\ Init /\ (part # "kernel" => setup = Idle)
    /\ \/ part = "config" /\ Config!Init
       \/ part = "check" /\ Talk!Init
       \/ part = "loop" /\ Loop!Init
       \/ part = "links" /\ Links!Init
       \/ part = "text" /\ Parser!Init
       \/ part = "packet" /\ Packet!Init
       \/ part = "tree" /\ Tree!Init
       \/ part = "process" /\ Track!Init
       \/ part = "track" /\ Weights!Init
       \/ part = "garp" /\ Garp!Init
       \/ part = "servers" /\ Servers!Init
       \/ part = "mail" /\ Mail!Init
       \/ part = "bfd" /\ Bfd!Init
       \/ part = "global" /\ Global!Init
       \/ part = "kernel" /\ st = <<>>

MCNext ==
    \/ part = "kernel" /\ Next /\ UNCHANGED <<part, st>>
    \/ part = "config" /\ Config!Next /\ UNCHANGED <<part, vars>>
    \/ part = "check" /\ Talk!Next /\ UNCHANGED <<part, vars>>
    \/ part = "loop" /\ Loop!Next /\ UNCHANGED <<part, vars>>
    \/ part = "links" /\ Links!Next /\ UNCHANGED <<part, vars>>
    \/ part = "text" /\ Parser!Next /\ UNCHANGED <<part, vars>>
    \/ part = "packet" /\ Packet!Next /\ UNCHANGED <<part, vars>>
    \/ part = "tree" /\ Tree!Next /\ UNCHANGED <<part, vars>>
    \/ part = "process" /\ Track!Next /\ UNCHANGED <<part, vars>>
    \/ part = "track" /\ Weights!Next /\ UNCHANGED <<part, vars>>
    \/ part = "garp" /\ Garp!Next /\ UNCHANGED <<part, vars>>
    \/ part = "servers" /\ Servers!Next /\ UNCHANGED <<part, vars>>
    \/ part = "mail" /\ Mail!Next /\ UNCHANGED <<part, vars>>
    \/ part = "bfd" /\ Bfd!Next /\ UNCHANGED <<part, vars>>
    \/ part = "global" /\ Global!Next /\ UNCHANGED <<part, vars>>

MCSpec == MCInit /\ [][MCNext]_<<vars, part, st>>

\* Whatever is configured, what is accepted is sound (see VrrpConfig, CheckConfig,
\* BfdConfig and GlobalConfig).
AcceptedIsSound ==
    /\ part = "config" => Config!AcceptedIsSound
    /\ part = "servers" => Servers!AcceptedIsSound
    /\ part = "bfd" => Bfd!AcceptedIsSound
    /\ part = "global" => Global!AcceptedIsSound

\* A check always goes on, and holds no other socket (see CheckConversation); an alert is
\* never forgotten, and its message follows what the server has agreed to (see SmtpAlert);
\* the neighbours of a master are told in full and not too fast (see VrrpGarp).
ConversationSound ==
    /\ part = "check" => Talk!ConversationSound
    /\ part = "mail" => Mail!AlertSound
    /\ part = "garp" => Garp!NeighboursTold

\* A check changes its mind only for a reason (see CheckConversation).
VerdictEarned == [][part = "check" => Talk!Earned]_st

\* No thread of the event loop is lost, or left behind (see Scheduler).
SchedulerSound == part = "loop" => Loop!SchedulerSound

\* Instances follow their interfaces (see VrrpLinks).
LinksSettle == part = "links" => Links!LinksSettle

\* A configuration is read as the manual says, by all processes (see ConfParser).
ReadAsWritten == part = "text" => Parser!ReadAsWritten

\* What a router sends is accepted by the routers it was configured for (see VrrpPacket).
AcceptedAsAgreed == part = "packet" => Packet!AcceptedAsAgreed

\* The trees of timers and sessions keep their order (see RbTree).
TreeSound == part = "tree" => Tree!TreeSound

\* What the instances know of a tracked process is what runs (see ProcessTrack); priorities
\* and faults are exactly those of what they track (see VrrpTrack).
TrackedExactly ==
    /\ part = "process" => Track!ProcessesTracked
    /\ part = "track" => Weights!TrackersExact

=============================================================================
