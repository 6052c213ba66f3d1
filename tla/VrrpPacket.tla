----------------------------- MODULE VrrpPacket -----------------------------
(***************************************************************************)
(* The adverts of VRRP as they are built, updated, sent and checked        *)
(* (vrrp/vrrp.c): two routers that are configured for the same virtual     *)
(* router, each with the one buffer from which it sends to all its peers.  *)
(*                                                                         *)
(* An address is a pair of 16 bit words, and checksums are computed as in  *)
(* lib/utils.c; the ICV of an AH header is the record of what it covers.   *)
(* The kernel computes the checksum of IPv6.  A sequence number does not   *)
(* reach the end of its 32 bits.                                           *)
(***************************************************************************)
EXTENDS Integers, Sequences, FiniteSets

CONSTANTS
  Pairs,       \* configurations of the two routers, and a bound on the steps
  NewAddrs,     \* further addresses that the interface of router "A" may get
  Priorities,  \* priorities that router "A" may get
  Group        \* the multicast group

VARIABLE s

Routers == {"A", "B"}
Peer(r) == IF r = "A" THEN "B" ELSE "A"

-----------------------------------------------------------------------------
(* Checksums.                                                              *)

Inverted(x) == 65535 - x
Folded(x) == LET a == (x \div 65536) + (x % 65536) IN (a + (a \div 65536)) % 65536
RECURSIVE Sum(_)
Sum(w) == IF w = <<>> THEN 0 ELSE w[1] + Sum(Tail(w))

in_csum(words, acc) == Inverted(Folded(Sum(words) + acc))
\* Mutant: the old value is not taken out.
csum_incremental_update_adds(csum, old, new) == Inverted(Folded(Inverted(csum) + Sum(new)))
csum_incremental_update(csum, old, new) ==
    IF old = new THEN csum
    ELSE Inverted(Folded(Inverted(csum) + Sum([i \in 1 .. Len(old) |-> Inverted(old[i])]) + Sum(new)))

Pseudo(src, dst, len) == Sum(src) + Sum(dst) + 112 + len

-----------------------------------------------------------------------------
(* Building a packet.  A configuration is a record                         *)
(*   [fam, ver, auth, key, adv, uni, peers, compat, asv2, vips, ttl,       *)
(*    from_config, check_src, min_ttl, max_ttl, owner]                     *)

AuthLen == 8
AhLen == 24
IpLen == 20
AddrLen(fam) == IF fam = 4 THEN 4 ELSE 16

vrrp_pkt_len(c) == 8 + (IF c.fam = 4 /\ c.ver = 2 THEN AuthLen ELSE 0) + Len(c.vips) * AddrLen(c.fam)
vrrp_adv_len(c) ==
    vrrp_pkt_len(c) + (IF c.fam = 4 THEN IpLen + (IF c.auth = "ah" THEN AhLen ELSE 0) ELSE 0)
expected_vrrp_pkt_len(hd, fam) ==
    8 + (IF fam = 4 /\ hd.ver = 2 THEN AuthLen ELSE 0) + hd.naddr * AddrLen(fam)

\* Old checksums are over the multicast group, also for unicast.
Old(compat) == compat \in {"config", "auto"}

PrioWord(hd) == <<hd.prio * 256 + hd.naddr>>
AuthNum == [none |-> 0, pass |-> 1, ah |-> 2]
RECURSIVE Words(_)
Words(addrs) == IF addrs = <<>> THEN <<>> ELSE addrs[1] \o Words(Tail(addrs))
HdWords(hd) ==
    <<(hd.ver * 16 + 1) * 256 + hd.vrid>> \o PrioWord(hd)
      \o <<IF hd.ver = 2 THEN AuthNum[hd.auth] * 256 + hd.adv ELSE hd.adv, hd.chksum>>
      \o Words(hd.vips) \o (IF hd.ver = 2 THEN hd.pass ELSE <<>>)

vrrp_build_ip4(c, saddr) ==
    [tot_len |-> IpLen + vrrp_pkt_len(c), id |-> 0, ttl |-> c.ttl, ah |-> c.auth = "ah", saddr |-> saddr,
     daddr |-> IF c.uni THEN c.peers[1] ELSE Group]

Header(c, prio) ==
    [ver |-> c.ver, vrid |-> 51, prio |-> prio, naddr |-> Len(c.vips), auth |-> c.auth, adv |-> c.adv, vips |-> c.vips,
     pass |-> IF c.auth = "pass" THEN c.key ELSE <<0, 0, 0, 0>>, chksum |-> 0]
vrrp_build_vrrp_v2(c, prio) ==
    LET hd == Header(c, prio) IN [hd EXCEPT !.chksum = IF c.fam = 4 THEN in_csum(HdWords(hd), 0) ELSE 0]
vrrp_build_vrrp_v3(c, prio, compat, ip) ==
    LET hd == Header(c, prio)
        acc == IF c.asv2 THEN 0 ELSE Pseudo(ip.saddr, IF Old(compat) THEN Group ELSE ip.daddr, vrrp_pkt_len(c))
    IN [hd EXCEPT !.chksum = IF c.fam = 4 THEN in_csum(HdWords(hd), acc) ELSE 0]

\* The fields that the ICV covers; those that change on the way are zeroed.
Covered(c, ip, ah, hd) ==
    [ip |-> [ip EXCEPT !.ttl = IF c.uni THEN 0 ELSE @], spi |-> ah.spi, seq |-> ah.seq, hd |-> hd, key |-> c.key]
NoAh == [spi |-> <<>>, seq |-> 0, icv |-> <<>>]
vrrp_build_ipsecah(c, ip, hd) ==
    LET longer == [ip EXCEPT !.tot_len = @ + AhLen]
        ah == [NoAh EXCEPT !.spi = ip.saddr]
    IN [ip |-> longer, ah |-> [ah EXCEPT !.icv = <<Covered(c, longer, ah, hd)>>]]

\* vrrp_build_pkt(): a router as it is after its configuration has been read.
vrrp_build_pkt(c, saddr, prio, seq) ==
    LET ip == vrrp_build_ip4(c, saddr)
        hd == IF c.ver = 3 THEN vrrp_build_vrrp_v3(c, prio, c.compat, ip) ELSE vrrp_build_vrrp_v2(c, prio)
        x == vrrp_build_ipsecah(c, ip, hd)
    IN [saddr |-> saddr, prio |-> prio, compat |-> c.compat, seq |-> seq, ip_id |-> 0,
        ip |-> IF c.auth = "ah" THEN x.ip ELSE ip, ah |-> IF c.auth = "ah" THEN x.ah ELSE NoAh, hd |-> hd]

-----------------------------------------------------------------------------
(* Sending.                                                                *)

\* The priority is changed with an update of the checksum.
UpdatePrio(c, r, prio) ==
    LET new == [r.hd EXCEPT !.prio = prio]
    IN [r EXCEPT !.hd = IF c.fam = 4 THEN [new EXCEPT !.chksum = csum_incremental_update(@, PrioWord(r.hd), PrioWord(new))]
                        ELSE new]
\* The destination: <<>> is the first call for an advert, which counts its id.
UpdateDest(c, r, addr) ==
    IF addr = <<>> THEN LET id == IF r.ip_id = 65535 THEN 1 ELSE r.ip_id + 1 IN [r EXCEPT !.ip_id = id, !.ip.id = id]
    ELSE [r EXCEPT !.ip.daddr = addr,
                   !.hd.chksum = IF c.ver = 2 \/ Old(r.compat) THEN @
                                 ELSE csum_incremental_update(@, r.ip.daddr, addr)]
\* The source, if the interface has got another address.
UpdateSource(c, r) ==
    IF c.from_config \/ r.ip.saddr = r.saddr THEN r
    ELSE [r EXCEPT !.ip.saddr = r.saddr,
                   !.ah.spi = IF c.ver = 2 THEN @ ELSE r.saddr,
                   !.hd.chksum = IF c.ver = 2 THEN @ ELSE csum_incremental_update(@, r.ip.saddr, r.saddr)]
\* The AH header: only the last call for an advert computes the ICV.
UpdateAh(c, r, addr) ==
    LET seq == IF addr = <<>> THEN r.seq + 1 ELSE r.seq
        ah == [r.ah EXCEPT !.seq = seq]
        final == ~c.uni \/ Len(c.peers) = 1 \/ addr # <<>>
    IN [r EXCEPT !.seq = seq, !.ah = IF final THEN [ah EXCEPT !.icv = <<Covered(c, r.ip, ah, r.hd)>>] ELSE ah]

vrrp_update_pkt(c, r, prio, addr) ==
    LET p == UpdatePrio(c, r, prio)
        q == UpdateSource(c, UpdateDest(c, p, addr))
    IN IF c.fam # 4 THEN p ELSE IF c.auth = "ah" THEN UpdateAh(c, q, addr) ELSE q

\* vrrp_send_pkt(): the destination is that of the socket call; the hop limit of IPv6
\* is set for unicast.
vrrp_send_pkt(c, r, dst) ==
    [ip |-> IF c.fam = 4 THEN r.ip ELSE [r.ip EXCEPT !.daddr = dst, !.saddr = r.saddr, !.ttl = IF c.uni THEN c.ttl ELSE 255],
     ah |-> r.ah, hd |-> r.hd, len |-> vrrp_adv_len(c)]

RECURSIVE ToPeers(_, _, _, _)
ToPeers(c, r, prio, peers) ==
    IF peers = <<>> THEN [r |-> r, sent |-> <<>>]
    ELSE LET u == IF c.fam = 4 THEN vrrp_update_pkt(c, r, prio, peers[1]) ELSE r
             rest == ToPeers(c, u, prio, Tail(peers))
         IN [r |-> rest.r, sent |-> <<vrrp_send_pkt(c, u, peers[1])>> \o rest.sent]
vrrp_send_adv(c, r, prio) ==
    LET u == vrrp_update_pkt(c, r, prio, <<>>)
    IN IF c.uni THEN ToPeers(c, u, prio, c.peers) ELSE [r |-> u, sent |-> <<vrrp_send_pkt(c, u, Group)>>]

-----------------------------------------------------------------------------
(* Checking.  p is a packet with the length and the TTL with which it has  *)
(* arrived.                                                                *)

\* Padding of a short Ethernet frame, with or without VLAN tags.
Padded(len, real) == len < real /\ (real - len) % 4 = 2

vrrp_in_chk_ipsecah(c, r, p) ==
    \/ p.ah.icv # <<Covered(c, p.ip, p.ah, p.hd)>>
    \/ p.ah.spi # p.ip.saddr
    \/ p.ah.seq <= r.seq

Checksum(c, p, dst) ==
    LET len == expected_vrrp_pkt_len(p.hd, 4)
    IN in_csum(HdWords(p.hd), IF c.ver = 2 \/ c.asv2 THEN 0 ELSE Pseudo(p.ip.saddr, dst, len))
\* A checksum over the multicast group, where that is still to be found out.
FoundOld(c, r, p) ==
    /\ c.ver = 3 /\ ~c.asv2 /\ c.uni /\ r.compat = "none"
    /\ Checksum(c, p, p.ip.daddr) # 0 /\ p.ip.daddr # Group /\ Checksum(c, p, Group) = 0
BadChecksum(c, r, p) ==
    /\ Checksum(c, p, IF c.ver = 3 /\ Old(r.compat) THEN Group ELSE p.ip.daddr) # 0
    /\ ~c.asv2 /\ ~FoundOld(c, r, p)

\* vrrp_csum_mcast() is called before the mode is changed, and does nothing.
vrrp_csum_mcast(r) ==
    IF r.compat = "auto" /\ r.ip.daddr # Group
    THEN [r EXCEPT !.hd.chksum = csum_incremental_update(@, r.ip.daddr, Group)] ELSE r

Multicast(addr) == addr = Group
PeerOf(c, addr) == \E i \in 1 .. Len(c.peers) : c.peers[i] = addr
check_ttl_hl(c, p) == p.ip.ttl \in c.min_ttl .. c.max_ttl

\* What vrrp_check_packet() looks at, in order: whether it is wrong, the result and the
\* counter.
Checks(c, r, p) ==
    LET expected == (IF c.fam = 4 THEN IpLen + (IF c.auth = "ah" THEN AhLen ELSE 0) ELSE 0) + expected_vrrp_pkt_len(p.hd, c.fam)
        v2 == c.ver = 2
        v4 == c.fam = 4
        src == c.uni /\ c.check_src
        known == PeerOf(c, p.ip.saddr)
    IN << <<v4 /\ p.ip.ah # (c.auth = "ah"), "KO", "authtype_mismatch">>,
          <<p.len # expected /\ ~(expected < 46 /\ Padded(expected, p.len)), "KO", "packet_len_err">>,
          <<~c.uni /\ p.ip.ttl # 255, "KO", "ip_ttl_err">>,
          <<p.hd.ver # c.ver, "KO", "vers_err">>,
          <<v2 /\ p.hd.auth # c.auth, "KO", "authtype_mismatch">>,
          <<v2 /\ c.auth = "pass" /\ p.hd.pass # c.key, "KO", "auth_failure">>,
          <<v2 /\ c.auth = "ah" /\ vrrp_in_chk_ipsecah(c, r, p), "KO", "auth_failure">>,
          <<v2 /\ p.hd.adv # c.adv, "DROP", "">>,
          <<v4 /\ p.ip.tot_len # p.len /\ ~(p.len <= 46 /\ Padded(p.ip.tot_len, p.len)), "KO", "packet_len_err">>,
          <<v4 /\ BadChecksum(c, r, p), "KO", "chk_err">>,
          <<Multicast(p.ip.daddr) = c.uni, "KO", "addr_list_err">>,
          <<c.owner /\ r.prio = 255, "DROP", "">>,
          <<src /\ known /\ ~check_ttl_hl(c, p), "DROP", "ip_ttl_err">>,
          <<src /\ ~known, "KO", "">> >>
AhChecked == 8      \* a packet that gets this far has passed the check of its AH header
CsumChecked == 11   \* and this far the check of its checksum

vrrp_check_packet(c, r, p) ==
    LET checks == Checks(c, r, p)
        wrong == {i \in 1 .. Len(checks) : checks[i][1]}
        first == IF wrong = {} THEN Len(checks) + 1 ELSE CHOOSE i \in wrong : \A j \in wrong : i <= j
        q == IF c.auth = "ah" /\ first >= AhChecked THEN [r EXCEPT !.seq = p.ah.seq] ELSE r
    IN [res |-> IF wrong = {} THEN "OK" ELSE checks[first][2],
        stat |-> IF wrong = {} THEN (IF p.hd.vips # c.vips THEN "addr_list_err" ELSE "") ELSE checks[first][3],
        r |-> IF first >= CsumChecked /\ c.fam = 4 /\ FoundOld(c, r, p)
              THEN [vrrp_csum_mcast(q) EXCEPT !.compat = "auto"] ELSE q]

\* vrrp_state_master_rx(): a master that hears a lower priority goes on from its number.
Resync(c, r, p, res) ==
    IF c.auth = "ah" /\ res = "OK" /\ p.hd.prio > 0 /\ p.hd.prio < r.prio THEN [r EXCEPT !.seq = p.ah.seq + 1] ELSE r

-----------------------------------------------------------------------------
Nothing == [to |-> "", res |-> "", stat |-> "", before |-> <<>>, p |-> <<>>]
Start(c, r) == vrrp_build_pkt(c[r], c[r].addr, c[r].prio, 0)
Init == \E c \in Pairs : s = [conf |-> c, rt |-> [r \in Routers |-> Start(c, r)], got |-> Nothing, steps |-> 0]

Step(f) == s.steps < s.conf.steps /\ s' = [f EXCEPT !.steps = @ + 1]

\* r sends an advert; the packet for the other router may go over a hop or be padded, or
\* is lost.
For(sent, addr) == {i \in 1 .. Len(sent) : sent[i].ip.daddr \in {addr, Group}}
Advertise(r, stop, master, way) ==
    LET b == Peer(r)
        x == vrrp_send_adv(s.conf[r], s.rt[r], IF stop THEN 0 ELSE s.rt[r].prio)
        own == For(x.sent, s.rt[b].saddr)
        p == x.sent[CHOOSE i \in own : TRUE]
        arrived == [p EXCEPT !.ip.ttl = IF way = "hop" THEN @ - 1 ELSE @, !.len = IF way = "padded" THEN 46 ELSE @]
        v == vrrp_check_packet(s.conf[b], s.rt[b], arrived)
        res == IF master THEN Resync(s.conf[b], v.r, p, v.res) ELSE v.r
    IN /\ own # {}
       /\ way = "padded" => s.conf[r].fam = 4 /\ p.len < 46
       /\ master => s.conf[b].auth = "ah"
       /\ Step([s EXCEPT !.rt[r] = x.r, !.rt[b] = res,
                         !.got = [to |-> b, res |-> v.res, stat |-> v.stat, before |-> <<s.rt[b]>>, p |-> <<arrived>>]])
Lose(r) == Step([s EXCEPT !.rt[r] = vrrp_send_adv(s.conf[r], s.rt[r], s.rt[r].prio).r, !.got = Nothing])

SetPriority(n) == n # s.rt["A"].prio /\ Step([s EXCEPT !.rt["A"].prio = n, !.got = Nothing])
SetSource(a) ==
    /\ a # s.rt["A"].saddr /\ ~s.conf["A"].from_config
    /\ Step([s EXCEPT !.rt["A"].saddr = a, !.got = Nothing])
\* A reload keeps the sequence number, a restart does not.
Reload(r) == Step([s EXCEPT !.rt[r] = vrrp_build_pkt(s.conf[r], s.rt[r].saddr, s.rt[r].prio, s.rt[r].seq), !.got = Nothing])
Restart(r) == Step([s EXCEPT !.rt[r] = Start(s.conf, r), !.got = Nothing])

Next ==
    \/ \E r \in Routers, stop \in BOOLEAN, master \in BOOLEAN, way \in {"direct", "hop", "padded"} :
         Advertise(r, stop, master, way)
    \/ \E r \in Routers : Lose(r)
    \/ \E n \in Priorities : SetPriority(n)
    \/ \E a \in NewAddrs : SetSource(a)
    \/ \E r \in Routers : Reload(r)
    \/ \E r \in Routers : Restart(r)

-----------------------------------------------------------------------------
\* What the two configurations, and the way the packet took, promise of it.
SameChecksum(a, b, from, to) ==
    a.fam = 4 /\ a.ver = 3 /\ ~b.asv2 => ~a.asv2 /\ (a.uni /\ Old(from) # Old(to) => Old(from) /\ to = "none")
Agreed(a, b, from, before, p) ==
    /\ a.ver = b.ver /\ a.auth = b.auth /\ a.uni = b.uni
    /\ a.auth # "none" => a.key = b.key
    /\ a.ver = 2 => a.adv = b.adv
    /\ a.auth = "ah" => p.ah.seq > before.seq
    /\ SameChecksum(a, b, from, before.compat)
    /\ ~a.uni => p.ip.ttl = 255
    /\ b.uni /\ b.check_src => PeerOf(b, s.rt[Peer(s.got.to)].saddr) /\ p.ip.ttl \in b.min_ttl .. b.max_ttl
    /\ ~(b.owner /\ before.prio = 255)

\* An advert is accepted exactly if the two routers are configured alike in what an
\* advert carries, whatever has been done to the buffer it was sent from: its checksum,
\* length, password or ICV are those of a packet that has been built anew, although
\* priority, source and destination are changed in place, once for each peer.
AcceptedAsAgreed ==
    s.got.to # "" =>
      LET a == Peer(s.got.to)
      IN (s.got.res = "OK") = Agreed(s.conf[a], s.conf[s.got.to], s.rt[a].compat, s.got.before[1], s.got.p[1])

=============================================================================
