---------------------------- MODULE PacketCases ----------------------------
(* Configurations of two routers for VrrpPacket.                           *)
EXTENDS Integers, Sequences

Addr(i) == <<2560, i>>
VipAddr(i) == <<49320, i>>
GroupAddr == <<57344, 18>>
\* Router i of two; each has the other and a third router as unicast peers.
Conf(i) ==
    [fam |-> 4, ver |-> 3, auth |-> "none", key |-> <<1, 2, 3, 4>>, adv |-> 1, uni |-> FALSE,
     peers |-> IF i = 1 THEN <<Addr(3), Addr(2)>> ELSE <<Addr(1), Addr(3)>>, compat |-> "none", asv2 |-> FALSE,
     vips |-> <<VipAddr(1)>>, ttl |-> 255, from_config |-> FALSE, check_src |-> FALSE, min_ttl |-> 0, max_ttl |-> 255,
     owner |-> FALSE, addr |-> Addr(i), prio |-> 100 + i]
With(c, x) == [f \in DOMAIN c |-> IF f \in DOMAIN x THEN x[f] ELSE c[f]]

OtherKey == <<9, 2, 3, 4>>
\* The kinds that are followed through more steps.
Long ==
    { [asv2 |-> FALSE], [uni |-> TRUE, compat |-> "never"], [uni |-> TRUE, compat |-> "config"],
      [ver |-> 2, uni |-> TRUE, auth |-> "pass"], [ver |-> 2, auth |-> "ah", uni |-> TRUE, from_config |-> TRUE] }
Short ==
    { [asv2 |-> TRUE], [uni |-> TRUE, asv2 |-> TRUE], [uni |-> TRUE, check_src |-> TRUE, min_ttl |-> 255],
      [ver |-> 2], [ver |-> 2, adv |-> 2], [ver |-> 2, auth |-> "pass"], [ver |-> 2, auth |-> "pass", key |-> OtherKey],
      [ver |-> 2, auth |-> "ah", from_config |-> TRUE], [ver |-> 2, auth |-> "ah", key |-> OtherKey, from_config |-> TRUE] }
Six == { [fam |-> 6], [fam |-> 6, uni |-> TRUE], [fam |-> 6, uni |-> TRUE, check_src |-> TRUE], [fam |-> 6, owner |-> TRUE, prio |-> 255] }

Pair(a, b, n) == [A |-> With(Conf(1), a), B |-> With(Conf(2), b), steps |-> n]
\* One router has to find out that the other one computes checksums the old way.
Finds(x, y) == "compat" \in DOMAIN x /\ x.compat = "config" /\ "compat" \notin DOMAIN y /\ "uni" \in DOMAIN y
AllPairs ==
    LET kinds == ((Long \cup Short) \X (Long \cup Short)) \cup (Six \X Six)
    IN { Pair(k[1], k[2], IF k[1] # k[2] THEN 1 ELSE IF k[1] \in Long THEN 3 ELSE 2)
           : k \in {k \in kinds : ~Finds(k[1], k[2]) /\ ~Finds(k[2], k[1])} }
OldPairs == { Pair([uni |-> TRUE, compat |-> "config"], [uni |-> TRUE], 3) }
=============================================================================
