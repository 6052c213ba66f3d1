----------------------------- MODULE TrackCases -----------------------------
(***************************************************************************)
(* The configurations VrrpTrack and VrrpGarp start with, for TLC.          *)
(***************************************************************************)
EXTENDS Integers, Sequences

-----------------------------------------------------------------------------
(* Trackers: a sequence of configurations, each after the first one read   *)
(* by a reload.                                                            *)

Obj(kind, weights) ==
  [kind |-> kind, weights |-> weights, path |-> "", init |-> "no", value |-> 0, rise |-> 1, fall |-> 1,
   cmd |-> "c", ok |-> TRUE]
Plain(o) == [o |-> o, opt |-> "", val |-> <<>>, rev |-> ""]
Weight(o, n, r) == [o |-> o, opt |-> "weight", val |-> <<n>>, rev |-> r]
Inst(base, sync, track) == [base |-> base, sync |-> sync, track |-> track]
Conf(defs, insts, group) == [defs |-> defs, insts |-> insts, group |-> group]
NoGroup == [weight |-> FALSE, track |-> <<>>]

\* Two files, one with an initial value, followed with several weights.
Files ==
  Conf([f |-> Obj("file", << <<2, "">> >>), g |-> [Obj("file", <<>>) EXCEPT !.init = "init", !.value = 3]],
       <<Inst(100, FALSE, <<Plain("f"), Weight("g", -1, "reverse")>>),
         Inst(250, FALSE, <<Weight("f", 0, "reverse"), Weight("f", 3, "")>>)>>, NoGroup)

\* An interface, a process and a BFD session, of the instances and of their group;
\* the second instance owns the address.
Switches(w, r) ==
  Conf([e |-> Obj("if", <<>>), p |-> Obj("process", << <<300, "">>, <<20, "reverse">> >>), b |-> Obj("bfd", <<>>)],
       <<Inst(100, TRUE, <<Weight("e", w, r), Weight("p", -w, "noreverse")>>),
         Inst(255, TRUE, <<Weight("e", w, r), Weight("p", 9, "")>>),
         Inst(250, FALSE, <<Weight("e", 254, "other"), Plain("p"), Weight("b", w, r)>>)>>,
       [weight |-> w > 0, track |-> <<Weight("e", 5, ""), Plain("b"), Weight("p", w, "")>>])

\* Scripts that need several results in a row, one of them not safe to run.
Scripts(w, r, rise, fall) ==
  Conf([a |-> [Obj("script", << <<w, "">> >>) EXCEPT !.rise = rise, !.fall = fall, !.init = "fail"],
        z |-> [Obj("script", <<>>) EXCEPT !.ok = FALSE]],
       <<Inst(100, FALSE, <<Weight("a", w, r), Plain("z")>>), Inst(200, TRUE, <<Weight("a", -254, "")>>),
         Inst(20, TRUE, <<>>)>>, [weight |-> FALSE, track |-> <<Plain("a")>>])

Trackers ==
  { <<Files, Files>> } \cup { <<Switches(w, r)>> : w \in {0, 254, -30}, r \in {"", "reverse"} }
  \cup { <<Scripts(0, "reverse", 2, 1), Scripts(0, "", 1, 2)>>, <<Scripts(10, "", 1, 2), Scripts(-20, "", 2, 2)>>,
         <<Scripts(0, "", 2, 2), Scripts(20, "", 3, 1)>> }

\* What a tracked file holds: with a weight of 2 or 3, in and out of the range
\* of priorities, and out of that of an int.
FileNumbers == {0, 130, -1, 5000}

-----------------------------------------------------------------------------
(* Neighbours: two interfaces and a VMAC on the first; two IPv4 addresses  *)
(* and an IPv6 one.                                                        *)

UNSET == -1
BAD == -2
Pair(garp, gna) == [f \in {4, 6} |-> IF f = 4 THEN garp ELSE gna]
Global(garp, gna) ==
  [rep |-> 2, delay |-> 2, refresh |-> 0, refresh_rep |-> 1, lower_rep |-> UNSET, lower_delay |-> UNSET,
   vmac_intvl |-> 0, all_if |-> FALSE, interval |-> Pair(garp, gna)]
Router(ifp, vip, evip) ==
  [ifp |-> ifp, vip |-> vip, evip |-> evip, family |-> 4, strict |-> FALSE, xmitbase |-> FALSE, all_if |-> FALSE,
   rep |-> UNSET, delay |-> UNSET, refresh |-> UNSET, refresh_rep |-> UNSET, lower_rep |-> UNSET,
   lower_delay |-> UNSET, vmac_intvl |-> UNSET]
GroupOf(garp, gna, ifs) == [interval |-> Pair(garp, gna), ifs |-> ifs]
Net(global, groups, inst, grouped) ==
  [global |-> global, groups |-> groups, inst |-> inst, grouped |-> grouped,
   order |-> IF "w" \in DOMAIN inst THEN <<"v", "w">> ELSE <<"v">>,
   base |-> [i \in {"e0", "e1", "vm"} |-> IF i = "vm" THEN "e0" ELSE i], ours |-> {"vm"}, noarp |-> {},
   family |-> [a |-> 4, b |-> 4, c |-> 6], ifp |-> [a |-> "e0", b |-> "e1", c |-> "e0"],
   owner |-> [a \in {"a", "b", "c"} |-> IF a = "b" /\ "w" \in DOMAIN inst THEN "w" ELSE "v"]]

\* An instance that refreshes, limited by the global intervals, with and without ARP.
Single == Net(Global(2, 1), <<>>, [v |-> [Router("e0", <<"a">>, <<"c">>) EXCEPT !.refresh = 2]], FALSE)
NoArp == [Single EXCEPT !.noarp = {"e0"}]
\* Two instances of a sync group on interfaces that share a delay; the two other
\* blocks ask for interfaces they cannot have.
Shared ==
  Net(Global(0, 0), <<GroupOf(2, BAD, <<"e0", "e1">>), GroupOf(1, 1, <<"e1", "vm">>), GroupOf(BAD, UNSET, <<"e0">>)>>,
      [v |-> [Router("e0", <<"a">>, <<>>) EXCEPT !.rep = 0, !.lower_rep = 3, !.delay = BAD],
       w |-> [Router("e1", <<"b">>, <<>>) EXCEPT !.delay = 0]], TRUE)
\* Addresses on a VMAC that sends no adverts; IPv6 is not limited.
Extra ==
  [Net(Global(1, 0), <<>>, [v |-> [Router("e1", <<"a", "b">>, <<"c">>) EXCEPT !.vmac_intvl = 1, !.strict = TRUE]], FALSE)
     EXCEPT !.ifp = [a |-> "vm", b |-> "e1", c |-> "vm"]]

Networks == {Single, NoArp, Shared, Extra}

=============================================================================
