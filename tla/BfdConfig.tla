----------------------------- MODULE BfdConfig -----------------------------
(***************************************************************************)
(* The bfd_instance blocks of a configuration (bfd_parser.c, bfd_data.c).  *)
(* Three processes read them, each on its own and each with an interest of *)
(* its own: the BFD process in the session, the VRRP process in its weight *)
(* and the checker in its name.  No process tells another which blocks it  *)
(* has refused, and yet the BFD process later reports to the others by     *)
(* name.                                                                   *)
(*                                                                         *)
(* A block is a name and a sequence of statements <<keyword, argument>>.   *)
(* An address is <<family, number>>, with family 0 if it is malformed.     *)
(* Times are in ms.                                                        *)
(***************************************************************************)
EXTENDS Integers, Sequences, SequencesExt

CONSTANT BfdCases       \* a sequence of sets of texts, each a sequence of blocks

VARIABLE s

Init == \E i \in 1 .. Len(BfdCases) : s \in [text : BfdCases[i], next : {"bfd"}, bfd : {<<>>}, vrrp : {<<>>}, checker : {<<>>}]

BFD_INAME_MAX == 32
MAX_MS == 4294967       \* UINT32_MAX / 1000
TTL_MAX == 255
NoAddr == <<0, 0>>
In(v, lo, hi) == lo <= v /\ v <= hi

Names(l) == {l[i].name : i \in 1 .. Len(l)}

-----------------------------------------------------------------------------
(* The BFD process *)

\* alloc_bfd(): a name that is new and not too long, and the defaults.
alloc_bfd(l, name, len) ==
    IF len >= BFD_INAME_MAX \/ name \in Names(l) THEN <<>>
    ELSE <<[name |-> name, nbr |-> NoAddr, port |-> 0, src |-> NoAddr, rx |-> 10, tx |-> 10, idle |-> 1000,
            mult |-> 5, passive |-> FALSE, ttl |-> 0, hops |-> 0, multihop |-> 0, events |-> {},
            vrrp |-> FALSE, checker |-> FALSE]>>

ControlPort(multihop) == IF multihop = 1 THEN 4784 ELSE 3784

\* The neighbour may have been given already.
bfd_multihop_handler(b, v) ==
    IF v = -1 THEN b
    ELSE [b EXCEPT !.multihop = v, !.port = IF b.nbr = NoAddr THEN @ ELSE ControlPort(v)]

SetIf(b, f, v, lo, hi) == IF In(v, lo, hi) THEN [b EXCEPT ![f] = v] ELSE b

\* A malformed neighbour address ends the block.
bfd_nbrip_handler(b, a) == IF a[1] = 0 THEN <<>> ELSE <<[b EXCEPT !.nbr = a, !.port = ControlPort(b.multihop)]>>

\* Statements of a block, in the BFD process.
BfdWord(b, w) ==
    CASE w[1] = "neighbor_ip" -> bfd_nbrip_handler(b, w[2])
      [] w[1] = "source_ip" -> <<IF w[2][1] = 0 THEN b ELSE [b EXCEPT !.src = w[2]]>>
      [] w[1] = "min_rx" -> <<SetIf(b, "rx", w[2], 1, MAX_MS)>>
      [] w[1] = "min_tx" -> <<SetIf(b, "tx", w[2], 1, MAX_MS)>>
      [] w[1] = "idle_tx" -> <<SetIf(b, "idle", w[2], 1000, MAX_MS)>>
      [] w[1] = "multiplier" -> <<SetIf(b, "mult", w[2], 1, 255)>>
      [] w[1] = "ttl" -> <<SetIf(b, "ttl", w[2], 1, TTL_MAX)>>
      [] w[1] = "max_hops" -> <<SetIf(b, "hops", w[2], -1, TTL_MAX)>>
      [] w[1] = "multihop" -> <<bfd_multihop_handler(b, w[2])>>
      [] w[1] = "passive" -> <<[b EXCEPT !.passive = TRUE]>>
      [] w[1] \in {"vrrp", "checker"} -> <<[b EXCEPT !.events = @ \cup {w[1]}]>>
      [] OTHER -> <<b>>

\* Mutant: only the very same source address clashes.
find_bfd_by_addr_exact(l, nbr, src, multihop) ==
    \E i \in 1 .. Len(l) : l[i].nbr = nbr /\ l[i].multihop = multihop /\ l[i].src = src

\* An instance without a source address is for all the packets of its neighbour.
find_bfd_by_addr(l, nbr, src, multihop) ==
    \E i \in 1 .. Len(l) : /\ l[i].nbr = nbr /\ l[i].multihop = multihop
                           /\ l[i].src = NoAddr \/ src = NoAddr \/ l[i].src = src

TheTtl(b) == IF b.ttl # 0 THEN b.ttl ELSE IF b.nbr[1] = 4 THEN 255 ELSE 64

bfd_end_handler(l, b) ==
    IF \/ b.nbr = NoAddr
       \/ b.src # NoAddr /\ b.src[1] # b.nbr[1]
       \/ find_bfd_by_addr(l, b.nbr, b.src, b.multihop)
    THEN l
    ELSE Append(l, [b EXCEPT !.ttl = TheTtl(b), !.hops = IF @ > TheTtl(b) THEN TheTtl(b) ELSE @,
                             !.vrrp = b.events = {} \/ "vrrp" \in b.events,
                             !.checker = b.events = {} \/ "checker" \in b.events])

\* The statements are handled as long as there is an instance to apply them to.
Statements(word(_, _), b, ws) == FoldLeft(LAMBDA x, w : IF x = <<>> THEN x ELSE word(x[1], w), b, ws)

bfd_handler(l, block) ==
    LET b == Statements(BfdWord, alloc_bfd(l, block.name, block.len), block.words)
    IN IF b = <<>> THEN l ELSE bfd_end_handler(l, b[1])

-----------------------------------------------------------------------------
(* The VRRP process and the checker *)

\* A weight out of range is ignored, its "reverse" is not.
bfd_vrrp_weight_handler(b, v, reverse) ==
    [SetIf(b, "weight", v, -253, 253) EXCEPT !.reverse = @ \/ reverse]

OtherWord(b, w) ==
    CASE w[1] = "weight" -> <<bfd_vrrp_weight_handler(b, w[2], w[3])>>
      [] w[1] \in {"vrrp", "checker"} -> <<[b EXCEPT !.events = @ \cup {w[1]}]>>
      [] OTHER -> <<b>>

\* alloc_vrrp_tracked_bfd() and bfd_checker_handler().
alloc_tracked(l, block, long) ==
    IF (block.len >= BFD_INAME_MAX /\ ~long) \/ block.name \in Names(l) THEN <<>>
    ELSE <<[name |-> block.name, weight |-> 0, reverse |-> FALSE, events |-> {}]>>

end_handler(l, b, proc) == IF b.events # {} /\ proc \notin b.events THEN l ELSE Append(l, b)

bfd_vrrp_handler(l, block) ==
    LET b == Statements(OtherWord, alloc_tracked(l, block, FALSE), block.words)
    IN IF b = <<>> THEN l ELSE end_handler(l, b[1], "vrrp")

\* The checker has no use for the weight, and any length of name will do.
bfd_checker_handler(l, block) ==
    LET b == Statements(OtherWord, alloc_tracked(l, block, TRUE), block.words)
    IN IF b = <<>> THEN l ELSE end_handler(l, b[1], "checker")

-----------------------------------------------------------------------------
ReadBfd == s.next = "bfd" /\ s' = [s EXCEPT !.next = "vrrp", !.bfd = FoldLeft(bfd_handler, <<>>, s.text)]
ReadVrrp == s.next = "vrrp" /\ s' = [s EXCEPT !.next = "checker", !.vrrp = FoldLeft(bfd_vrrp_handler, <<>>, s.text)]
ReadChecker == s.next = "checker" /\ s' = [s EXCEPT !.next = "", !.checker = FoldLeft(bfd_checker_handler, <<>>, s.text)]

Next == ReadBfd \/ ReadVrrp \/ ReadChecker

-----------------------------------------------------------------------------
\* However the blocks are written, a packet of a neighbour belongs to one session only,
\* every session can be run with what it has been given, and each process that the BFD
\* process will report to knows the session by its name.
AcceptedIsSound ==
    /\ \A i, j \in 1 .. Len(s.bfd) : i # j =>
         /\ s.bfd[i].name # s.bfd[j].name
         /\ s.bfd[i].nbr = s.bfd[j].nbr /\ s.bfd[i].port = s.bfd[j].port =>
              s.bfd[i].src # s.bfd[j].src /\ NoAddr \notin {s.bfd[i].src, s.bfd[j].src}
    /\ \A i \in 1 .. Len(s.bfd) : LET b == s.bfd[i] IN
         /\ b.nbr[1] \in {4, 6} /\ (b.src = NoAddr \/ b.src[1] = b.nbr[1])
         /\ b.port = ControlPort(b.multihop)
         /\ b.ttl \in 1 .. 255 /\ b.hops <= b.ttl
         /\ b.rx >= 1 /\ b.tx >= 1 /\ b.idle >= 1000 /\ b.mult \in 1 .. 255
         /\ s.next = "" => /\ b.vrrp => b.name \in Names(s.vrrp)
                           /\ b.checker => b.name \in Names(s.checker)
                           /\ b.vrrp \/ b.checker
=============================================================================
