---------------------------- MODULE MCBfdSession -----------------------------
(* Instances of BfdSession for TLC. *)
EXTENDS BfdSession

MCNodes == {1, 2}
Both(x) == [n \in MCNodes |-> x]
Fast == [tx |-> 2, rx |-> 2]
Slow == [tx |-> 3, rx |-> 3]

(* Two active neighbours; nothing goes wrong. *)
Base ==
    [confs |-> Both({Fast}), first |-> Both(Fast), idle_tx |-> Both(4), multiplier |-> Both(3),
     passive |-> {}, shared |-> {}, foreign |-> {},
     delay |-> 1, dead |-> 2, lost |-> 0, crashes |-> 0, reloads |-> 0, fails |-> 0]

(* A process that dies, for longer than the neighbour needs to notice *)
Death == [Base EXCEPT !.crashes = 1, !.dead = 14]

(* A lost packet, and a death at any time *)
Losses == [Base EXCEPT !.lost = 1, !.crashes = 1, !.delay = 0]

(* A reload that may change the intervals of one end *)
NewTimers ==
    [Base EXCEPT !.confs = [n \in MCNodes |-> IF n = 1 THEN {Fast, Slow} ELSE {Fast}],
                 !.multiplier = Both(5), !.reloads = 1]

(* Sockets that cannot be opened, at start and at a reload *)
Sockets == [Base EXCEPT !.shared = {1}, !.reloads = 1, !.fails = 2, !.delay = 0]

(* A neighbour of another make *)
Stranger == [Base EXCEPT !.passive = {1}, !.foreign = {2}, !.lost = 1, !.crashes = 1, !.delay = 0]

(* A passive and an active neighbour *)
Handshake == [Base EXCEPT !.passive = {1}, !.lost = 1, !.crashes = 1]
LateSocket == [Base EXCEPT !.passive = {1}, !.shared = MCNodes, !.fails = 2, !.delay = 0]

(* Intervals that are longer when the session is Up than before *)
Lazy ==
    [Base EXCEPT !.confs = Both({[tx |-> 5, rx |-> 2]}), !.first = Both([tx |-> 5, rx |-> 2]),
                 !.idle_tx = Both(3), !.passive = {1}, !.lost = 1, !.crashes = 1]

MCSetups == {Lazy, Death, Losses, NewTimers, Sockets, Stranger, Handshake, LateSocket}

(* A socket that cannot be opened at once *)
OneFailure == {[Base EXCEPT !.fails = 1]}
==============================================================================
