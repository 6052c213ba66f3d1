----------------------------- MODULE MCChecker ------------------------------
(***************************************************************************)
(* Small instances of CheckerPool and CheckerHealth: two real servers (a   *)
(* third for a reload to add), two sorry servers and three checkers.       *)
(***************************************************************************)
EXTENDS CheckerHealth

CONSTANTS a1, a2, a3, s1, s2, c1, c2, c3

Addr5 == {a1, a2, a3, s1, s2}
Checker3 == {c1, c2, c3}

Kinds(k1, k2, k3) == [c \in Checker |-> IF c = c1 THEN k1 ELSE IF c = c2 THEN k2 ELSE k3]
KindPool == Kinds("tcp", "bfd", "tcp")
KindWeights == Kinds("dynamic", "file", "file")
KindPlain == Kinds("misc", "bfd", "misc")
KindScripts == Kinds("dynamic", "misc", "tcp")

NoWeight == [c \in Checker |-> 0]
WeightOne == [c \in Checker |-> IF c = c3 THEN 1 ELSE 0]

\* A virtual server with the real servers a1, with two checkers, and a2, with one.
Base ==
  [present |-> TRUE, pool |-> <<a1, a2>>,
   checks |-> [a \in Addr |-> IF a = a1 THEN <<c1, c2>> ELSE IF a = a2 THEN <<c3>> ELSE <<>>],
   sorry |-> None, sinhibit |-> FALSE, quorum |-> 1, hysteresis |-> 0,
   inhibit |-> [a \in Addr |-> FALSE], iweight |-> [a \in Addr |-> 1],
   alpha |-> [c \in Checker |-> FALSE], retry |-> 0,
   kind |-> KindPool, fweight |-> NoWeight, freverse |-> [c \in Checker |-> FALSE]]

NoService == [Base EXCEPT !.present = FALSE]
Inhibiting(conf) == [conf EXCEPT !.inhibit = [a \in Addr |-> a = a1]]
Alpha(conf) == [conf EXCEPT !.alpha = [c \in Checker |-> c # c2]]
WithSorry(conf, s, inhibit) == [conf EXCEPT !.sorry = s, !.sinhibit = inhibit]
WithPool(conf, pool) == [conf EXCEPT !.pool = pool]
WithWeight(conf, n) == [conf EXCEPT !.iweight = [a \in Addr |-> n]]

Quora(confs) ==
  {[conf EXCEPT !.quorum = q, !.hysteresis = h] : conf \in confs, q \in {1, 2}, h \in {0, 1}}
Retries(confs) == {[conf EXCEPT !.retry = n] : conf \in confs, n \in {0, 1}}
Variants(confs) ==
  UNION {{conf, Inhibiting(conf), Alpha(conf), Inhibiting(Alpha(conf))} : conf \in confs}

Sorries == {Base, WithSorry(Base, s1, FALSE), WithSorry(Base, s1, TRUE)}

PoolConfigs == Retries(Quora(Variants(Sorries)))

\* One dynamic check next to a FILE_CHECK, and one of its own.
WeightConfigs ==
  LET both == [Base EXCEPT !.kind = KindWeights, !.fweight = WeightOne]
      alone == [both EXCEPT !.checks[a1] = <<c1>>, !.checks[a2] = <<c2, c3>>]
  IN {WithWeight(conf, n) : conf \in Quora({WithSorry(both, s1, FALSE), alone}), n \in {1, 2}}

\* One server has a dynamic check only, the other FILE_CHECKs.
SlipConfig(checks, n) ==
  WithWeight([Base EXCEPT !.kind = KindWeights, !.fweight = WeightOne,
                          !.checks[a1] = <<c1>>, !.checks[a2] = checks], n)
SlipConfigs == {SlipConfig(<<c2, c3>>, 1), SlipConfig(<<c3>>, 2)}

FewConfigs == Quora(Sorries)

\* Reloads that change the pool, the quorum and the checkers, that remove the
\* service and bring it back.
ReloadConfigs ==
  {Inhibiting(conf) :
     conf \in {Base, [Base EXCEPT !.quorum = 2], [Base EXCEPT !.checks[a1] = <<c1>>],
               WithPool(Base, <<a2>>), WithPool(Base, <<a1, a2, a3>>), NoService}}

\* Reloads that change the quorum while a sorry server may serve.
QuorumConfigs == Quora({WithSorry(Inhibiting(Base), s1, FALSE)})

\* Reloads that add, replace and remove the sorry server.
SorryConfigs == Quora({Base, WithSorry(Base, s1, FALSE), WithSorry(Base, s2, FALSE)})

\* A reload that removes a check.
RemoveCheck == {WithSorry(Base, s1, FALSE),
                [WithSorry(Base, s1, FALSE) EXCEPT !.checks[a1] = <<c1>>]}

LiveConfigs ==
  Retries({[WithSorry(Base, s1, FALSE) EXCEPT !.kind = KindScripts, !.quorum = q] : q \in {1, 2}})

\* Only results of checks, and a stop.
Checking(configs) ==
  [first |-> configs, later |-> {}, exits |-> {0}, signals |-> FALSE, values |-> {0},
   flush |-> FALSE, onstop |-> "no", refused |-> 0, commands |-> 0, reloads |-> 0, deaths |-> 0,
   changes |-> 0]

Reloading(configs, n) == [Checking(configs) EXCEPT !.later = configs, !.reloads = n]

Pools == Checking(PoolConfigs)
Weights == [Checking(WeightConfigs) EXCEPT !.exits = {0, 1, 2, 5}, !.values = {0, 1, 3, -3, 9}]
Scripts == [Checking({[conf EXCEPT !.kind = KindPlain] : conf \in PoolConfigs})
              EXCEPT !.exits = {0, 1, 2}, !.signals = TRUE]
\* Scripts killed while they contribute a weight, and files whose weight fails the
\* check at once (-10), does not fit (12) or both (-12).
Slips == [Checking(SlipConfigs) EXCEPT !.later = {SlipConfig(<<c3>>, 1)}, !.reloads = 1,
                                       !.exits = {0, 1, 2, 5}, !.signals = TRUE,
                                       !.values = {0, 1, 12, -10, -12}]
Refused == [Checking(FewConfigs) EXCEPT !.onstop = "full", !.refused = 2, !.commands = 5]
Restarts == [Checking(FewConfigs) EXCEPT !.later = FewConfigs, !.flush = TRUE, !.onstop = "vs",
                                         !.deaths = 2]
Health == [Checking(LiveConfigs) EXCEPT !.exits = {0, 1}, !.changes = 2]
Trouble == [Reloading({conf \in LiveConfigs : conf.retry = 1}, 1)
              EXCEPT !.exits = {0, 1}, !.changes = 1, !.refused = 1, !.commands = 3]

MCSetups ==
  {Pools, Weights, Slips, Scripts, Refused, Restarts, Health, Trouble,
   Reloading(ReloadConfigs, 2), Reloading(QuorumConfigs, 2), Reloading(SorryConfigs, 2)}

RemovingACheck == {Reloading(RemoveCheck, 1)}

=============================================================================
