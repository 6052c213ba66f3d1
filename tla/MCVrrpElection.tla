--------------------------- MODULE MCVrrpElection ----------------------------
(* Small instances of VrrpElection.  Priorities are 1 .. Range - 1.           *)
EXTENDS VrrpElection

(* Two routers, the second one of higher priority; nothing goes wrong. *)
Base ==
    [routers |-> {1, 2}, priority |-> <<1, 2>>, advert_int |-> <<4, 4>>,
     preempt_delay |-> <<0, 0>>, nopreempt |-> {},
     lower_prio_no_advert |-> {}, higher_prio_send_advert |-> {},
     rogues |-> {}, mismatched |-> {}, log_detail |-> FALSE, tracked |-> {},
     lost |-> 0, stops |-> 1, starts |-> 1, prios |-> 0]

(* Different intervals, a lost advert, crashes and restarts *)
Restarts == [Base EXCEPT !.advert_int = <<4, 8>>, !.lost = 1]

(* Changing priorities *)
Priorities == [Base EXCEPT !.tracked = {1, 2}, !.prios = 2, !.log_detail = TRUE]

(* nopreempt against preempt_delay, with the options for adverts *)
Options ==
    [Base EXCEPT !.priority = <<2, 2>>, !.nopreempt = {1}, !.preempt_delay = <<0, 9>>,
                 !.lower_prio_no_advert = {1, 2}, !.higher_prio_send_advert = {1},
                 !.tracked = {1, 2}, !.prios = 1, !.lost = 1, !.starts = 1]

ThreeRouters ==
    [Base EXCEPT !.routers = {1, 2, 3}, !.priority = <<1, 2, 1>>, !.advert_int = <<4, 4, 4>>,
                 !.preempt_delay = <<0, 0, 0>>, !.starts = 0]

(* Two address owners, and one next to an owner that never gives way *)
TwoOwners == [Base EXCEPT !.priority = <<3, 3>>, !.stops = 2]
Rogue == [Base EXCEPT !.priority = <<3, 3>>, !.advert_int = <<10, 10>>, !.rogues = {1},
                      !.lower_prio_no_advert = {2}]

(* Routers that reject each other's adverts *)
Strangers == [Base EXCEPT !.mismatched = {{1, 2}}, !.starts = 0]

MCSetups == {Restarts, Priorities, Options, ThreeRouters, TwoOwners, Rogue, Strangers}
==============================================================================
