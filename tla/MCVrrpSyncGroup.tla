-------------------------- MODULE MCVrrpSyncGroup ---------------------------
(* Small configurations of VrrpSyncGroup.  Each one names the links, scripts  *)
(* and trackers it uses; the rows of the tables below say who tracks them.    *)
EXTENDS VrrpSyncGroupAgree, TLC

CONSTANTS
    va, vb, vc,     \* instances
    la, lb, lc,     \* the interface of va, of vb and of vc
    la2,            \* a second interface va tracks
    lbc,            \* an interface both vb and vc run on
    sab,            \* a script va and vb track
    sa,             \* a script only va tracks
    sc,             \* a script only vc tracks
    ta,             \* a BFD session va and vc track
    tc              \* a file only vc tracks

AllTracked ==
    (la :> {va}) @@ (lb :> {vb}) @@ (lc :> {vc}) @@ (la2 :> {va}) @@ (lbc :> {vb, vc})
      @@ (sab :> {va, vb}) @@ (sa :> {va}) @@ (sc :> {vc}) @@ (ta :> {va, vc})
      @@ (tc :> {vc})

MCTrackedBy == [obj \in Objects |-> AllTracked[obj]]

(* vc has no address of its own: its link is the source address it waits for. *)
MCLinkFlag == [l \in Links |-> IF l = lc THEN "NO_SOURCE_IP" ELSE "INTERFACE_DOWN"]

NoReverse == {}
ReverseTC == {<<vc, tc>>}
ReverseSC == {<<vc, sc>>}
==============================================================================
