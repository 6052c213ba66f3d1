------------------------- MODULE VrrpSyncGroupCalls --------------------------
(* The inductive invariant of VrrpSyncGroup, and what one call of             *)
(* down_instance() or try_up_instance() does to the part of it that the       *)
(* calls within a handler rely on.  VrrpSyncGroupProofs builds on it.         *)
EXTENDS VrrpSyncGroup, FiniteSetTheorems, TLAPS

(* The provers a leaf is tried with, in this order, unless it names one. *)
USE SMT, Zenon, Z3T(60)

(* What the theorems assume of the configuration. *)
OneLinkPerFlag ==
    \A l, m \in Links :
        LinkFlag[l] = LinkFlag[m] /\ TrackedBy[l] \intersect TrackedBy[m] # {} => l = m
------------------------------------------------------------------------------
(* The inductive invariant.                                                   *)

FaultedIn(ins) == {v \in Sync : ins[v].flags_if_fault # {}}
StartingIn(ins) == {v \in Sync : ins[v].num_script_init # 0}

Counts(ins, g) ==
    /\ g.num_member_fault = Cardinality(FaultedIn(ins))
    /\ g.num_member_init = Cardinality(StartingIn(ins))

AllFault(ins) == \A u \in Sync : ins[u].state = "FAULT"

Held(ins, v) ==
    /\ ins[v].state # "INIT"
    /\ ins[v].flags_if_fault # {} \/ ins[v].num_script_init # 0 =>
          ins[v].state = "FAULT" /\ (v \in Sync => AllFault(ins))
    /\ ins[v].vipset => ins[v].state = "MAST"
    /\ ins[v].state = "MAST" => ins[v].wantstate = "MAST"

(* What the instances and the group are like, also within a TrackLoop step. *)
Safe(ins, g) ==
    /\ ins \in [Instances -> Instance]
    /\ g \in Group
    /\ Counts(ins, g)
    /\ \A v \in Instances : Held(ins, v)
    /\ g.state = "FAULT" => AllFault(ins)

(* The member that takes the others to MASTER state. *)
Leads(ins, v) == ins[v].wantstate = "MAST" => ins[v].state = "MAST"

(* The handlers that can be running together. *)
Shape(s) ==
    /\ Len(s) \in 0 .. 3
    /\ Len(s) = 1 => s[1].op \in {"track", "tsm", "master"}
    /\ Len(s) = 2 => s[1].op = "poll" /\ s[2].op \in {"tsm", "master"}
    /\ Len(s) = 3 => /\ s[1].op = "track" /\ s[1].obj \in Links
                     /\ s[2].op = "poll"
                     /\ s[3].op \in {"tsm", "master"}

MastersLead ==
    \A i \in 1 .. Len(stack) : stack[i].op = "master" =>
        /\ stack[i].v \notin stack[i].rest
        /\ group.state # "MAST"
        /\ Leads(inst, stack[i].v)

StackInv == stack \in Seq(Frame) /\ Shape(stack) /\ MastersLead

ScriptOk(s) == script[s].result >= Rise

(* A loop over the instances tracking an object serves its present status. *)
TrackInv ==
    Running("track") =>
        LET f == Head(stack) IN
        /\ f.rest \subseteq TrackedBy[f.obj]
        /\ IF f.obj \in Scripts
           THEN f.ok = ScriptOk(f.obj) /\ script[f.obj].init_state = "DONE"
           ELSE f.ok = up[f.obj] /\ ~f.init

(* v has still to hear of the change of obj. *)
Pending(v, obj) == Running("track") /\ Head(stack).obj = obj /\ v \in Head(stack).rest

(* The last thing v heard of obj keeps it down. *)
KnownFail(v, obj) ==
    IF Pending(v, obj) THEN ~Head(stack).init /\ StatusOk(v, obj, Head(stack).ok)
    ELSE IF obj \in Scripts
    THEN \/ script[obj].init_state = "FAILED"
         \/ script[obj].init_state = "DONE" /\ ~StatusOk(v, obj, ScriptOk(obj))
    ELSE ~StatusOk(v, obj, up[obj])

KnownInit(v, s) ==
    IF Pending(v, s) THEN Head(stack).init ELSE script[s].init_state = "INIT"

FailedTrackers(v) == {t \in Scripts \union Trackers : v \in TrackedBy[t] /\ KnownFail(v, t)}
WaitsFor(v) == {s \in Scripts : v \in TrackedBy[s] /\ KnownInit(v, s)}

(* The flags and counters of the instances against what they know. *)
KnownInv ==
    /\ \A l \in Links : \A v \in TrackedBy[l] :
          LinkFlag[l] \in inst[v].flags_if_fault <=> KnownFail(v, l)
    /\ \A v \in Instances :
          /\ inst[v].num_track_fault >= Cardinality(FailedTrackers(v))
          /\ "TRACKER" \in inst[v].flags_if_fault <=> inst[v].num_track_fault # 0
          /\ inst[v].num_script_init = Cardinality(WaitsFor(v))

(* The rest of the types, and that a script has not run before its first exit. *)
EnvInv ==
    /\ script \in [Scripts -> Script]
    /\ up \in [Links \union Trackers -> BOOLEAN]
    /\ delayed \in BOOLEAN
    /\ \A s \in Scripts : script[s].init_state = "INIT" => script[s].result = Rise - 1
    /\ \A s \in Scripts : script[s].init_state = "FAILED" => script[s].result = 0

(* The invariant of the proofs: the counters, the FAULT states, the flags and  *)
(* the frames of down_instance(), try_up_instance() and vrrp_sync_master()     *)
(* stay consistent step by step.                                               *)
IndInv == Safe(inst, group) /\ StackInv /\ TrackInv /\ KnownInv /\ EnvInv
------------------------------------------------------------------------------
(* One call of down_instance() or try_up_instance().                          *)

(* What a call leaves to the frames: the counters of the other instances and   *)
(* the member that leads the others to MASTER state are not disturbed.         *)
Others(v) ==
    /\ \A u \in Instances \ {v} :
          /\ inst'[u].flags_if_fault = inst[u].flags_if_fault
          /\ inst'[u].num_track_fault = inst[u].num_track_fault
          /\ inst'[u].num_script_init = inst[u].num_script_init
    /\ group.state # "MAST" => group'.state # "MAST"
    /\ \A u \in Instances : Leads(inst, u) => Leads(inst', u)

(* What holds when down_instance() or try_up_instance() is called: was is v and *)
(* g the group as the caller left them.                                         *)
CallPre(v, was, g) ==
    /\ v \in Instances /\ was \in Instance /\ g \in Group
    /\ inst \in [Instances -> Instance] /\ group \in Group
    /\ Safe([inst EXCEPT ![v] = was], g)
    /\ g.state = group.state
    /\ was.state = inst[v].state /\ was.wantstate = inst[v].wantstate

TryUpPre(v, leaving, flag, was, g) ==
    /\ leaving \in BOOLEAN
    /\ was.state = "FAULT"
    /\ ~leaving => flag \in was.flags_if_fault
    /\ ~leaving /\ flag = "TRACKER" => was.num_track_fault # 0
    /\ leaving => was.num_script_init = 0
    /\ leaving => (v \in Sync => g.num_member_init = 0)

(* What a call leaves behind, r being v with its new flags and counters. *)
CallPost(v, r, rest) ==
    /\ Safe(inst', group')
    /\ stack' = rest
    /\ inst'[v].flags_if_fault = r.flags_if_fault
    /\ inst'[v].num_track_fault = r.num_track_fault
    /\ inst'[v].num_script_init = r.num_script_init
    /\ Others(v)

(* The operations on one instance, field by field. *)
LEMMA FlagsTrackFault ==
    ASSUME NEW r \in Instance, NEW fl \in SUBSET Flags, NEW n \in Nat
    PROVE  [r EXCEPT !.flags_if_fault = fl, !.num_track_fault = n] \in Instance
BY Zenon DEF Instance

LEMMA TrackFaultFlags ==
    ASSUME NEW r \in Instance, NEW fl \in SUBSET Flags, NEW n \in Nat
    PROVE  [r EXCEPT !.num_track_fault = n, !.flags_if_fault = fl] \in Instance
BY Zenon DEF Instance

LEMMA SetFaultLemma ==
    ASSUME NEW r \in Instance, NEW flag \in Flags
    PROVE  LET q == set_fault(r, flag) IN
           /\ q \in Instance
           /\ q.flags_if_fault = r.flags_if_fault \union {flag}
           /\ q.num_track_fault = IF flag = "TRACKER" THEN r.num_track_fault + 1
                                  ELSE r.num_track_fault
           /\ q.state = r.state /\ q.wantstate = r.wantstate
           /\ q.num_script_init = r.num_script_init /\ q.vipset = r.vipset
<1> DEFINE n == IF flag = "TRACKER" THEN r.num_track_fault + 1 ELSE r.num_track_fault
           fl == r.flags_if_fault \union {flag}
<1>1. n \in Nat /\ fl \in SUBSET Flags
  BY DEF Instance
<1>2. set_fault(r, flag) = [r EXCEPT !.flags_if_fault = fl, !.num_track_fault = n]
  BY DEF set_fault
<1>3. set_fault(r, flag) \in Instance
  <2> HIDE DEF n, fl
  <2>1. [r EXCEPT !.flags_if_fault = fl, !.num_track_fault = n] \in Instance
    BY Zenon, <1>1, FlagsTrackFault
  <2> QED BY ZenonT(40), <1>2, <2>1, Zenon
<1> QED BY <1>3 DEF set_fault, Instance

LEMMA WantLemma ==
    ASSUME NEW r \in Instance, NEW st \in States
    PROVE  LET q == Want(r, st) IN
           /\ q \in Instance
           /\ q.wantstate = st /\ q.state = r.state /\ q.vipset = r.vipset
           /\ q.flags_if_fault = r.flags_if_fault
           /\ q.num_track_fault = r.num_track_fault
           /\ q.num_script_init = r.num_script_init
BY DEF Want, Instance

LEMMA LeaveMasterLemma ==
    ASSUME NEW r \in Instance, r.wantstate \in {"BACK", "FAULT"}
    PROVE  LET q == vrrp_state_leave_master(r) IN
           /\ q \in Instance
           /\ q.wantstate = r.wantstate /\ q.state = r.wantstate /\ q.vipset = FALSE
           /\ q.flags_if_fault = r.flags_if_fault
           /\ q.num_track_fault = r.num_track_fault
           /\ q.num_script_init = r.num_script_init
BY Zenon DEF vrrp_state_leave_master, Instance

LEMMA LeaveFaultLemma ==
    ASSUME NEW r \in Instance, r.state # "MAST", ~r.vipset
    PROVE  LET q == vrrp_state_leave_fault(r) IN
           /\ q \in Instance
           /\ q.wantstate = r.wantstate /\ q.state = r.wantstate /\ q.vipset = FALSE
           /\ q.flags_if_fault = r.flags_if_fault
           /\ q.num_track_fault = r.num_track_fault
           /\ q.num_script_init = r.num_script_init
BY Zenon DEF vrrp_state_leave_fault, Instance

LEMMA ClearFaultLemma ==
    ASSUME NEW r \in Instance, NEW flag \in Flags, flag = "TRACKER" => r.num_track_fault # 0
    PROVE  LET q == ClearFault(r, flag) IN
           /\ q \in Instance
           /\ q.num_track_fault = IF flag = "TRACKER" THEN r.num_track_fault - 1
                                  ELSE r.num_track_fault
           /\ q.flags_if_fault = IF flag = "TRACKER" /\ q.num_track_fault # 0
                                 THEN r.flags_if_fault ELSE r.flags_if_fault \ {flag}
           /\ q.state = r.state /\ q.wantstate = r.wantstate
           /\ q.num_script_init = r.num_script_init /\ q.vipset = r.vipset
<1>1. CASE flag # "TRACKER"
  BY <1>1 DEF ClearFault, Instance
<1>2. CASE flag = "TRACKER"
  <2> DEFINE n == r.num_track_fault - 1
             fl == IF n = 0 THEN r.flags_if_fault \ {flag} ELSE r.flags_if_fault
  <2>1. n \in Nat /\ fl \in SUBSET Flags /\ Dec(r.num_track_fault) = n
    BY <1>2 DEF Instance, Dec
  <2>2. ClearFault(r, flag) = [r EXCEPT !.num_track_fault = n, !.flags_if_fault = fl]
    BY <1>2, <2>1 DEF ClearFault
  <2>3. ClearFault(r, flag) \in Instance
    <3> HIDE DEF n, fl
    <3> QED BY ZenonT(40), <2>1, <2>2, TrackFaultFlags
  <2> QED BY Zenon, <1>2, <2>1, <2>2, <2>3 DEF Instance
<1> QED BY <1>1, <1>2

LEMMA SyncFinite ==
    ASSUME NEW S \in SUBSET Sync
    PROVE  IsFiniteSet(S) /\ Cardinality(S) \in Nat
BY ConfigAssumption, FS_Subset, FS_CardinalityType

(* vrrp_sync_fault() leaves every member in FAULT state and its counters alone. *)
LEMMA SyncFaultLemma ==
    ASSUME NEW ins \in [Instances -> Instance], NEW v \in Sync, ins[v].state = "FAULT",
           group.state = "FAULT" => \A u \in Sync \ {v} : ins[u].state = "FAULT",
           \A u \in Instances : ins[u].state # "INIT",
           \A u \in Instances : ins[u].vipset => ins[u].state = "MAST"
    PROVE  LET q == SyncFault(ins, v) IN
           /\ q \in [Instances -> Instance]
           /\ \A u \in Sync : q[u].state = "FAULT"
           /\ \A u \in Instances : u \notin Sync \/ ins[u].state = "FAULT" => q[u] = ins[u]
           /\ \A u \in Sync : ins[u].state # "FAULT" => q[u].wantstate = "FAULT" /\ ~q[u].vipset
           /\ \A u \in Instances :
                 /\ q[u].flags_if_fault = ins[u].flags_if_fault
                 /\ q[u].num_track_fault = ins[u].num_track_fault
                 /\ q[u].num_script_init = ins[u].num_script_init
<1> DEFINE q == SyncFault(ins, v)
           good(u) == /\ q[u] \in Instance
                      /\ u \in Sync => q[u].state = "FAULT"
                      /\ u \notin Sync \/ ins[u].state = "FAULT" => q[u] = ins[u]
                      /\ u \in Sync /\ ins[u].state # "FAULT" =>
                            q[u].wantstate = "FAULT" /\ ~q[u].vipset
                      /\ q[u].flags_if_fault = ins[u].flags_if_fault
                      /\ q[u].num_track_fault = ins[u].num_track_fault
                      /\ q[u].num_script_init = ins[u].num_script_init
<1>1. ASSUME NEW u \in Instances
      PROVE  good(u)
  <2> DEFINE follows == u \in Sync \ {v} /\ ins[u].state # "FAULT" /\ group.state # "FAULT"
  <2>1. ins[u] \in Instance /\ ins[u].state \in States /\ ins[u].vipset \in BOOLEAN
    BY DEF Instance
  <2>2. CASE ~follows
    <3>1. q[u] = ins[u]
      BY <2>2 DEF SyncFault
    <3>2. u \in Sync => ins[u].state = "FAULT"
      BY <2>2
    <3> HIDE DEF q
    <3> QED BY <2>1, <3>1, <3>2
  <2>3. CASE follows /\ ins[u].state = "MAST"
    <3> DEFINE w == Want(ins[u], "FAULT")
    <3>1. q[u] = vrrp_state_leave_master(w)
      BY <2>3 DEF SyncFault
    <3>2. "FAULT" \in States
      BY DEF States
    <3>3. /\ w \in Instance
          /\ w.wantstate = "FAULT"
          /\ w.flags_if_fault = ins[u].flags_if_fault
          /\ w.num_track_fault = ins[u].num_track_fault
          /\ w.num_script_init = ins[u].num_script_init
      BY <2>1, <3>2, WantLemma
    <3> HIDE DEF w, q
    <3> QED BY Zenon, <2>1, <2>3, <3>1, <3>3, LeaveMasterLemma
  <2>4. CASE follows /\ ins[u].state # "MAST"
    <3> DEFINE w == [Want(ins[u], "FAULT") EXCEPT !.state = "FAULT"]
    <3>1. q[u] = vrrp_state_leave_fault(w)
      BY <2>4 DEF SyncFault
    <3>2. "FAULT" \in States
      BY DEF States
    <3>3. Want(ins[u], "FAULT") \in Instance
      BY <2>1, <3>2, WantLemma
    <3>4. /\ w \in Instance
          /\ w.state = "FAULT" /\ w.wantstate = "FAULT" /\ ~w.vipset
          /\ w.flags_if_fault = ins[u].flags_if_fault
          /\ w.num_track_fault = ins[u].num_track_fault
          /\ w.num_script_init = ins[u].num_script_init
      BY <2>1, <2>4, <3>2, <3>3, WantLemma DEF Instance
    <3> HIDE DEF w, q
    <3> QED BY ZenonT(40), <2>1, <2>4, <3>1, <3>4, LeaveFaultLemma
  <2> QED BY <2>2, <2>3, <2>4
<1>2. q \in [Instances -> Instance]
  <2>1. q = [u \in Instances |-> q[u]]
    BY DEF SyncFault
  <2> HIDE DEF q
  <2> QED BY <1>1, <2>1
<1>3. Sync \subseteq Instances
  BY ConfigAssumption
<1> HIDE DEF q
<1> QED BY <1>1, <1>2, <1>3 DEF q

(* The instance that goes down leaves MASTER or BACKUP state for FAULT state. *)
LEMMA EnterFaultLemma ==
    ASSUME NEW r \in Instance, r.vipset => r.state = "MAST"
    PROVE  LET q == IF r.state = "MAST" THEN vrrp_state_leave_master(Want(r, "FAULT"))
                    ELSE vrrp_state_leave_fault(Want(r, "FAULT")) IN
           /\ q \in Instance
           /\ q.wantstate = "FAULT" /\ q.state = "FAULT" /\ q.vipset = FALSE
           /\ q.flags_if_fault = r.flags_if_fault
           /\ q.num_track_fault = r.num_track_fault
           /\ q.num_script_init = r.num_script_init
<1> DEFINE w == Want(r, "FAULT")
<1>1. "FAULT" \in States /\ r.vipset \in BOOLEAN
  BY DEF States, Instance
<1>2. /\ w \in Instance
      /\ w.wantstate = "FAULT" /\ w.state = r.state /\ w.vipset = r.vipset
      /\ w.flags_if_fault = r.flags_if_fault
      /\ w.num_track_fault = r.num_track_fault
      /\ w.num_script_init = r.num_script_init
  BY <1>1, WantLemma
<1> HIDE DEF w
<1>3. CASE r.state = "MAST"
  BY Zenon, <1>2, <1>3, LeaveMasterLemma DEF w
<1>4. CASE r.state # "MAST"
  BY Zenon, <1>1, <1>2, <1>4, LeaveFaultLemma DEF w
<1> QED BY Zenon, <1>3, <1>4

(* The two sets the group counts are finite, and change with their members only. *)
LEMMA CountedSets ==
    ASSUME NEW ins
    PROVE  /\ FaultedIn(ins) \subseteq Sync /\ StartingIn(ins) \subseteq Sync
           /\ IsFiniteSet(FaultedIn(ins)) /\ IsFiniteSet(StartingIn(ins))
           /\ Cardinality(FaultedIn(ins)) \in Nat /\ Cardinality(StartingIn(ins)) \in Nat
<1>1. FaultedIn(ins) \in SUBSET Sync /\ StartingIn(ins) \in SUBSET Sync
  BY DEF FaultedIn, StartingIn
<1> QED BY <1>1, SyncFinite

LEMMA SameFaulted ==
    ASSUME NEW ins, NEW old,
           \A u \in Sync : (ins[u].flags_if_fault = {}) <=> (old[u].flags_if_fault = {})
    PROVE  FaultedIn(ins) = FaultedIn(old)
BY DEF FaultedIn

LEMMA SameStarting ==
    ASSUME NEW ins, NEW old, \A u \in Sync : ins[u].num_script_init = old[u].num_script_init
    PROVE  StartingIn(ins) = StartingIn(old)
BY DEF StartingIn

LEMMA NewFaulted ==
    ASSUME NEW ins, NEW old, NEW v \in Sync,
           \A u \in Sync \ {v} : ins[u].flags_if_fault = old[u].flags_if_fault,
           old[v].flags_if_fault = {}, ins[v].flags_if_fault # {}
    PROVE  Cardinality(FaultedIn(ins)) = Cardinality(FaultedIn(old)) + 1
<1>1. FaultedIn(ins) = FaultedIn(old) \union {v} /\ v \notin FaultedIn(old)
  BY DEF FaultedIn
<1> QED BY Zenon, <1>1, CountedSets, FS_AddElement

LEMMA LessFaulted ==
    ASSUME NEW ins, NEW old, NEW v \in Sync,
           \A u \in Sync \ {v} : ins[u].flags_if_fault = old[u].flags_if_fault,
           old[v].flags_if_fault # {}, ins[v].flags_if_fault = {}
    PROVE  /\ Cardinality(FaultedIn(old)) # 0
           /\ Cardinality(FaultedIn(ins)) = Cardinality(FaultedIn(old)) - 1
<1>1. Cardinality(FaultedIn(old)) = Cardinality(FaultedIn(ins)) + 1
  BY NewFaulted
<1> QED BY <1>1, CountedSets

(* down_instance() of an instance that was down already. *)
LEMMA DownAgain ==
    ASSUME NEW v \in Instances, NEW r \in Instance, NEW was \in Instance, NEW g \in Group,
           inst \in [Instances -> Instance],
           Safe([inst EXCEPT ![v] = was], g),
           was.flags_if_fault # {}, r.flags_if_fault # {},
           r.state = was.state, r.wantstate = was.wantstate,
           r.num_script_init = was.num_script_init, r.vipset = was.vipset
    PROVE  Safe([inst EXCEPT ![v] = r], g)
<1> DEFINE old == [inst EXCEPT ![v] = was]
           ins == [inst EXCEPT ![v] = r]
<1>1. /\ ins \in [Instances -> Instance]
      /\ old[v] = was /\ ins[v] = r
      /\ \A u \in Instances \ {v} : ins[u] = old[u]
  OBVIOUS
<1>2. /\ Sync \subseteq Instances /\ Counts(old, g)
      /\ \A u \in Instances : Held(old, u)
      /\ g.state = "FAULT" => AllFault(old)
  BY Zenon, ConfigAssumption DEF Safe
<1> HIDE DEF old, ins
<1>3. \A u \in Instances : /\ ins[u].state = old[u].state
                           /\ ins[u].wantstate = old[u].wantstate
                           /\ ins[u].vipset = old[u].vipset
                           /\ ins[u].num_script_init = old[u].num_script_init
                           /\ (ins[u].flags_if_fault = {}) <=> (old[u].flags_if_fault = {})
  BY <1>1
<1>4. Counts(ins, g)
  <2>1. FaultedIn(ins) = FaultedIn(old)
    <3>1. \A u \in Sync : (ins[u].flags_if_fault = {}) <=> (old[u].flags_if_fault = {})
      BY <1>2, <1>3
    <3> QED BY Zenon, <3>1, SameFaulted
  <2>2. StartingIn(ins) = StartingIn(old)
    BY <1>2, <1>3, SameStarting
  <2> QED BY <1>2, <2>1, <2>2 DEF Counts
<1>5. AllFault(old) => AllFault(ins)
  BY <1>2, <1>3 DEF AllFault
<1>6. \A u \in Instances : Held(ins, u)
  BY <1>2, <1>3, <1>5 DEF Held
<1>7. Safe(ins, g)
  BY <1>1, <1>2, <1>4, <1>5, <1>6 DEF Safe
<1> QED BY <1>7 DEF ins

(* down_instance() of an instance that was up, before its group follows. *)
LEMMA DownFirst ==
    ASSUME NEW v \in Instances, NEW g \in Group, NEW old, NEW ins \in [Instances -> Instance],
           Safe(old, g),
           \A u \in Instances \ {v} : ins[u] = old[u],
           old[v].flags_if_fault = {}, ins[v].flags_if_fault # {},
           ins[v].state = "FAULT", ~ins[v].vipset,
           ins[v].num_script_init = old[v].num_script_init
    PROVE  /\ v \in Sync =>
                 /\ Cardinality(FaultedIn(ins)) = g.num_member_fault + 1
                 /\ g.state = "FAULT" => \A u \in Sync \ {v} : ins[u].state = "FAULT"
           /\ v \notin Sync => Cardinality(FaultedIn(ins)) = g.num_member_fault
           /\ Cardinality(StartingIn(ins)) = g.num_member_init
           /\ \A u \in Instances :
                 /\ ins[u].state # "INIT"
                 /\ ins[u].vipset => ins[u].state = "MAST"
                 /\ ins[u].state = "MAST" => ins[u].wantstate = "MAST"
           /\ \A u \in Instances \ Sync :
                 ins[u].flags_if_fault # {} \/ ins[u].num_script_init # 0 =>
                     ins[u].state = "FAULT"
           /\ ~(v \in Sync /\ g.num_member_fault = 0) =>
                 /\ \A u \in Instances : Held(ins, u)
                 /\ g.state = "FAULT" => AllFault(ins)
<1>1. \A u \in Instances \ {v} : ins[u] = old[u]
  OBVIOUS
<1>2. /\ Sync \subseteq Instances /\ Counts(old, g)
      /\ \A u \in Instances : Held(old, u)
      /\ g.state = "FAULT" => AllFault(old)
  BY ConfigAssumption DEF Safe
<1>3. StartingIn(ins) = StartingIn(old)
  <2>1. \A u \in Sync : ins[u].num_script_init = old[u].num_script_init
    BY <1>1, <1>2
  <2> QED BY <2>1, SameStarting
<1>4. v \in Sync => Cardinality(FaultedIn(ins)) = Cardinality(FaultedIn(old)) + 1
  <2>1. \A u \in Sync \ {v} : ins[u].flags_if_fault = old[u].flags_if_fault
    BY <1>1, <1>2
  <2>2. old[v].flags_if_fault = {} /\ ins[v].flags_if_fault # {}
    BY <1>1
  <2> QED BY <2>1, <2>2, NewFaulted
<1>5. v \notin Sync => FaultedIn(ins) = FaultedIn(old)
  <2>1. v \notin Sync =>
          \A u \in Sync : (ins[u].flags_if_fault = {}) <=> (old[u].flags_if_fault = {})
    BY <1>1, <1>2
  <2> QED BY Zenon, <2>1, SameFaulted
<1>6. AllFault(old) => AllFault(ins)
  BY <1>1, <1>2 DEF AllFault
<1>7. \A u \in Instances :
         /\ ins[u].state # "INIT"
         /\ ins[u].vipset => ins[u].state = "MAST"
         /\ ins[u].state = "MAST" => ins[u].wantstate = "MAST"
         /\ ins[u].flags_if_fault # {} \/ ins[u].num_script_init # 0 => ins[u].state = "FAULT"
  BY <1>1, <1>2 DEF Held
<1>8. v \in Sync /\ g.num_member_fault # 0 => AllFault(old)
  <2>1. FaultedIn(old) = {} => Cardinality(FaultedIn(old)) = 0
    BY FS_EmptySet, CountedSets
  <2>2. g.num_member_fault # 0 => FaultedIn(old) # {}
    BY <1>2, <2>1 DEF Counts
  <2>3. FaultedIn(old) # {} => \E u \in Sync : old[u].flags_if_fault # {}
    BY DEF FaultedIn
  <2> QED BY <1>2, <2>2, <2>3 DEF Held
<1>9. ~(v \in Sync /\ g.num_member_fault = 0) => \A u \in Instances : Held(ins, u)
  <2>1. CASE v \in Sync /\ g.num_member_fault # 0
    BY <1>6, <1>7, <1>8, <2>1 DEF Held
  <2>2. CASE v \notin Sync
    BY <1>1, <1>2, <1>6, <1>7, <2>2 DEF Held
  <2> QED BY <2>1, <2>2
<1>10. g.state = "FAULT" => \A u \in Sync \ {v} : ins[u].state = "FAULT"
  BY <1>2, <1>6 DEF AllFault
<1> HIDE DEF Held, AllFault
<1>11. Cardinality(StartingIn(ins)) = g.num_member_init
  BY <1>2, <1>3 DEF Counts
<1>12. v \notin Sync => Cardinality(FaultedIn(ins)) = g.num_member_fault
  BY <1>2, <1>5 DEF Counts
<1>13. v \in Sync => Cardinality(FaultedIn(ins)) = g.num_member_fault + 1
  BY <1>2, <1>4 DEF Counts
<1> QED BY <1>1, <1>2, <1>6, <1>7, <1>9, <1>10, <1>11, <1>12, <1>13

(* down_instance() keeps the counters of the group exact and takes the whole   *)
(* group to FAULT state.                                                       *)
LEMMA DownLemma ==
    ASSUME NEW v, NEW flag \in Flags, NEW was, NEW g, NEW rest,
           CallPre(v, was, g),
           DownInstance(v, flag, was, g, rest)
    PROVE  CallPost(v, set_fault(was, flag), rest)
<1>0. /\ v \in Instances /\ was \in Instance /\ g \in Group
      /\ inst \in [Instances -> Instance] /\ group \in Group
      /\ Safe([inst EXCEPT ![v] = was], g)
      /\ g.state = group.state
      /\ was.state = inst[v].state /\ was.wantstate = inst[v].wantstate
  BY DEF CallPre
<1> DEFINE r == set_fault(was, flag)
<1> SUFFICES CallPost(v, r, rest)
  OBVIOUS
<1>1. /\ r \in Instance
      /\ r.flags_if_fault = was.flags_if_fault \union {flag}
      /\ r.num_track_fault = IF flag = "TRACKER" THEN was.num_track_fault + 1
                             ELSE was.num_track_fault
      /\ r.state = was.state /\ r.wantstate = was.wantstate
      /\ r.num_script_init = was.num_script_init /\ r.vipset = was.vipset
  BY <1>0, SetFaultLemma
<1>2. /\ Sync \subseteq Instances /\ was.state # "INIT"
      /\ was.vipset => was.state = "MAST"
      /\ was.flags_if_fault # {} => was.state = "FAULT"
  BY <1>0, ConfigAssumption DEF Safe, Held
<1>3. r.flags_if_fault # {}
  BY <1>0, <1>1
<1>4. CASE ~EntersFault(was)
  <2>1. /\ inst' = [inst EXCEPT ![v] = r]
        /\ group' = [g EXCEPT !.num_member_fault = @, !.state = @]
        /\ stack' = rest
    BY <1>0, <1>4 DEF DownInstance
  <2> HIDE DEF r
  <2>2. was.flags_if_fault # {} /\ was.state = "FAULT"
    BY <1>0, <1>2, <1>4 DEF EntersFault
  <2>3. group' = g
    BY Zenon, <1>0, <2>1 DEF Group
  <2>4. Safe([inst EXCEPT ![v] = r], g)
    BY Zenon, <1>0, <1>1, <1>3, <2>2, DownAgain
  <2>5. Safe(inst', group')
    BY <1>0, <2>1, <2>3, <2>4
  <2>6. Others(v)
    BY <1>0, <1>1, <2>1, <2>3 DEF Others, Leads
  <2> QED BY <1>0, <1>1, <2>1, <2>5, <2>6 DEF CallPost
<1>5. CASE EntersFault(was)
  <2> DEFINE q == IF r.state = "MAST" THEN vrrp_state_leave_master(Want(r, "FAULT"))
                  ELSE vrrp_state_leave_fault(Want(r, "FAULT"))
             ins == [inst EXCEPT ![v] = q]
             syncs == v \in Sync /\ g.num_member_fault = 0
             n == IF v \in Sync THEN g.num_member_fault + 1 ELSE g.num_member_fault
             st == IF syncs THEN "FAULT" ELSE g.state
  <2>1. /\ q \in Instance
        /\ q.wantstate = "FAULT" /\ q.state = "FAULT" /\ q.vipset = FALSE
        /\ q.flags_if_fault = r.flags_if_fault
        /\ q.num_track_fault = r.num_track_fault
        /\ q.num_script_init = r.num_script_init
    <3> HIDE DEF r
    <3>1. r.vipset => r.state = "MAST"
      BY <1>0, <1>1, <1>2
    <3> QED BY Zenon, <1>0, <1>1, <3>1, EnterFaultLemma
  <2>2. /\ inst' = IF syncs THEN SyncFault(ins, v) ELSE ins
        /\ group' = [g EXCEPT !.num_member_fault = n, !.state = st]
        /\ stack' = rest
    <3>1. was.state = r.state
      BY <1>0, <1>1
    <3> QED BY <1>0, <1>5, <3>1 DEF DownInstance
  <2> HIDE DEF q, r
  <2>3. was.flags_if_fault = {}
    BY <1>0, <1>2, <1>5 DEF EntersFault
  <2> DEFINE old == [inst EXCEPT ![v] = was]
  <2>5. /\ ins \in [Instances -> Instance]
        /\ ins[v] = q /\ \A u \in Instances \ {v} : ins[u] = inst[u]
        /\ old[v] = was /\ \A u \in Instances \ {v} : ins[u] = old[u]
        /\ Safe(old, g)
    BY <1>0, <2>1
  <2> HIDE DEF ins, old
  <2>4. /\ v \in Sync =>
              /\ Cardinality(FaultedIn(ins)) = g.num_member_fault + 1
              /\ g.state = "FAULT" => \A u \in Sync \ {v} : ins[u].state = "FAULT"
        /\ v \notin Sync => Cardinality(FaultedIn(ins)) = g.num_member_fault
        /\ Cardinality(StartingIn(ins)) = g.num_member_init
        /\ \A u \in Instances :
              /\ ins[u].state # "INIT"
              /\ ins[u].vipset => ins[u].state = "MAST"
              /\ ins[u].state = "MAST" => ins[u].wantstate = "MAST"
        /\ \A u \in Instances \ Sync :
              ins[u].flags_if_fault # {} \/ ins[u].num_script_init # 0 =>
                  ins[u].state = "FAULT"
        /\ ~syncs =>
              /\ \A u \in Instances : Held(ins, u)
              /\ g.state = "FAULT" => AllFault(ins)
    <3>1. /\ ins[v].flags_if_fault # {} /\ ~ins[v].vipset /\ ins[v].state = "FAULT"
          /\ old[v].flags_if_fault = {}
          /\ ins[v].num_script_init = old[v].num_script_init
      BY <1>0, <1>1, <1>3, <2>1, <2>3, <2>5
    <3>2. v \in Instances /\ g \in Group
      BY <1>0
    <3> QED BY <2>5, <3>1, <3>2, DownFirst
  <2>6. n \in Nat /\ st \in States
    BY <1>0 DEF Group, States
  <2>7. /\ group' \in Group
        /\ group'.num_member_fault = n /\ group'.state = st
        /\ group'.num_member_init = g.num_member_init
    <3> DEFINE h == [g EXCEPT !.num_member_fault = n, !.state = st]
    <3>1. /\ h \in Group /\ h.num_member_fault = n /\ h.state = st
          /\ h.num_member_init = g.num_member_init
      <4> HIDE DEF n, st
      <4> QED BY Zenon, <1>0, <2>6 DEF Group
    <3>2. group' = h
      BY <1>0, <2>2
    <3> HIDE DEF h, n, st
    <3> QED BY <1>0, <3>1, <3>2
  <2>8. Cardinality(FaultedIn(ins)) = n
    BY <1>0, <2>4
  <2>9. CASE ~syncs
    <3>1. inst' = ins /\ st = g.state
      BY <1>0, <2>2, <2>9
    <3>2. Safe(inst', group')
      BY <1>0, <2>4, <2>5, <2>7, <2>8, <2>9, <3>1 DEF Safe, Counts
    <3>3. Others(v)
      BY <1>0, <2>1, <2>5, <2>7, <3>1 DEF Others, Leads
    <3> QED BY <1>0, <1>1, <2>1, <2>2, <2>5, <3>1, <3>2, <3>3 DEF CallPost
  <2>10. CASE syncs
    <3>1. inst' = SyncFault(ins, v) /\ st = "FAULT" /\ v \in Sync
      BY <1>0, <2>2, <2>10
    <3>2. /\ inst' \in [Instances -> Instance]
          /\ \A u \in Sync : inst'[u].state = "FAULT"
          /\ \A u \in Instances : u \notin Sync \/ ins[u].state = "FAULT" => inst'[u] = ins[u]
          /\ \A u \in Sync : ins[u].state # "FAULT" =>
                inst'[u].wantstate = "FAULT" /\ ~inst'[u].vipset
          /\ \A u \in Instances :
                /\ inst'[u].flags_if_fault = ins[u].flags_if_fault
                /\ inst'[u].num_track_fault = ins[u].num_track_fault
                /\ inst'[u].num_script_init = ins[u].num_script_init
      <4>1. ins[v].state = "FAULT"
        BY <1>0, <2>1, <2>5
      <4>2. group.state = "FAULT" => \A u \in Sync \ {v} : ins[u].state = "FAULT"
        BY <1>0, <2>4, <3>1
      <4> QED BY <1>0, <2>4, <2>5, <3>1, <4>1, <4>2, SyncFaultLemma
    <3>3. AllFault(inst')
      BY <1>0, <3>2 DEF AllFault
    <3>4. FaultedIn(inst') = FaultedIn(ins)
      <4>1. \A u \in Sync : (inst'[u].flags_if_fault = {}) <=> (ins[u].flags_if_fault = {})
        BY <1>0, <1>2, <3>2
      <4> QED BY ZenonT(40), <1>0, <4>1, SameFaulted
    <3>5. StartingIn(inst') = StartingIn(ins)
      <4>1. \A u \in Sync : inst'[u].num_script_init = ins[u].num_script_init
        BY <1>0, <1>2, <3>2
      <4> QED BY <1>0, <4>1, SameStarting
    <3>6. \A u \in Instances : Held(inst', u)
      <4>1. \A u \in Sync : Held(inst', u)
        BY <1>0, <1>2, <2>4, <3>2, <3>3 DEF Held
      <4>2. \A u \in Instances \ Sync : Held(inst', u)
        BY <1>0, <2>4, <3>2 DEF Held
      <4> QED BY <1>0, <4>1, <4>2
    <3>7. Safe(inst', group')
      BY <1>0, <2>4, <2>7, <2>8, <3>2, <3>3, <3>4, <3>5, <3>6 DEF Safe, Counts
    <3>8. Others(v)
      BY <1>0, <2>1, <2>5, <2>7, <3>1, <3>2 DEF Others, Leads
    <3> QED BY <1>0, <1>1, <2>1, <2>2, <2>5, <3>1, <3>2, <3>7, <3>8 DEF CallPost
  <2> QED BY <1>0, <2>9, <2>10
<1> QED BY <1>4, <1>5

(* vrrp_sync_backup() changes no flag and no counter of an instance. *)
LEMMA SyncBackupLemma ==
    ASSUME NEW ins \in [Instances -> Instance], NEW v \in Sync,
           \A u \in Instances : /\ ins[u].state # "INIT"
                                /\ ins[u].vipset => ins[u].state = "MAST"
                                /\ ins[u].state = "MAST" => ins[u].wantstate = "MAST"
    PROVE  LET q == SyncBackup(ins, v) IN
           /\ q \in [Instances -> Instance]
           /\ \A u \in Instances :
                 /\ q[u].flags_if_fault = ins[u].flags_if_fault
                 /\ q[u].num_track_fault = ins[u].num_track_fault
                 /\ q[u].num_script_init = ins[u].num_script_init
                 /\ q[u].state # "INIT"
                 /\ q[u].vipset => q[u].state = "MAST"
                 /\ q[u].state = "MAST" => q[u].wantstate = "MAST"
                 /\ Leads(ins, u) => Leads(q, u)
                 /\ u \notin Sync \ {v} => q[u] = ins[u]
<1> DEFINE q == SyncBackup(ins, v)
           good(u) == /\ q[u] \in Instance
                      /\ q[u].flags_if_fault = ins[u].flags_if_fault
                      /\ q[u].num_track_fault = ins[u].num_track_fault
                      /\ q[u].num_script_init = ins[u].num_script_init
                      /\ q[u].state # "INIT"
                      /\ q[u].vipset => q[u].state = "MAST"
                      /\ q[u].state = "MAST" => q[u].wantstate = "MAST"
                      /\ Leads(ins, u) => Leads(q, u)
                      /\ u \notin Sync \ {v} => q[u] = ins[u]
<1>1. ASSUME NEW u \in Instances
      PROVE  good(u)
  <2> DEFINE follows == u \in Sync \ {v} /\ ins[u].state # "BACK" /\ group.state # "BACK"
             w == Want(ins[u], "BACK")
  <2>1. /\ ins[u] \in Instance /\ ins[u].state \in States /\ ins[u].vipset \in BOOLEAN
        /\ "BACK" \in States
    BY DEF Instance, States
  <2>2. CASE ~follows
    <3>1. q[u] = ins[u]
      BY <2>2 DEF SyncBackup
    <3> HIDE DEF q
    <3> QED BY <2>1, <3>1 DEF Leads
  <2>3. /\ w \in Instance
        /\ w.wantstate = "BACK" /\ w.state = ins[u].state /\ w.vipset = ins[u].vipset
        /\ w.flags_if_fault = ins[u].flags_if_fault
        /\ w.num_track_fault = ins[u].num_track_fault
        /\ w.num_script_init = ins[u].num_script_init
    BY <2>1, WantLemma
  <2>4. CASE follows /\ ins[u].state = "FAULT"
    <3>1. q[u] = vrrp_state_leave_fault(w)
      BY <2>4 DEF SyncBackup
    <3> HIDE DEF w, q
    <3> QED BY ZenonT(40), <2>1, <2>3, <2>4, <3>1, LeaveFaultLemma DEF Leads
  <2>5. CASE follows /\ ins[u].state = "MAST"
    <3>1. q[u] = vrrp_state_leave_master(w)
      BY <2>5 DEF SyncBackup
    <3> HIDE DEF w, q
    <3> QED BY ZenonT(40), <2>1, <2>3, <2>5, <3>1, LeaveMasterLemma DEF Leads
  <2> QED BY <2>1, <2>2, <2>4, <2>5 DEF States
<1>2. q \in [Instances -> Instance]
  <2>1. q = [u \in Instances |-> q[u]]
    BY DEF SyncBackup
  <2> HIDE DEF q
  <2> QED BY <1>1, <2>1
<1> HIDE DEF q
<1> QED BY <1>1, <1>2 DEF q

(* An instance in FAULT state lets go of its faults and stays there. *)
LEMMA UpHeld ==
    ASSUME NEW v \in Instances, NEW g \in Group, NEW h \in Group, NEW old,
           NEW ins \in [Instances -> Instance],
           Safe(old, g),
           \A u \in Instances \ {v} : ins[u] = old[u],
           ins[v].state = "FAULT", old[v].state = "FAULT", ~ins[v].vipset,
           ins[v].num_script_init = old[v].num_script_init,
           ins[v].flags_if_fault # {} => old[v].flags_if_fault # {},
           h.num_member_init = g.num_member_init,
           h.num_member_fault =
               IF v \in Sync /\ old[v].flags_if_fault # {} /\ ins[v].flags_if_fault = {}
               THEN g.num_member_fault - 1 ELSE g.num_member_fault,
           h.state \in {g.state, "INIT"}
    PROVE  Safe(ins, h)
<1>1. /\ Sync \subseteq Instances /\ Counts(old, g)
      /\ \A u \in Instances : Held(old, u)
      /\ g.state = "FAULT" => AllFault(old)
  BY ConfigAssumption DEF Safe
<1>2. \A u \in Instances : /\ ins[u].state = old[u].state
                           /\ ins[u].num_script_init = old[u].num_script_init
                           /\ ins[u].flags_if_fault # {} => old[u].flags_if_fault # {}
  OBVIOUS
<1>3. StartingIn(ins) = StartingIn(old)
  <2>1. \A u \in Sync : ins[u].num_script_init = old[u].num_script_init
    BY <1>1, <1>2
  <2> QED BY <2>1, SameStarting
<1>4. h.num_member_fault = Cardinality(FaultedIn(ins))
  <2>1. CASE v \in Sync /\ old[v].flags_if_fault # {} /\ ins[v].flags_if_fault = {}
    <3>1. \A u \in Sync \ {v} : ins[u].flags_if_fault = old[u].flags_if_fault
      BY <1>1
    <3>2. Cardinality(FaultedIn(ins)) = Cardinality(FaultedIn(old)) - 1
      BY <2>1, <3>1, LessFaulted
    <3> QED BY <1>1, <2>1, <3>2 DEF Counts
  <2>2. CASE ~(v \in Sync /\ old[v].flags_if_fault # {} /\ ins[v].flags_if_fault = {})
    <3>1. \A u \in Sync : (ins[u].flags_if_fault = {}) <=> (old[u].flags_if_fault = {})
      BY <1>1, <1>2, <2>2
    <3>2. FaultedIn(ins) = FaultedIn(old)
      BY ZenonT(40), <3>1, SameFaulted
    <3> QED BY <1>1, <2>2, <3>2 DEF Counts
  <2> QED BY <2>1, <2>2
<1>5. AllFault(old) => AllFault(ins)
  BY <1>1, <1>2 DEF AllFault
<1>6. \A u \in Instances : Held(ins, u)
  BY <1>1, <1>2, <1>5 DEF Held
<1>7. Counts(ins, h)
  BY <1>1, <1>3, <1>4 DEF Counts
<1> QED BY <1>1, <1>5, <1>6, <1>7 DEF Safe

(* The states of a group of which no member has a fault or waits for a script. *)
LEMMA GroupUp ==
    ASSUME NEW h \in Group, NEW ins \in [Instances -> Instance],
           Counts(ins, h),
           h.state # "FAULT", h.num_member_fault = 0, h.num_member_init = 0,
           \A u \in Instances : /\ ins[u].state # "INIT"
                                /\ ins[u].vipset => ins[u].state = "MAST"
                                /\ ins[u].state = "MAST" => ins[u].wantstate = "MAST",
           \A u \in Instances \ Sync :
              ins[u].flags_if_fault # {} \/ ins[u].num_script_init # 0 => ins[u].state = "FAULT"
    PROVE  Safe(ins, h)
<1>1. FaultedIn(ins) = {} /\ StartingIn(ins) = {}
  BY Zenon, CountedSets, FS_EmptySet DEF Counts
<1>2. \A u \in Sync : ins[u].flags_if_fault = {} /\ ins[u].num_script_init = 0
  BY <1>1 DEF FaultedIn, StartingIn
<1>3. \A u \in Instances : Held(ins, u)
  BY <1>2 DEF Held
<1> QED BY <1>3 DEF Safe

(* try_up_instance() of an instance that is not an address owner keeps the     *)
(* counters of the group exact and leaves FAULT state only if all members may. *)
LEMMA TryUpLemma ==
    ASSUME Owners = {}, NEW v, NEW leaving, NEW flag \in Flags, NEW was, NEW g, NEW rest,
           CallPre(v, was, g), TryUpPre(v, leaving, flag, was, g),
           TryUpInstance(v, leaving, flag, was, g, rest)
    PROVE  CallPost(v, IF leaving THEN was ELSE ClearFault(was, flag), rest)
<1>0. /\ v \in Instances /\ was \in Instance /\ g \in Group
      /\ inst \in [Instances -> Instance] /\ group \in Group
      /\ Safe([inst EXCEPT ![v] = was], g)
      /\ g.state = group.state
      /\ was.state = inst[v].state /\ was.wantstate = inst[v].wantstate
      /\ leaving \in BOOLEAN
      /\ was.state = "FAULT"
      /\ ~leaving => flag \in was.flags_if_fault
      /\ ~leaving /\ flag = "TRACKER" => was.num_track_fault # 0
      /\ leaving => was.num_script_init = 0
      /\ leaving => (v \in Sync => g.num_member_init = 0)
  BY DEF CallPre, TryUpPre
<1> DEFINE r == IF leaving THEN was ELSE ClearFault(was, flag)
           old == [inst EXCEPT ![v] = was]
           b == Want(r, "BACK")
           g1 == IF v \in Sync /\ ~leaving THEN [g EXCEPT !.num_member_fault = Dec(@)] ELSE g
<1> SUFFICES CallPost(v, r, rest)
  OBVIOUS
<1>1. /\ r \in Instance
      /\ r.flags_if_fault \subseteq was.flags_if_fault
      /\ r.state = "FAULT" /\ r.wantstate = was.wantstate
      /\ r.num_script_init = was.num_script_init /\ r.vipset = was.vipset
  <2>1. CASE leaving
    BY <1>0, <2>1
  <2>2. CASE ~leaving
    <3> DEFINE c == ClearFault(was, flag)
    <3>1. /\ c \in Instance
          /\ c.flags_if_fault = IF flag = "TRACKER" /\ c.num_track_fault # 0
                                THEN was.flags_if_fault ELSE was.flags_if_fault \ {flag}
          /\ c.state = was.state /\ c.wantstate = was.wantstate
          /\ c.num_script_init = was.num_script_init /\ c.vipset = was.vipset
      BY <1>0, <2>2, ClearFaultLemma
    <3>2. r = c
      BY <1>0, <2>2
    <3> HIDE DEF c, r
    <3> QED BY <1>0, <3>1, <3>2
  <2> QED BY <1>0, <2>1, <2>2
<1>2. /\ Sync \subseteq Instances /\ Safe(old, g) /\ Counts(old, g)
      /\ \A u \in Instances : Held(old, u)
      /\ old[v] = was /\ \A u \in Instances \ {v} : old[u] = inst[u]
  BY ZenonT(40), <1>0, ConfigAssumption DEF Safe
<1>3. ~was.vipset /\ ~r.vipset
  BY <1>0, <1>1, <1>2 DEF Held
<1>4. "BACK" \in States
  BY <1>0 DEF States
<1>5. /\ b \in Instance
      /\ b.wantstate = "BACK" /\ b.state = "FAULT" /\ ~b.vipset
      /\ b.flags_if_fault = r.flags_if_fault
      /\ b.num_track_fault = r.num_track_fault
      /\ b.num_script_init = r.num_script_init
  <2> HIDE DEF r
  <2> QED BY <1>0, <1>1, <1>3, <1>4, WantLemma
<1>6. r.flags_if_fault = {} /\ v \in Sync =>
         /\ g1 \in Group /\ g1.state = g.state /\ g1.num_member_init = g.num_member_init
         /\ g1.num_member_fault =
               IF old[v].flags_if_fault # {} THEN g.num_member_fault - 1 ELSE g.num_member_fault
         /\ ~leaving => g.num_member_fault # 0
  <2>1. SUFFICES ASSUME r.flags_if_fault = {}, v \in Sync
                 PROVE  /\ g1 \in Group /\ g1.state = g.state
                        /\ g1.num_member_init = g.num_member_init
                        /\ g1.num_member_fault =
                              IF old[v].flags_if_fault # {} THEN g.num_member_fault - 1
                              ELSE g.num_member_fault
                        /\ ~leaving => g.num_member_fault # 0
    BY <1>0
  <2>2. CASE leaving
    BY <1>0, <1>2, <2>1, <2>2
  <2>3. CASE ~leaving
    <3>1. v \in FaultedIn(old)
      BY <1>0, <1>2, <2>1, <2>3 DEF FaultedIn
    <3>2. g.num_member_fault # 0
      BY <1>0, <1>2, <3>1, CountedSets, FS_EmptySet DEF Counts
    <3> DEFINE n == g.num_member_fault - 1
    <3>3. n \in Nat /\ Dec(g.num_member_fault) = n
      BY <1>0, <3>2 DEF Group, Dec
    <3>4. g1 = [g EXCEPT !.num_member_fault = n]
      BY <1>0, <2>1, <2>3, <3>3
    <3>5. old[v].flags_if_fault # {}
      BY <1>0, <1>2, <2>3
    <3> HIDE DEF g1, old, r
    <3>6. g1 \in Group /\ g1.state = g.state /\ g1.num_member_init = g.num_member_init
          /\ g1.num_member_fault = n
      <4> HIDE DEF n
      <4> QED BY <1>0, <3>3, <3>4 DEF Group
    <3> QED BY <1>0, <3>2, <3>5, <3>6
  <2> QED BY <1>0, <2>2, <2>3
<1>7. CASE r.flags_if_fault # {}
  <2>1. inst' = [inst EXCEPT ![v] = r] /\ group' = g /\ stack' = rest
    BY <1>0, <1>7 DEF TryUpInstance
  <2> HIDE DEF r
  <2>2. was.flags_if_fault # {}
    BY <1>0, <1>1, <1>7
  <2>3. Safe([inst EXCEPT ![v] = r], g)
    BY Zenon, <1>0, <1>1, <1>7, <2>2, DownAgain
  <2>4. Others(v)
    BY Zenon, <1>0, <1>1, <2>1 DEF Others, Leads
  <2> QED BY <1>0, <1>1, <2>1, <2>3, <2>4 DEF CallPost
<1>8. CASE r.flags_if_fault = {} /\ inst' = [inst EXCEPT ![v] = b] /\ stack' = rest
              /\ IF v \in Sync
                 THEN group' = g1 \/ group' = [g1 EXCEPT !.state = "INIT"]
                 ELSE group' = g
  <2> HIDE DEF r, b, g1, old
  <2>1. /\ inst' \in [Instances -> Instance] /\ inst'[v] = b
        /\ \A u \in Instances \ {v} : inst'[u] = inst[u] /\ inst'[u] = old[u]
    BY <1>0, <1>2, <1>5, <1>8
  <2>2. /\ group' \in Group
        /\ group'.num_member_init = g.num_member_init
        /\ group'.num_member_fault =
              IF v \in Sync /\ old[v].flags_if_fault # {} /\ inst'[v].flags_if_fault = {}
              THEN g.num_member_fault - 1 ELSE g.num_member_fault
        /\ group'.state \in {g.state, "INIT"}
    <3>1. inst'[v].flags_if_fault = {}
      BY <1>0, <1>5, <1>8, <2>1
    <3>2. CASE v \in Sync
      BY <1>0, <1>6, <1>8, <3>1, <3>2 DEF Group, States
    <3>3. CASE v \notin Sync
      BY <1>0, <1>8, <3>3
    <3> QED BY <1>0, <3>2, <3>3
  <2>3. /\ inst'[v].state = "FAULT" /\ old[v].state = "FAULT" /\ ~inst'[v].vipset
        /\ inst'[v].num_script_init = old[v].num_script_init
        /\ inst'[v].flags_if_fault # {} => old[v].flags_if_fault # {}
    BY <1>0, <1>1, <1>2, <1>5, <1>8, <2>1
  <2>4. Safe(inst', group')
    BY <1>0, <1>2, <2>1, <2>2, <2>3, UpHeld
  <2>5. Others(v)
    BY <1>0, <1>5, <2>1, <2>2 DEF Others, Leads
  <2> QED BY <1>0, <1>1, <1>5, <1>8, <2>1, <2>4, <2>5 DEF CallPost
<1>9. CASE /\ r.flags_if_fault = {} /\ r.num_script_init = 0
           /\ v \in Sync => g1.num_member_fault = 0 /\ g1.num_member_init = 0
           /\ inst' = IF v \in Sync
                      THEN SyncBackup([inst EXCEPT ![v] = Want(vrrp_state_leave_fault(b), "BACK")], v)
                      ELSE [inst EXCEPT ![v] = Want(vrrp_state_leave_fault(b), "BACK")]
           /\ group' = IF v \in Sync THEN [g1 EXCEPT !.state = "BACK"] ELSE g
           /\ stack' = rest
  <2> DEFINE c == vrrp_state_leave_fault(b)
             d == Want(c, "BACK")
             ins == [inst EXCEPT ![v] = d]
  <2> HIDE DEF r, b, g1, old
  <2>1. /\ c \in Instance
        /\ c.state = "BACK" /\ ~c.vipset
        /\ c.flags_if_fault = r.flags_if_fault
        /\ c.num_track_fault = r.num_track_fault
        /\ c.num_script_init = r.num_script_init
    BY ZenonT(40), <1>0, <1>5, LeaveFaultLemma
  <2> HIDE DEF c
  <2>2. /\ d \in Instance
        /\ d.wantstate = "BACK" /\ d.state = "BACK" /\ ~d.vipset
        /\ d.flags_if_fault = r.flags_if_fault
        /\ d.num_track_fault = r.num_track_fault
        /\ d.num_script_init = r.num_script_init
    BY <1>0, <1>4, <2>1, WantLemma
  <2> HIDE DEF d
  <2>3. /\ ins \in [Instances -> Instance] /\ ins[v] = d
        /\ \A u \in Instances \ {v} : ins[u] = inst[u] /\ ins[u] = old[u]
    BY <1>0, <1>2, <2>2
  <2>4. /\ inst' = IF v \in Sync THEN SyncBackup(ins, v) ELSE ins
        /\ group' = IF v \in Sync THEN [g1 EXCEPT !.state = "BACK"] ELSE g
        /\ stack' = rest
    BY <1>0, <1>9 DEF c, d
  <2> HIDE DEF ins
  <2>5. \A u \in Instances :
           /\ ins[u].state # "INIT"
           /\ ins[u].vipset => ins[u].state = "MAST"
           /\ ins[u].state = "MAST" => ins[u].wantstate = "MAST"
           /\ Leads(inst, u) => Leads(ins, u)
    BY <1>0, <1>2, <2>2, <2>3 DEF Held, Leads
  <2>6. \A u \in Instances : u # v =>
           /\ ins[u].flags_if_fault = inst[u].flags_if_fault
           /\ ins[u].num_track_fault = inst[u].num_track_fault
           /\ ins[u].num_script_init = inst[u].num_script_init
    BY <1>0, <2>3
  <2>7. CASE v \notin Sync
    <3>1. inst' = ins /\ group' = g
      BY <1>0, <2>4, <2>7
    <3>2. FaultedIn(ins) = FaultedIn(old)
      <4>1. \A u \in Sync : (ins[u].flags_if_fault = {}) <=> (old[u].flags_if_fault = {})
        BY <1>0, <1>2, <2>3, <2>7
      <4> QED BY ZenonT(40), <1>0, <4>1, SameFaulted
    <3>3. StartingIn(ins) = StartingIn(old)
      <4>1. \A u \in Sync : ins[u].num_script_init = old[u].num_script_init
        BY <1>0, <1>2, <2>3, <2>7
      <4> QED BY <1>0, <4>1, SameStarting
    <3>4. AllFault(old) => AllFault(ins)
      BY <1>0, <1>2, <2>3, <2>7 DEF AllFault
    <3>5. \A u \in Instances : Held(ins, u)
      BY <1>0, <1>2, <1>9, <2>2, <2>3, <2>5, <3>4 DEF Held
    <3>6. Counts(ins, g)
      BY <1>0, <1>2, <3>2, <3>3 DEF Counts
    <3>7. Safe(inst', group')
      BY <1>0, <1>2, <2>3, <3>1, <3>4, <3>5, <3>6 DEF Safe
    <3>8. Others(v)
      BY <1>0, <2>5, <2>6, <3>1 DEF Others
    <3> QED BY <1>0, <2>2, <2>3, <2>4, <3>1, <3>7, <3>8, <1>1 DEF CallPost
  <2>8. CASE v \in Sync
    <3>1. /\ inst' = SyncBackup(ins, v) /\ group' = [g1 EXCEPT !.state = "BACK"]
          /\ g1 \in Group
      BY <1>0, <1>6, <1>9, <2>4, <2>8
    <3>2. /\ inst' \in [Instances -> Instance]
          /\ \A u \in Instances :
                /\ inst'[u].flags_if_fault = ins[u].flags_if_fault
                /\ inst'[u].num_track_fault = ins[u].num_track_fault
                /\ inst'[u].num_script_init = ins[u].num_script_init
                /\ inst'[u].state # "INIT"
                /\ inst'[u].vipset => inst'[u].state = "MAST"
                /\ inst'[u].state = "MAST" => inst'[u].wantstate = "MAST"
                /\ Leads(ins, u) => Leads(inst', u)
                /\ u \notin Sync \ {v} => inst'[u] = ins[u]
      BY <1>0, <2>3, <2>5, <2>8, <3>1, SyncBackupLemma
    <3>3. /\ group' \in Group /\ group'.state = "BACK"
          /\ group'.num_member_fault = g1.num_member_fault
          /\ group'.num_member_init = g1.num_member_init
      BY <1>0, <1>4, <3>1 DEF Group
    <3>4. StartingIn(inst') = StartingIn(old)
      <4>1. \A u \in Sync : inst'[u].num_script_init = old[u].num_script_init
        BY <1>0, <1>1, <1>2, <2>2, <2>3, <3>2
      <4> QED BY <1>0, <4>1, SameStarting
    <3>5. Cardinality(FaultedIn(inst')) = g1.num_member_fault
      <4>1. FaultedIn(inst') = FaultedIn(ins)
        <5>1. \A u \in Sync : (inst'[u].flags_if_fault = {}) <=> (ins[u].flags_if_fault = {})
          BY <1>0, <1>2, <3>2
        <5> QED BY ZenonT(40), <1>0, <5>1, SameFaulted
      <4>2. /\ \A u \in Sync \ {v} : ins[u].flags_if_fault = old[u].flags_if_fault
            /\ ins[v].flags_if_fault = {}
        BY <1>0, <1>2, <1>9, <2>2, <2>3
      <4>3. CASE old[v].flags_if_fault # {}
        <5>1. Cardinality(FaultedIn(ins)) = Cardinality(FaultedIn(old)) - 1
          BY <2>8, <4>2, <4>3, LessFaulted
        <5> QED BY <1>0, <1>2, <1>6, <1>9, <2>8, <4>1, <4>3, <5>1 DEF Counts
      <4>4. CASE old[v].flags_if_fault = {}
        <5>1. \A u \in Sync : (ins[u].flags_if_fault = {}) <=> (old[u].flags_if_fault = {})
          BY <1>0, <4>2, <4>4
        <5>2. FaultedIn(ins) = FaultedIn(old)
          BY Zenon, <1>0, <5>1, SameFaulted
        <5> QED BY <1>0, <1>2, <1>6, <1>9, <2>8, <4>1, <4>4, <5>2 DEF Counts
      <4> QED BY <1>0, <4>3, <4>4
    <3>6. Counts(inst', group')
      BY <1>0, <1>2, <1>6, <1>9, <2>8, <3>3, <3>4, <3>5 DEF Counts
    <3>7. \A u \in Instances \ Sync :
             inst'[u].flags_if_fault # {} \/ inst'[u].num_script_init # 0 =>
                 inst'[u].state = "FAULT"
      BY <1>0, <1>2, <2>3, <2>8, <3>2 DEF Held
    <3>8. Safe(inst', group')
      <4>1. /\ group'.state # "FAULT"
            /\ group'.num_member_fault = 0 /\ group'.num_member_init = 0
        BY <1>0, <1>9, <2>8, <3>3
      <4>2. \A u \in Instances :
               /\ inst'[u].state # "INIT"
               /\ inst'[u].vipset => inst'[u].state = "MAST"
               /\ inst'[u].state = "MAST" => inst'[u].wantstate = "MAST"
        BY <1>0, <3>2
      <4> QED BY ZenonT(40), <1>0, <3>2, <3>3, <3>6, <3>7, <4>1, <4>2, GroupUp, Zenon
    <3>9. Others(v)
      BY <1>0, <2>5, <2>6, <3>2, <3>3 DEF Others
    <3> QED BY <1>0, <1>1, <2>2, <2>3, <2>4, <3>2, <3>8, <3>9 DEF CallPost
  <2> QED BY <1>0, <2>7, <2>8
<1>10. CASE r.flags_if_fault = {}
  <2>1. CASE r.num_script_init # 0
    <3>1. ~leaving
      BY <1>0, <1>1, <2>1
    <3>2. /\ inst' = [inst EXCEPT ![v] = b] /\ stack' = rest
          /\ group' = IF v \in Sync
                      THEN [g EXCEPT !.num_member_fault = Dec(@), !.state = "INIT"] ELSE g
      BY <1>0, <1>10, <2>1 DEF TryUpInstance
    <3>3. v \in Sync => group' = [g1 EXCEPT !.state = "INIT"]
      <4> DEFINE n == Dec(g.num_member_fault)
      <4>1. v \in Sync => g1 = [g EXCEPT !.num_member_fault = n]
        BY <1>0, <3>1
      <4>2. v \in Sync => group' = [g EXCEPT !.num_member_fault = n, !.state = "INIT"]
        BY <1>0, <3>2
      <4> HIDE DEF n, g1
      <4> QED BY Zenon, <1>0, <4>1, <4>2 DEF Group
    <3> QED BY <1>0, <1>8, <1>10, <3>2, <3>3
  <2>2. CASE r.num_script_init = 0
    <3> QED BY <1>0, <1>8, <1>9, <1>10, <2>2 DEF TryUpInstance
  <2> QED BY <1>0, <2>1, <2>2
<1> QED BY <1>0, <1>7, <1>10
------------------------------------------------------------------------------
(* What a call does to the states.                                            *)

(* An instance with something to keep it in FAULT state, and a group with one. *)
Stuck(ins, u) == ins[u].flags_if_fault # {} \/ ins[u].num_script_init # 0
GroupStuck(ins) == \E u \in Sync : Stuck(ins, u)

(* The group goes to FAULT state, or stays there because a member has to, or   *)
(* follows its last member to BACKUP state.  The other instances stay as they  *)
(* are.                                                                        *)
CallStates(v) ==
    /\ \A u \in Instances \ (Sync \union {v}) : inst'[u].state = inst[u].state
    /\ v \notin Sync =>
          /\ \A u \in Sync : inst'[u].state = inst[u].state
          /\ group'.state = group.state
          /\ Stuck(inst', v) \/ inst'[v].state = "BACK"
    /\ v \in Sync =>
          \/ group'.state = "FAULT" /\ GroupStuck(inst')
          \/ /\ group'.state \in {group.state, "INIT"}
             /\ GroupStuck(inst) /\ GroupStuck(inst')
          \/ /\ group'.state = "BACK" /\ GroupStuck(inst)
             /\ \A u \in Sync : inst'[u].state = "BACK" \/ group.state = "BACK"

LEMMA DownStates ==
    ASSUME NEW v, NEW flag \in Flags, NEW was, NEW g, NEW rest,
           CallPre(v, was, g), was.flags_if_fault = inst[v].flags_if_fault,
           DownInstance(v, flag, was, g, rest)
    PROVE  CallStates(v)
<1>1. /\ v \in Instances /\ was \in Instance /\ g \in Group
      /\ inst \in [Instances -> Instance]
      /\ Safe([inst EXCEPT ![v] = was], g) /\ g.state = group.state
      /\ Sync \subseteq Instances
  BY ConfigAssumption DEF CallPre
<1>2. Stuck(inst', v)
  <2>1. CallPost(v, set_fault(was, flag), rest)
    BY DownLemma
  <2>2. flag \in set_fault(was, flag).flags_if_fault
    BY <1>1, SetFaultLemma
  <2> QED BY <2>1, <2>2 DEF CallPost, Stuck
<1> PICK enters \in BOOLEAN : enters = EntersFault(was)
  BY Zenon DEF EntersFault
<1> PICK new : new = (LET r == set_fault(was, flag) IN
                      IF ~enters THEN r
                      ELSE IF was.state = "MAST" THEN vrrp_state_leave_master(Want(r, "FAULT"))
                      ELSE vrrp_state_leave_fault(Want(r, "FAULT")))
  OBVIOUS
<1> DEFINE ins == [inst EXCEPT ![v] = new]
           syncs == enters /\ v \in Sync /\ g.num_member_fault = 0
<1>3. /\ inst' = IF syncs THEN SyncFault(ins, v) ELSE ins
      /\ group' = [g EXCEPT !.num_member_fault = IF enters /\ v \in Sync THEN @ + 1 ELSE @,
                            !.state = IF syncs THEN "FAULT" ELSE @]
  BY Zenon DEF DownInstance
<1>4. \A u \in Instances \ {v} : ins[u] = inst[u]
  BY <1>1
<1>5. \A u \in Instances \ Sync : SyncFault(ins, v)[u] = ins[u]
  BY DEF SyncFault
<1>6. group'.state = IF syncs THEN "FAULT" ELSE group.state
  BY <1>1, <1>3 DEF Group
<1>7. v \in Sync /\ ~syncs => GroupStuck(inst)
  <2>1. SUFFICES ASSUME v \in Sync, ~syncs
                 PROVE  \E u \in Sync : inst[u].flags_if_fault # {}
    BY Zenon DEF GroupStuck, Stuck
  <2>2. CASE ~enters
    BY Zenon, <2>1, <2>2 DEF EntersFault
  <2>3. CASE enters
    <3> DEFINE old == [inst EXCEPT ![v] = was]
    <3>1. Cardinality(FaultedIn(old)) # 0
      BY <1>1, <2>1, <2>3 DEF Safe, Counts
    <3>2. PICK u \in Sync : old[u].flags_if_fault # {}
      BY <3>1, FS_EmptySet DEF FaultedIn
    <3>3. old[u].flags_if_fault = inst[u].flags_if_fault
      BY <1>1
    <3> QED BY <3>2, <3>3
  <2> QED BY <2>2, <2>3
<1> HIDE DEF ins, syncs
<1>8. v \notin Sync => ~syncs
  BY DEF syncs
<1>9. \A u \in Instances \ {v} : u \notin Sync \/ v \notin Sync => inst'[u] = inst[u]
  BY <1>3, <1>4, <1>5, <1>8
<1>10. v \in Sync => GroupStuck(inst')
  BY <1>2 DEF GroupStuck
<1> QED BY <1>1, <1>2, <1>6, <1>7, <1>8, <1>9, <1>10 DEF CallStates

(* vrrp_sync_backup() takes the other members to BACKUP state. *)
LEMMA SyncBackupStates ==
    ASSUME NEW ins \in [Instances -> Instance], NEW v \in Sync
    PROVE  LET q == SyncBackup(ins, v) IN
           /\ q[v] = ins[v]
           /\ \A u \in Instances \ Sync : q[u] = ins[u]
           /\ \A u \in Sync : q[u].state \in {ins[u].state, "BACK"}
           /\ group.state # "BACK" => \A u \in Sync \ {v} : q[u].state = "BACK"
<1>1. Sync \subseteq Instances
  BY ConfigAssumption
<1>2. /\ SyncBackup(ins, v)[v] = ins[v]
      /\ \A u \in Instances \ Sync : SyncBackup(ins, v)[u] = ins[u]
  BY <1>1 DEF SyncBackup
<1>3. ASSUME NEW u \in Sync \ {v}, group.state # "BACK"
      PROVE  SyncBackup(ins, v)[u].state = "BACK"
  <2>1. SyncBackup(ins, v)[u] =
           IF ins[u].state # "BACK"
           THEN IF ins[u].state \in {"FAULT", "INIT"}
                THEN vrrp_state_leave_fault(Want(ins[u], "BACK"))
                ELSE vrrp_state_leave_master(Want(ins[u], "BACK"))
           ELSE ins[u]
    BY <1>1, <1>3 DEF SyncBackup
  <2>2. ins[u] \in Instance
    BY <1>1
  <2>3. /\ vrrp_state_leave_fault(Want(ins[u], "BACK")).state = "BACK"
        /\ vrrp_state_leave_master(Want(ins[u], "BACK")).state = "BACK"
    BY <2>2 DEF Want, vrrp_state_leave_fault, vrrp_state_leave_master, Instance
  <2> QED BY <2>1, <2>3
<1>4. ASSUME NEW u \in Sync
      PROVE  SyncBackup(ins, v)[u].state \in {ins[u].state, "BACK"}
  <2>1. u = v \/ group.state = "BACK" => SyncBackup(ins, v)[u] = ins[u]
    BY <1>1 DEF SyncBackup
  <2> QED BY <1>3, <2>1
<1> QED BY <1>2, <1>3, <1>4

LEMMA TryUpStates ==
    ASSUME Owners = {}, NEW v, NEW leaving, NEW flag \in Flags, NEW was, NEW g, NEW rest,
           CallPre(v, was, g), TryUpPre(v, leaving, flag, was, g), Stuck(inst, v),
           TryUpInstance(v, leaving, flag, was, g, rest)
    PROVE  CallStates(v)
<1> PICK r : r = IF leaving THEN was ELSE ClearFault(was, flag)
  OBVIOUS
<1>1. /\ v \in Instances /\ g \in Group /\ g.state = group.state
      /\ inst \in [Instances -> Instance] /\ Sync \subseteq Instances
  BY ConfigAssumption DEF CallPre
<1>2. CallPost(v, r, rest)
  BY Zenon, TryUpLemma
<1>3. /\ Counts(inst', group')
      /\ r.flags_if_fault # {} \/ r.num_script_init # 0 => Stuck(inst', v)
  BY <1>2 DEF CallPost, Safe, Stuck
<1> DEFINE g1 == IF v \in Sync /\ ~leaving THEN [g EXCEPT !.num_member_fault = Dec(@)] ELSE g
           held == v \in Sync /\ (g1.num_member_fault # 0
                                    \/ (~leaving /\ g1.num_member_init # 0))
           new == Want(vrrp_state_leave_fault(Want(r, "BACK")), "BACK")
           back == [inst EXCEPT ![v] = new]
<1>4. g1.state = group.state
  BY <1>1 DEF Group
<1>5. v \in Sync => GroupStuck(inst)
  BY DEF GroupStuck
<1>6. CASE r.flags_if_fault # {}
  <2>1. inst' = [inst EXCEPT ![v] = r] /\ group' = g
    BY <1>6 DEF TryUpInstance
  <2> QED BY Zenon, <1>1, <1>3, <1>5, <1>6, <2>1 DEF CallStates, GroupStuck
<1>7. CASE r.flags_if_fault = {} /\ r.num_script_init # 0
  <2>1. /\ inst' = [inst EXCEPT ![v] = Want(r, "BACK")]
        /\ group' = IF v \in Sync
                    THEN [g EXCEPT !.num_member_fault = Dec(@), !.state = "INIT"] ELSE g
    BY <1>7 DEF TryUpInstance
  <2>2. group'.state = IF v \in Sync THEN "INIT" ELSE group.state
    BY <1>1, <2>1 DEF Group
  <2>3. \A u \in Instances \ {v} : inst'[u] = inst[u]
    BY <1>1, <2>1
  <2> QED BY <1>1, <1>3, <1>5, <1>7, <2>2, <2>3 DEF CallStates, GroupStuck
<1>8. CASE r.flags_if_fault = {} /\ r.num_script_init = 0 /\ held
  <2>1. inst' = [inst EXCEPT ![v] = Want(r, "BACK")] /\ group' = g1
    BY <1>8 DEF TryUpInstance
  <2>2. GroupStuck(inst')
    <3>1. Cardinality(FaultedIn(inst')) # 0 \/ Cardinality(StartingIn(inst')) # 0
      BY <1>3, <1>8, <2>1 DEF Counts
    <3>2. FaultedIn(inst') # {} \/ StartingIn(inst') # {}
      BY <3>1, FS_EmptySet
    <3> QED BY <3>2 DEF FaultedIn, StartingIn, GroupStuck, Stuck
  <2>3. \A u \in Instances \ {v} : inst'[u] = inst[u]
    BY <1>1, <2>1
  <2> QED BY <1>1, <1>4, <1>5, <1>8, <2>1, <2>2, <2>3 DEF CallStates
<1>9. CASE r.flags_if_fault = {} /\ r.num_script_init = 0 /\ ~held
  <2>1. /\ inst' = IF v \in Sync THEN SyncBackup(back, v) ELSE back
        /\ group' = IF v \in Sync THEN [g1 EXCEPT !.state = "BACK"] ELSE g1
    BY <1>9 DEF TryUpInstance
  <2>2. group'.state = IF v \in Sync THEN "BACK" ELSE group.state
    BY <1>1, <1>4, <2>1 DEF Group
  <2>3. r \in Instance
    BY Zenon, ClearFaultLemma DEF CallPre, TryUpPre
  <2>4. new \in Instance /\ new.state = "BACK"
    <3> DEFINE w == Want(r, "BACK")
               l == vrrp_state_leave_fault(w)
    <3>1. "BACK" \in States
      BY DEF States
    <3>2. r.state = "FAULT" /\ ~r.vipset
      <4>1. was \in Instance /\ was.state = "FAULT" /\ ~was.vipset
        BY <1>1 DEF CallPre, TryUpPre, Safe, Held
      <4>2. CASE leaving
        BY <4>1, <4>2
      <4>3. CASE ~leaving
        <5>1. r = ClearFault(was, flag) /\ (flag = "TRACKER" => was.num_track_fault # 0)
          BY <4>3 DEF TryUpPre
        <5>2. /\ ClearFault(was, flag).state = was.state
              /\ ClearFault(was, flag).vipset = was.vipset
          BY Zenon, <4>1, <5>1, ClearFaultLemma
        <5> QED BY Zenon, <4>1, <5>1, <5>2
      <4> QED BY <4>2, <4>3
    <3>3. w \in Instance /\ w.state = "FAULT" /\ ~w.vipset /\ w.wantstate = "BACK"
      BY <2>3, <3>1, <3>2, WantLemma
    <3> HIDE DEF w
    <3>4. l \in Instance /\ l.state = "BACK"
      BY Zenon, <3>3, LeaveFaultLemma
    <3> HIDE DEF l
    <3>5. Want(l, "BACK") \in Instance /\ Want(l, "BACK").state = "BACK"
      BY <3>1, <3>4, WantLemma
    <3> QED BY <3>5 DEF l, w
  <2> HIDE DEF new, g1, held
  <2>5. back[v] = new /\ \A u \in Instances \ {v} : back[u] = inst[u]
    BY <1>1
  <2> HIDE DEF back
  <2>6. back \in [Instances -> Instance]
    BY <1>1, <2>4 DEF back
  <2>7. v \in Sync =>
           /\ SyncBackup(back, v)[v] = back[v]
           /\ \A u \in Instances \ Sync : SyncBackup(back, v)[u] = back[u]
           /\ group.state # "BACK" =>
                 \A u \in Sync \ {v} : SyncBackup(back, v)[u].state = "BACK"
    BY <2>6, SyncBackupStates
  <2>8. \A u \in Instances \ (Sync \union {v}) : inst'[u] = inst[u]
    BY <2>1, <2>5, <2>7
  <2>9. CASE v \in Sync
    <3>1. \A u \in Sync : inst'[u].state = "BACK" \/ group.state = "BACK"
      BY <2>1, <2>4, <2>5, <2>7, <2>9
    <3> QED BY <1>5, <2>2, <2>8, <2>9, <3>1 DEF CallStates
  <2>10. CASE v \notin Sync
    <3>1. /\ \A u \in Sync : inst'[u] = inst[u]
          /\ inst'[v].state = "BACK"
      BY <1>1, <2>1, <2>4, <2>5, <2>10
    <3> QED BY <2>2, <2>8, <2>10, <3>1 DEF CallStates
  <2> QED BY <2>9, <2>10
<1> QED BY <1>6, <1>7, <1>8, <1>9

------------------------------------------------------------------------------
(* One round of the loops over the instances that track a link, a script or a *)
(* tracker, as a step of VrrpSyncGroup: what the instance knows afterwards.   *)
------------------------------------------------------------------------------
(* Frames.                                                                    *)

LEMMA TrackFrames ==
    ASSUME NEW f \in Frame, f.op = "track"
    PROVE  /\ f.obj \in Objects /\ f.ok \in BOOLEAN /\ f.init \in BOOLEAN
           /\ f.rest \in SUBSET Instances
           /\ \A v : LET h == [f EXCEPT !.rest = @ \ {v}] IN
                 /\ h \in Frame
                 /\ h.op = "track" /\ h.obj = f.obj /\ h.ok = f.ok /\ h.init = f.init
                 /\ h.rest = f.rest \ {v}
BY DEF Frame

LEMMA MasterFrames ==
    ASSUME NEW f \in Frame, f.op = "master"
    PROVE  /\ f.v \in Sync /\ f.rest \in SUBSET Sync
           /\ \A v : LET h == [f EXCEPT !.rest = @ \ {v}] IN
                 /\ h \in Frame
                 /\ h.op = "master" /\ h.v = f.v /\ h.rest = f.rest \ {v}
BY DEF Frame

LEMMA TsmFrames ==
    ASSUME NEW f \in Frame, f.op = "tsm"
    PROVE  f.v \in Instances
BY DEF Frame

LEMMA PushLemma ==
    ASSUME NEW f \in Frame, NEW s \in Seq(Frame)
    PROVE  LET q == Push(f, s) IN
           /\ q \in Seq(Frame) /\ q # <<>> /\ Head(q) = f /\ Tail(q) = s
           /\ Len(q) = Len(s) + 1 /\ q[1] = f
           /\ \A i \in 2 .. Len(q) : q[i] = s[i - 1]
BY DEF Push

LEMMA TailLemma ==
    ASSUME NEW s \in Seq(Frame), s # <<>>
    PROVE  /\ Tail(s) \in Seq(Frame) /\ Len(Tail(s)) = Len(s) - 1
           /\ Len(s) \in Nat /\ Len(s) > 0
           /\ Head(s) = s[1] /\ Head(s) \in Frame
           /\ \A i \in 1 .. Len(s) - 1 : Tail(s)[i] = s[i + 1]
           /\ Tail(s) # <<>> => Head(Tail(s)) = s[2] /\ Len(s) > 1
OBVIOUS

------------------------------------------------------------------------------
(* One round of a loop over the instances that track an object.               *)

LEMMA RemoveOne ==
    ASSUME NEW S, IsFiniteSet(S), NEW x \in S
    PROVE  /\ IsFiniteSet(S \ {x})
           /\ Cardinality(S) \in Nat /\ Cardinality(S \ {x}) \in Nat
           /\ Cardinality(S) = Cardinality(S \ {x}) + 1
<1>1. IsFiniteSet(S \ {x}) /\ Cardinality(S \ {x}) = Cardinality(S) - 1
  BY FS_RemoveElement
<1>2. Cardinality(S) \in Nat /\ Cardinality(S \ {x}) \in Nat
  BY <1>1, FS_CardinalityType
<1> QED BY <1>1, <1>2

LEMMA AddOne ==
    ASSUME NEW S, IsFiniteSet(S), NEW x
    PROVE  /\ IsFiniteSet(S \union {x})
           /\ Cardinality(S) \in Nat /\ Cardinality(S \union {x}) \in Nat
           /\ Cardinality(S \union {x}) <= Cardinality(S) + 1
<1>1. /\ IsFiniteSet(S \union {x})
      /\ Cardinality(S \union {x}) = Cardinality(S)
            \/ Cardinality(S \union {x}) = Cardinality(S) + 1
  <2>1. CASE x \in S
    <3>1. S \union {x} = S
      BY <2>1
    <3> QED BY <3>1
  <2>2. CASE x \notin S
    BY <2>2, FS_AddElement
  <2> QED BY <2>1, <2>2
<1>2. Cardinality(S) \in Nat
  BY FS_CardinalityType
<1> QED BY <1>1, <1>2

(* process_script_update_priority() counts the first result of a script. *)
LEMMA LeaveInitLemma ==
    ASSUME Safe(inst, group), NEW v \in Instances, inst[v].num_script_init # 0
    PROVE  LET was == [inst[v] EXCEPT !.num_script_init = Dec(@)]
               g == IF was.num_script_init = 0 /\ v \in Sync
                    THEN [group EXCEPT !.num_member_init = Dec(@)] ELSE group
           IN  /\ was \in Instance /\ g \in Group
               /\ was.state = "FAULT" /\ inst[v].state = "FAULT"
               /\ was.wantstate = inst[v].wantstate
               /\ was.flags_if_fault = inst[v].flags_if_fault
               /\ was.num_track_fault = inst[v].num_track_fault
               /\ was.num_script_init = inst[v].num_script_init - 1
               /\ g.state = group.state
               /\ Safe([inst EXCEPT ![v] = was], g)
<1> DEFINE n == inst[v].num_script_init - 1
           was == [inst[v] EXCEPT !.num_script_init = n]
           m == group.num_member_init - 1
           less == was.num_script_init = 0 /\ v \in Sync
           g == IF less THEN [group EXCEPT !.num_member_init = m] ELSE group
           ins == [inst EXCEPT ![v] = was]
<1>1. /\ Sync \subseteq Instances /\ Counts(inst, group)
      /\ inst \in [Instances -> Instance] /\ group \in Group
      /\ \A u \in Instances : Held(inst, u)
      /\ group.state = "FAULT" => AllFault(inst)
  BY ConfigAssumption DEF Safe
<1>2. n \in Nat /\ Dec(inst[v].num_script_init) = n
  BY <1>1 DEF Instance, Dec
<1>3. /\ was \in Instance
      /\ was.state = inst[v].state
      /\ was.wantstate = inst[v].wantstate
      /\ was.flags_if_fault = inst[v].flags_if_fault
      /\ was.num_track_fault = inst[v].num_track_fault
      /\ was.num_script_init = n
      /\ was.vipset = inst[v].vipset
  <2> HIDE DEF n
  <2> QED BY <1>1, <1>2 DEF Instance
<1>4. inst[v].state = "FAULT"
  BY <1>1 DEF Held
<1> HIDE DEF was
<1>5. /\ ins \in [Instances -> Instance] /\ ins[v] = was
      /\ \A u \in Instances \ {v} : ins[u] = inst[u]
  BY <1>1, <1>3
<1> HIDE DEF ins
<1>6. less => /\ Cardinality(StartingIn(ins)) = m
              /\ group.num_member_init # 0
  <2>1. SUFFICES ASSUME less
                 PROVE  Cardinality(StartingIn(ins)) = m /\ group.num_member_init # 0
    OBVIOUS
  <2>2. StartingIn(ins) = StartingIn(inst) \ {v} /\ v \in StartingIn(inst)
    BY <1>1, <1>5, <2>1 DEF StartingIn
  <2>3. Cardinality(StartingIn(inst)) = Cardinality(StartingIn(inst) \ {v}) + 1
    BY <2>2, CountedSets, RemoveOne
  <2>4. Cardinality(StartingIn(ins)) \in Nat
    BY CountedSets
  <2> QED BY <1>1, <2>2, <2>3, <2>4 DEF Counts
<1>7. ~less => StartingIn(ins) = StartingIn(inst)
  BY Zenon, <1>1, <1>3, <1>5 DEF StartingIn
<1>8. FaultedIn(ins) = FaultedIn(inst)
  <2>1. \A u \in Sync : (ins[u].flags_if_fault = {}) <=> (inst[u].flags_if_fault = {})
    BY <1>1, <1>3, <1>5
  <2> QED BY Zenon, <2>1, SameFaulted
<1>9. /\ g \in Group /\ g.state = group.state
      /\ g.num_member_fault = group.num_member_fault
      /\ g.num_member_init = IF less THEN m ELSE group.num_member_init
  <2>1. CASE less
    <3>1. m \in Nat /\ g = [group EXCEPT !.num_member_init = m]
      BY <1>1, <1>6, <2>1 DEF Group
    <3> HIDE DEF m, g
    <3> QED BY <1>1, <2>1, <3>1 DEF Group
  <2>2. CASE ~less
    BY <1>1, <2>2
  <2> QED BY <2>1, <2>2
<1>10. g = IF less THEN [group EXCEPT !.num_member_init = Dec(@)] ELSE group
  <2>1. less => Dec(group.num_member_init) = m
    BY <1>1, <1>6 DEF Group, Dec
  <2> QED BY <2>1
<1> HIDE DEF g, less, m
<1>11. Counts(ins, g)
  BY <1>1, <1>6, <1>7, <1>8, <1>9 DEF Counts
<1>12. AllFault(inst) => AllFault(ins)
  BY <1>1, <1>3, <1>5 DEF AllFault
<1>13. \A u \in Instances : Held(ins, u)
  BY <1>1, <1>3, <1>4, <1>5, <1>12 DEF Held
<1>14. Safe(ins, g)
  BY <1>1, <1>5, <1>9, <1>11, <1>12, <1>13 DEF Safe
<1>15. was = [inst[v] EXCEPT !.num_script_init = Dec(@)]
  BY <1>2 DEF was
<1> QED BY Zenon, <1>3, <1>4, <1>9, <1>10, <1>14, <1>15 DEF ins, less, n

(* What the round of the loop for v does to the flags and counters of v. *)
Heard(v, f) ==
    LET i == inst[v]
        j == inst'[v]
        good == StatusOk(v, f.obj, f.ok)
        none == j.flags_if_fault = i.flags_if_fault /\ j.num_track_fault = i.num_track_fault
    IN  /\ f.obj \in Links =>
              /\ j.flags_if_fault = IF good THEN i.flags_if_fault \ {LinkFlag[f.obj]}
                                    ELSE i.flags_if_fault \union {LinkFlag[f.obj]}
              /\ j.num_track_fault = i.num_track_fault
        /\ f.obj \notin Links /\ ~good =>
              /\ j.flags_if_fault = i.flags_if_fault \union {"TRACKER"}
              /\ j.num_track_fault = i.num_track_fault + 1
        /\ f.obj \notin Links /\ good /\ ~f.init =>
              \/ /\ none /\ f.obj \in Scripts
                 /\ i.num_script_init # 0 \/ (v \in Sync /\ group.num_member_init # 0)
              \/ /\ j.num_track_fault = i.num_track_fault - 1
                 /\ j.flags_if_fault = IF j.num_track_fault = 0
                                       THEN i.flags_if_fault \ {"TRACKER"} ELSE i.flags_if_fault
        /\ f.obj \notin Links /\ good /\ f.init => none
        /\ j.num_script_init = IF f.init THEN i.num_script_init - 1 ELSE i.num_script_init

(* What KnownInv says of the instance that is about to hear of the change. *)
LEMMA BeforeHearing ==
    ASSUME IndInv, Running("track"), NEW v \in Head(stack).rest
    PROVE  LET f == Head(stack) IN
           /\ v \in Instances /\ f.obj \in Objects /\ v \in TrackedBy[f.obj]
           /\ f.ok \in BOOLEAN /\ f.init \in BOOLEAN
           /\ f.obj \in Links /\ StatusOk(v, f.obj, f.ok) =>
                 LinkFlag[f.obj] \in inst[v].flags_if_fault
           /\ f.obj \notin Links /\ StatusOk(v, f.obj, f.ok) /\ ~f.init =>
                 inst[v].num_track_fault # 0 /\ "TRACKER" \in inst[v].flags_if_fault
           /\ f.init => f.obj \in Scripts /\ inst[v].num_script_init # 0
<1> DEFINE f == Head(stack)
<1>1. /\ stack \in Seq(Frame) /\ stack # <<>> /\ f \in Frame /\ f.op = "track"
  BY TailLemma DEF IndInv, StackInv, Shape, MastersLead, Running
<1>2. /\ f.obj \in Objects /\ f.ok \in BOOLEAN /\ f.init \in BOOLEAN
      /\ f.rest \in SUBSET Instances
  BY <1>1, TrackFrames
<1>3. f.rest \subseteq TrackedBy[f.obj] /\ (f.obj \notin Scripts => ~f.init)
  BY DEF IndInv, TrackInv
<1>4. Pending(v, f.obj)
  BY DEF Pending
<1>5. KnownFail(v, f.obj) <=> ~f.init /\ StatusOk(v, f.obj, f.ok)
  BY <1>4 DEF KnownFail
<1>6. f.obj \in Links /\ StatusOk(v, f.obj, f.ok) => LinkFlag[f.obj] \in inst[v].flags_if_fault
  <2>1. f.obj \in Links => ~f.init
    BY <1>3, ConfigAssumption
  <2> QED BY <1>3, <1>5, <2>1 DEF IndInv, KnownInv
<1>7. /\ IsFiniteSet(FailedTrackers(v)) /\ IsFiniteSet(WaitsFor(v))
      /\ Cardinality(FailedTrackers(v)) \in Nat /\ Cardinality(WaitsFor(v)) \in Nat
  <2>1. FailedTrackers(v) \subseteq Objects /\ WaitsFor(v) \subseteq Objects
    BY DEF FailedTrackers, WaitsFor, Objects
  <2> QED BY <2>1, ConfigAssumption, FS_Subset, FS_CardinalityType
<1>8. /\ inst[v].num_track_fault >= Cardinality(FailedTrackers(v))
      /\ ("TRACKER" \in inst[v].flags_if_fault) = (inst[v].num_track_fault # 0)
      /\ inst[v].num_script_init = Cardinality(WaitsFor(v))
  BY <1>2 DEF IndInv, KnownInv
<1>9. inst[v].num_track_fault \in Nat
  BY <1>2 DEF IndInv, Safe, Instance
<1>10. f.obj \notin Links /\ StatusOk(v, f.obj, f.ok) /\ ~f.init =>
          inst[v].num_track_fault # 0 /\ "TRACKER" \in inst[v].flags_if_fault
  <2>1. SUFFICES ASSUME f.obj \notin Links /\ StatusOk(v, f.obj, f.ok) /\ ~f.init
                 PROVE  inst[v].num_track_fault # 0
    BY <1>8
  <2>2. f.obj \in FailedTrackers(v)
    BY <1>2, <1>3, <1>5, <2>1 DEF FailedTrackers, Objects
  <2>3. Cardinality(FailedTrackers(v)) # 0
    BY <1>7, <2>2, FS_EmptySet
  <2> QED BY <1>7, <1>8, <1>9, <2>3
<1>11. f.init => f.obj \in Scripts /\ inst[v].num_script_init # 0
  <2>1. SUFFICES ASSUME f.init
                 PROVE  f.obj \in Scripts /\ inst[v].num_script_init # 0
    OBVIOUS
  <2>2. f.obj \in WaitsFor(v)
    BY <1>2, <1>3, <1>4, <2>1 DEF WaitsFor, KnownInit
  <2>3. Cardinality(WaitsFor(v)) # 0
    BY <1>7, <2>2, FS_EmptySet
  <2> QED BY <1>3, <1>8, <2>1, <2>3
<1> QED BY <1>2, <1>3, <1>6, <1>10, <1>11

LEMMA StatusUpdateLemma ==
    ASSUME Owners = {}, IndInv, Running("track"), NEW v \in Head(stack).rest, NEW rest,
           Head(stack).obj \notin Scripts,
           StatusUpdate(v, Head(stack).obj, Head(stack).ok, rest)
    PROVE  Safe(inst', group') /\ stack' = rest /\ Heard(v, Head(stack)) /\ Others(v)
           /\ CallStates(v)
<1> DEFINE f == Head(stack)
           i == inst[v]
           flag == IF f.obj \in Links THEN LinkFlag[f.obj] ELSE "TRACKER"
<1>1. /\ v \in Instances /\ f.obj \in Objects /\ v \in TrackedBy[f.obj]
      /\ f.ok \in BOOLEAN /\ f.init \in BOOLEAN
      /\ f.obj \in Links /\ StatusOk(v, f.obj, f.ok) => LinkFlag[f.obj] \in i.flags_if_fault
      /\ f.obj \notin Links /\ StatusOk(v, f.obj, f.ok) /\ ~f.init =>
            i.num_track_fault # 0 /\ "TRACKER" \in i.flags_if_fault
      /\ f.init => f.obj \in Scripts /\ i.num_script_init # 0
  BY BeforeHearing
<1>2. /\ inst \in [Instances -> Instance] /\ group \in Group /\ i \in Instance
      /\ Safe(inst, group) /\ ~f.init
  BY <1>1 DEF IndInv, Safe
<1>3. inst = [inst EXCEPT ![v] = i]
  BY <1>1, <1>2
<1>4. flag \in Flags /\ (flag = "TRACKER" <=> f.obj \notin Links)
  BY ConfigAssumption DEF Flags, LinkFlags
<1>5. CallPre(v, i, group)
  BY ZenonT(40), <1>1, <1>2, <1>3 DEF CallPre
<1>6. CASE ~StatusOk(v, f.obj, f.ok)
  <2> DEFINE r == set_fault(i, flag)
  <2>1. DownInstance(v, flag, i, group, rest)
    BY <1>6 DEF StatusUpdate
  <2> HIDE DEF f, i, flag
  <2>2. CallPost(v, r, rest)
    BY <1>4, <1>5, <2>1, DownLemma
  <2>3. /\ r.flags_if_fault = i.flags_if_fault \union {flag}
        /\ r.num_track_fault = IF flag = "TRACKER" THEN i.num_track_fault + 1
                               ELSE i.num_track_fault
        /\ r.num_script_init = i.num_script_init
    BY <1>2, <1>4, SetFaultLemma
  <2> HIDE DEF r
  <2>4. Heard(v, f)
    BY Zenon, <1>2, <1>4, <1>6, <2>2, <2>3 DEF CallPost, Heard, i, flag
  <2>5. CallStates(v)
    BY Zenon, <1>4, <1>5, <2>1, DownStates DEF i
  <2> QED BY <2>2, <2>4, <2>5 DEF CallPost, f
<1>7. CASE StatusOk(v, f.obj, f.ok)
  <2> DEFINE c == ClearFault(i, flag)
             r == IF FALSE THEN i ELSE c
  <2>1. TryUpInstance(v, FALSE, flag, i, group, rest)
    BY Zenon, <1>7 DEF StatusUpdate
  <2>2. flag \in i.flags_if_fault /\ (flag = "TRACKER" => i.num_track_fault # 0)
    BY ZenonT(40), <1>1, <1>2, <1>4, <1>7
  <2>3. i.state = "FAULT"
    BY <1>1, <1>2, <2>2 DEF Safe, Held
  <2>4. TryUpPre(v, FALSE, flag, i, group)
    BY <2>2, <2>3 DEF TryUpPre
  <2> HIDE DEF f, i, flag
  <2>5. CallPost(v, r, rest)
    BY Zenon, <1>4, <1>5, <2>1, <2>4, TryUpLemma
  <2>6. /\ r.num_track_fault = IF flag = "TRACKER" THEN i.num_track_fault - 1
                               ELSE i.num_track_fault
        /\ r.flags_if_fault = IF flag = "TRACKER" /\ r.num_track_fault # 0
                              THEN i.flags_if_fault ELSE i.flags_if_fault \ {flag}
        /\ r.num_script_init = i.num_script_init
    BY <1>2, <1>4, <2>2, ClearFaultLemma
  <2> HIDE DEF r
  <2>7. Heard(v, f)
    <3>1. /\ inst'[v].flags_if_fault = r.flags_if_fault
          /\ inst'[v].num_track_fault = r.num_track_fault
          /\ inst'[v].num_script_init = r.num_script_init
      BY <2>5 DEF CallPost
    <3>2. ~f.init
      BY <1>2
    <3>3. CASE f.obj \in Links
      <4>1. flag = LinkFlag[f.obj] /\ flag # "TRACKER"
        BY <1>4, <3>3 DEF flag
      <4> QED BY ZenonT(40), <1>7, <2>6, <3>1, <3>2, <3>3, <4>1 DEF Heard, i
    <3>4. CASE f.obj \notin Links
      <4>1. flag = "TRACKER"
        BY <1>4, <3>4
      <4> QED BY ZenonT(40), <1>7, <2>6, <3>1, <3>2, <3>4, <4>1 DEF Heard, i
    <3> QED BY <3>3, <3>4
  <2>8. CallStates(v)
    <3>1. Stuck(inst, v)
      BY Zenon, <2>2 DEF Stuck, i
    <3> QED BY Zenon, <1>4, <1>5, <2>1, <2>4, <3>1, TryUpStates
  <2> QED BY <2>5, <2>7, <2>8 DEF CallPost, f
<1> QED BY <1>6, <1>7

(* An instance that heard that a script, process or file is well again. *)
LEMMA HeardGood ==
    ASSUME NEW v, NEW f, f.obj \notin Links, StatusOk(v, f.obj, f.ok), ~f.init,
           inst'[v].num_track_fault = inst[v].num_track_fault - 1,
           inst'[v].flags_if_fault = IF inst'[v].num_track_fault = 0
                                     THEN inst[v].flags_if_fault \ {"TRACKER"}
                                     ELSE inst[v].flags_if_fault,
           inst'[v].num_script_init = inst[v].num_script_init
    PROVE  Heard(v, f)
BY Zenon DEF Heard

LEMMA ScriptUpdateLemma ==
    ASSUME Owners = {}, IndInv, Running("track"), NEW v \in Head(stack).rest, NEW rest,
           Head(stack).obj \in Scripts,
           ScriptUpdate(v, Head(stack).obj, Head(stack).ok, Head(stack).init, rest)
    PROVE  Safe(inst', group') /\ stack' = rest /\ Heard(v, Head(stack)) /\ Others(v)
           /\ CallStates(v)
<1> DEFINE f == Head(stack)
           i == inst[v]
           was == IF f.init THEN [inst[v] EXCEPT !.num_script_init = Dec(@)] ELSE inst[v]
           left == f.init /\ was.num_script_init = 0
           g == IF left /\ v \in Sync
                THEN [group EXCEPT !.num_member_init = Dec(@)] ELSE group
<1>1. /\ v \in Instances /\ f.init \in BOOLEAN
      /\ StatusOk(v, f.obj, f.ok) /\ ~f.init =>
            i.num_track_fault # 0 /\ "TRACKER" \in i.flags_if_fault
      /\ f.init => i.num_script_init # 0
      /\ f.obj \notin Links
  <2>1. f.obj \notin Links
    BY ConfigAssumption
  <2> QED BY <2>1, BeforeHearing
<1>2. /\ inst \in [Instances -> Instance] /\ group \in Group /\ i \in Instance
      /\ Safe(inst, group)
  BY <1>1 DEF IndInv, Safe
<1>3. "TRACKER" \in Flags
  BY DEF Flags
<1>4. /\ was \in Instance /\ g \in Group
      /\ was.state = i.state
      /\ f.init => was.state = "FAULT"
      /\ was.wantstate = i.wantstate
      /\ was.flags_if_fault = i.flags_if_fault
      /\ was.num_track_fault = i.num_track_fault
      /\ was.num_script_init = IF f.init THEN i.num_script_init - 1 ELSE i.num_script_init
      /\ g.state = group.state
      /\ Safe([inst EXCEPT ![v] = was], g)
  <2>1. CASE f.init
    BY Zenon, <1>1, <1>2, <2>1, LeaveInitLemma
  <2>2. CASE ~f.init
    <3>1. was = inst[v] /\ g = group /\ inst = [inst EXCEPT ![v] = was]
      BY <1>1, <1>2, <2>2
    <3> HIDE DEF was, g
    <3> QED BY Zenon, <1>2, <2>2, <3>1
  <2> QED BY <2>1, <2>2
<1>5. CallPre(v, was, g)
  <2> HIDE DEF was, g
  <2> QED BY <1>1, <1>2, <1>4 DEF CallPre
<1>6. CASE ~StatusOk(v, f.obj, f.ok)
  <2> DEFINE r == set_fault(was, "TRACKER")
  <2>1. DownInstance(v, "TRACKER", was, g, rest)
    BY <1>6 DEF ScriptUpdate
  <2> HIDE DEF f, i, was, g
  <2>2. CallPost(v, r, rest)
    BY <1>3, <1>5, <2>1, DownLemma
  <2>3. /\ r.flags_if_fault = was.flags_if_fault \union {"TRACKER"}
        /\ r.num_track_fault = was.num_track_fault + 1
        /\ r.num_script_init = was.num_script_init
    BY <1>3, <1>4, SetFaultLemma
  <2> HIDE DEF r
  <2>4. Heard(v, f)
    BY Zenon, <1>1, <1>4, <1>6, <2>2, <2>3 DEF CallPost, Heard, i
  <2>5. CallStates(v)
    BY Zenon, <1>3, <1>4, <1>5, <2>1, DownStates DEF i
  <2> QED BY <2>2, <2>4, <2>5 DEF CallPost, f
<1>7. CASE StatusOk(v, f.obj, f.ok) /\ was.num_script_init = 0
              /\ (v \in Sync => g.num_member_init = 0)
  <2> DEFINE c == ClearFault(was, "TRACKER")
             r == IF left THEN was ELSE c
  <2>1. TryUpInstance(v, left, "TRACKER", was, g, rest)
    BY <1>7 DEF ScriptUpdate
  <2>2. left = f.init /\ left \in BOOLEAN
    BY <1>1, <1>7
  <2>3. /\ ~left => "TRACKER" \in was.flags_if_fault /\ was.num_track_fault # 0
        /\ was.state = "FAULT"
    <3>1. i.flags_if_fault # {} => i.state = "FAULT"
      BY <1>1, <1>2 DEF Safe, Held
    <3> HIDE DEF was, g, f, left
    <3> QED BY <1>1, <1>4, <1>7, <2>2, <3>1
  <2> HIDE DEF f, i, was, g, left
  <2>4. TryUpPre(v, left, "TRACKER", was, g)
    BY <1>7, <2>2, <2>3 DEF TryUpPre
  <2>5. CallPost(v, r, rest) /\ CallStates(v)
    <3>1. Stuck(inst, v)
      BY Zenon, <1>1, <1>4, <2>2, <2>3 DEF Stuck, i
    <3> QED BY <1>3, <1>5, <2>1, <2>4, <3>1, TryUpLemma, TryUpStates
  <2>6. CASE ~left
    <3>1. /\ c.num_track_fault = was.num_track_fault - 1
          /\ c.flags_if_fault = IF c.num_track_fault # 0
                                THEN was.flags_if_fault ELSE was.flags_if_fault \ {"TRACKER"}
          /\ c.num_script_init = was.num_script_init
      BY <1>3, <1>4, <2>3, <2>6, ClearFaultLemma
    <3>2. CallPost(v, c, rest)
      BY <2>5, <2>6
    <3> HIDE DEF c
    <3>3. Heard(v, f)
      <4>1. f.obj \notin Links /\ StatusOk(v, f.obj, f.ok) /\ ~f.init
        BY Zenon, <1>1, <1>7, <2>2, <2>6
      <4>2. /\ inst'[v].num_track_fault = c.num_track_fault
            /\ inst'[v].flags_if_fault = c.flags_if_fault
            /\ inst'[v].num_script_init = c.num_script_init
        BY Zenon, <3>2 DEF CallPost
      <4>3. /\ was.num_track_fault = inst[v].num_track_fault
            /\ was.flags_if_fault = inst[v].flags_if_fault
            /\ was.num_script_init = inst[v].num_script_init
        BY Zenon, <1>4, <4>1 DEF i
      <4>4. c.flags_if_fault = IF c.num_track_fault = 0
                               THEN was.flags_if_fault \ {"TRACKER"} ELSE was.flags_if_fault
        BY Zenon, <3>1
      <4>5. /\ inst'[v].num_track_fault = inst[v].num_track_fault - 1
            /\ inst'[v].num_script_init = inst[v].num_script_init
        BY Zenon, <3>1, <4>2, <4>3
      <4>6. inst'[v].flags_if_fault = IF inst'[v].num_track_fault = 0
                                      THEN inst[v].flags_if_fault \ {"TRACKER"}
                                      ELSE inst[v].flags_if_fault
        BY Zenon, <4>2, <4>3, <4>4
      <4> QED BY Zenon, <4>1, <4>5, <4>6, HeardGood
    <3> QED BY <2>5, <3>2, <3>3 DEF CallPost, f
  <2>7. CASE left
    <3>1. CallPost(v, was, rest)
      BY <2>5, <2>7
    <3>2. Heard(v, f)
      BY ZenonT(60), <1>1, <1>4, <1>7, <2>2, <2>7, <3>1 DEF CallPost, Heard, i
    <3> QED BY <2>5, <3>1, <3>2 DEF CallPost, f
  <2> QED BY Zenon, <2>6, <2>7
<1>8. CASE StatusOk(v, f.obj, f.ok) /\ ~(was.num_script_init = 0
              /\ (v \in Sync => g.num_member_init = 0))
  <2>1. inst' = [inst EXCEPT ![v] = was] /\ group' = g /\ stack' = rest
    BY <1>8 DEF ScriptUpdate
  <2> HIDE DEF f, i, was, g, left
  <2>2. Safe(inst', group')
    BY <1>4, <2>1
  <2>3. inst'[v] = was /\ \A u \in Instances \ {v} : inst'[u] = inst[u]
    BY <1>1, <1>2, <1>4, <2>1
  <2>4. Heard(v, f)
    <3>1. ~f.init => was = i /\ g = group
      BY DEF was, g, left, i
    <3>2. f.obj \in Scripts
      BY DEF f
    <3>3. /\ inst'[v].flags_if_fault = inst[v].flags_if_fault
          /\ inst'[v].num_track_fault = inst[v].num_track_fault
          /\ inst'[v].num_script_init = IF f.init THEN inst[v].num_script_init - 1
                                        ELSE inst[v].num_script_init
      BY <1>4, <2>3 DEF i
    <3>4. ~f.init => inst[v].num_script_init # 0 \/ (v \in Sync /\ group.num_member_init # 0)
      BY <1>8, <3>1 DEF i
    <3> QED BY Zenon, <1>1, <1>8, <3>2, <3>3, <3>4 DEF Heard
  <2>5. Others(v)
    BY <1>4, <2>1, <2>3 DEF Others, Leads, i
  <2>6. CallStates(v)
    <3>1. Stuck(inst, v)
      BY Zenon, <1>1, <1>8 DEF Stuck, i
    <3>2. was.num_script_init # 0 => Stuck(inst', v)
      BY <2>3 DEF Stuck
    <3>3. v \in Sync => GroupStuck(inst')
      <4>1. SUFFICES ASSUME v \in Sync, g.num_member_init # 0
                     PROVE  GroupStuck(inst')
        BY <1>8, <3>2 DEF GroupStuck
      <4>2. Cardinality(StartingIn(inst')) # 0
        BY <2>1, <2>2, <4>1 DEF Safe, Counts
      <4>3. StartingIn(inst') # {}
        BY <4>2, FS_EmptySet
      <4> QED BY <4>3 DEF StartingIn, GroupStuck, Stuck
    <3>4. group'.state = group.state /\ Sync \subseteq Instances
      BY <1>4, <2>1, ConfigAssumption
    <3>5. v \in Sync => GroupStuck(inst)
      BY <3>1 DEF GroupStuck
    <3> QED BY Zenon, <1>8, <2>3, <3>2, <3>3, <3>4, <3>5 DEF CallStates
  <2> QED BY <2>1, <2>2, <2>4, <2>5, <2>6 DEF f
<1> QED BY <1>6, <1>7, <1>8

(* After the round for v only what v knows of the object has changed. *)
LEMMA LoopKnown ==
    ASSUME IndInv, Running("track"), NEW f, f = Head(stack), NEW v \in f.rest,
           stack' = Push([f EXCEPT !.rest = @ \ {v}], Tail(stack)),
           script' = script, up' = up
    PROVE  /\ TrackInv'
           /\ \A u \in Instances : \A obj \in Objects : ~(u = v /\ obj = f.obj) =>
                 /\ KnownFail(u, obj)' <=> KnownFail(u, obj)
                 /\ KnownInit(u, obj)' <=> KnownInit(u, obj)
           /\ KnownFail(v, f.obj) <=> ~f.init /\ StatusOk(v, f.obj, f.ok)
           /\ KnownFail(v, f.obj)' <=> ~StatusOk(v, f.obj, f.ok)
           /\ KnownInit(v, f.obj) <=> f.init
           /\ f.obj \in Scripts => ~KnownInit(v, f.obj)'
<1> DEFINE h == [f EXCEPT !.rest = @ \ {v}]
<1>1. /\ stack \in Seq(Frame) /\ stack # <<>> /\ f \in Frame /\ f.op = "track"
      /\ Tail(stack) \in Seq(Frame)
  BY TailLemma DEF IndInv, StackInv, Shape, MastersLead, Running
<1>2. /\ f.obj \in Objects /\ f.ok \in BOOLEAN /\ f.init \in BOOLEAN
      /\ f.rest \in SUBSET Instances
      /\ h \in Frame
      /\ h.op = "track" /\ h.obj = f.obj /\ h.ok = f.ok /\ h.init = f.init
      /\ h.rest = f.rest \ {v}
  BY Zenon, <1>1, TrackFrames
<1>3. /\ f.rest \subseteq TrackedBy[f.obj]
      /\ f.obj \in Scripts => f.ok = ScriptOk(f.obj) /\ script[f.obj].init_state = "DONE"
      /\ f.obj \notin Scripts => f.ok = up[f.obj] /\ ~f.init
  BY DEF IndInv, TrackInv
<1>4. stack' = Push(h, Tail(stack))
  OBVIOUS
<1> HIDE DEF h
<1>5. stack' # <<>> /\ Head(stack') = h
  <2>1. Push(h, Tail(stack)) # <<>> /\ Head(Push(h, Tail(stack))) = h
    BY Zenon, <1>1, <1>2, PushLemma
  <2> QED BY <1>4, <2>1
<1>6. TrackInv'
  BY <1>2, <1>3, <1>5 DEF TrackInv, ScriptOk
<1>7. \A u \in Instances : \A obj \in Objects :
         Pending(u, obj)' <=> Pending(u, obj) /\ ~(u = v /\ obj = f.obj)
  BY <1>1, <1>2, <1>5 DEF Pending, Running
<1>8. \A u \in Instances : \A obj \in Objects : ~(u = v /\ obj = f.obj) =>
         /\ KnownFail(u, obj)' <=> KnownFail(u, obj)
         /\ KnownInit(u, obj)' <=> KnownInit(u, obj)
  <2>1. SUFFICES ASSUME NEW u \in Instances, NEW obj \in Objects, ~(u = v /\ obj = f.obj)
                 PROVE  /\ KnownFail(u, obj)' <=> KnownFail(u, obj)
                        /\ KnownInit(u, obj)' <=> KnownInit(u, obj)
    OBVIOUS
  <2>2. Pending(u, obj)' <=> Pending(u, obj)
    BY <1>7, <2>1
  <2>3. KnownFail(u, obj)' <=> KnownFail(u, obj)
    BY <1>2, <1>5, <2>2 DEF KnownFail, ScriptOk
  <2>4. KnownInit(u, obj)' <=> KnownInit(u, obj)
    BY <1>2, <1>5, <2>2 DEF KnownInit
  <2> QED BY <2>3, <2>4
<1>9. Pending(v, f.obj)
  BY DEF Pending
<1>10. ~Pending(v, f.obj)'
  BY <1>2, <1>7
<1>11. KnownFail(v, f.obj) <=> ~f.init /\ StatusOk(v, f.obj, f.ok)
  BY <1>9 DEF KnownFail
<1>12. KnownInit(v, f.obj) <=> f.init
  BY <1>9 DEF KnownInit
<1>13. KnownFail(v, f.obj)' <=> ~StatusOk(v, f.obj, f.ok)
  BY <1>3, <1>10 DEF KnownFail, ScriptOk
<1>14. f.obj \in Scripts => ~KnownInit(v, f.obj)'
  BY <1>3, <1>10 DEF KnownInit
<1> QED BY <1>6, <1>8, <1>11, <1>12, <1>13, <1>14

(* The sets of trackers an instance knows of are finite. *)
LEMMA KnownFinite ==
    ASSUME NEW v
    PROVE  /\ FailedTrackers(v) \subseteq Objects /\ WaitsFor(v) \subseteq Objects
           /\ IsFiniteSet(FailedTrackers(v)) /\ IsFiniteSet(WaitsFor(v))
           /\ Cardinality(FailedTrackers(v)) \in Nat /\ Cardinality(WaitsFor(v)) \in Nat
<1>1. FailedTrackers(v) \subseteq Objects /\ WaitsFor(v) \subseteq Objects
  BY DEF FailedTrackers, WaitsFor, Objects
<1> QED BY <1>1, ConfigAssumption, FS_Subset, FS_CardinalityType

(* The numbers of trackers of an instance that has just heard of one. *)
LEMMA HeardTrackers ==
    ASSUME NEW S, IsFiniteSet(S), NEW T, NEW obj, NEW n \in Nat, NEW m \in Nat,
           n >= Cardinality(S),
           \/ T = S /\ m = n
           \/ T \subseteq S \union {obj} /\ m = n + 1
           \/ T = S \ {obj} /\ m = n
           \/ T = S \ {obj} /\ obj \in S /\ m = n - 1
    PROVE  m >= Cardinality(T)
<1>1. CASE T = S /\ m = n
  BY <1>1
<1>2. CASE T \subseteq S \union {obj} /\ m = n + 1
  <2>1. /\ IsFiniteSet(S \union {obj})
        /\ Cardinality(S \union {obj}) \in Nat /\ Cardinality(S) \in Nat
        /\ Cardinality(S \union {obj}) <= Cardinality(S) + 1
    BY AddOne
  <2>2. Cardinality(T) <= Cardinality(S \union {obj}) /\ Cardinality(T) \in Nat
    BY <1>2, <2>1, FS_Subset, FS_CardinalityType
  <2> QED BY <1>2, <2>1, <2>2
<1>3. CASE T = S \ {obj} /\ m = n
  <2>1. Cardinality(T) <= Cardinality(S) /\ Cardinality(T) \in Nat /\ Cardinality(S) \in Nat
    BY <1>3, FS_Subset, FS_CardinalityType
  <2> QED BY <1>3, <2>1
<1>4. CASE T = S \ {obj} /\ obj \in S /\ m = n - 1
  <2>1. /\ Cardinality(S) \in Nat /\ Cardinality(S \ {obj}) \in Nat
        /\ Cardinality(S) = Cardinality(S \ {obj}) + 1
    BY <1>4, RemoveOne
  <2> QED BY <1>4, <2>1
<1> QED BY <1>1, <1>2, <1>3, <1>4

(* The round for v keeps the flags and the counters in step with what the      *)
(* instances know.                                                             *)
LEMMA LoopKeepsKnown ==
    ASSUME OneLinkPerFlag, IndInv, Running("track"), NEW f, f = Head(stack), NEW v \in f.rest,
           inst' \in [Instances -> Instance],
           stack' = Push([f EXCEPT !.rest = @ \ {v}], Tail(stack)),
           script' = script, up' = up,
           Heard(v, f), Others(v)
    PROVE  KnownInv' /\ TrackInv'
<1>1. /\ TrackInv'
      /\ \A u \in Instances : \A obj \in Objects : ~(u = v /\ obj = f.obj) =>
            /\ KnownFail(u, obj)' <=> KnownFail(u, obj)
            /\ KnownInit(u, obj)' <=> KnownInit(u, obj)
      /\ KnownFail(v, f.obj) <=> ~f.init /\ StatusOk(v, f.obj, f.ok)
      /\ KnownFail(v, f.obj)' <=> ~StatusOk(v, f.obj, f.ok)
      /\ KnownInit(v, f.obj) <=> f.init
      /\ f.obj \in Scripts => ~KnownInit(v, f.obj)'
  BY LoopKnown
<1>2. /\ v \in Instances /\ f.obj \in Objects /\ v \in TrackedBy[f.obj]
      /\ f.ok \in BOOLEAN /\ f.init \in BOOLEAN
      /\ f.init => f.obj \in Scripts
      /\ f.obj \notin Links /\ StatusOk(v, f.obj, f.ok) /\ ~f.init =>
            inst[v].num_track_fault # 0 /\ "TRACKER" \in inst[v].flags_if_fault
  BY BeforeHearing
<1>3. /\ inst \in [Instances -> Instance]
      /\ \A l \in Links : \A u \in TrackedBy[l] :
            (LinkFlag[l] \in inst[u].flags_if_fault) <=> KnownFail(u, l)
      /\ \A u \in Instances :
            /\ inst[u].num_track_fault >= Cardinality(FailedTrackers(u))
            /\ ("TRACKER" \in inst[u].flags_if_fault) <=> (inst[u].num_track_fault # 0)
            /\ inst[u].num_script_init = Cardinality(WaitsFor(u))
  BY DEF IndInv, Safe, KnownInv
<1>4. /\ \A u \in Instances \ {v} :
            /\ inst'[u].flags_if_fault = inst[u].flags_if_fault
            /\ inst'[u].num_track_fault = inst[u].num_track_fault
            /\ inst'[u].num_script_init = inst[u].num_script_init
  BY DEF Others
<1>5. /\ Links \subseteq Objects /\ Scripts \subseteq Objects /\ Trackers \subseteq Objects
      /\ Links \intersect (Scripts \union Trackers) = {}
      /\ f.obj \in Links \/ f.obj \in Scripts \union Trackers
      /\ \A l \in Links : LinkFlag[l] # "TRACKER"
      /\ \A o \in Objects : TrackedBy[o] \subseteq Instances
  BY <1>2, ConfigAssumption DEF Objects, LinkFlags
<1>6. ASSUME NEW l \in Links, NEW u \in TrackedBy[l]
      PROVE  (LinkFlag[l] \in inst'[u].flags_if_fault) <=> KnownFail(u, l)'
  <2>1. u \in Instances /\ l \in Objects
    BY <1>5
  <2>2. CASE u # v
    BY <1>1, <1>3, <1>4, <2>1, <2>2
  <2>3. CASE u = v /\ l = f.obj
    BY <1>1, <2>3 DEF Heard
  <2>4. CASE u = v /\ l # f.obj /\ f.obj \in Links
    <3>1. LinkFlag[l] # LinkFlag[f.obj]
      BY <1>2, <2>4 DEF OneLinkPerFlag
    <3>2. LinkFlag[l] \in inst'[v].flags_if_fault <=> LinkFlag[l] \in inst[v].flags_if_fault
      BY <2>4, <3>1 DEF Heard
    <3> QED BY <1>1, <1>3, <2>1, <2>4, <3>2
  <2>5. CASE u = v /\ l # f.obj /\ f.obj \notin Links
    <3>1. LinkFlag[l] \in inst'[v].flags_if_fault <=> LinkFlag[l] \in inst[v].flags_if_fault
      BY <1>2, <1>5, <2>5 DEF Heard
    <3> QED BY <1>1, <1>3, <2>1, <2>5, <3>1
  <2> QED BY <2>2, <2>3, <2>4, <2>5
<1>7. ASSUME NEW u \in Instances
      PROVE  /\ inst'[u].num_track_fault >= Cardinality(FailedTrackers(u)')
             /\ ("TRACKER" \in inst'[u].flags_if_fault) <=> (inst'[u].num_track_fault # 0)
             /\ inst'[u].num_script_init = Cardinality(WaitsFor(u)')
  <2>1. CASE u # v
    <3>1. FailedTrackers(u)' = FailedTrackers(u)
      BY <1>1, <1>5, <2>1 DEF FailedTrackers
    <3>2. WaitsFor(u)' = WaitsFor(u)
      BY <1>1, <1>5, <2>1 DEF WaitsFor
    <3> QED BY <1>3, <1>4, <2>1, <3>1, <3>2
  <2>2. CASE u = v
    <3>1. inst'[v].num_script_init = Cardinality(WaitsFor(v)')
      <4>1. CASE f.init
        <5>1. WaitsFor(v)' = WaitsFor(v) \ {f.obj} /\ f.obj \in WaitsFor(v)
          BY <1>1, <1>2, <1>5, <4>1 DEF WaitsFor
        <5>2. /\ Cardinality(WaitsFor(v)) = Cardinality(WaitsFor(v) \ {f.obj}) + 1
              /\ Cardinality(WaitsFor(v) \ {f.obj}) \in Nat
          BY <5>1, KnownFinite, RemoveOne
        <5>3. inst'[v].num_script_init = inst[v].num_script_init - 1
          BY <4>1 DEF Heard
        <5> QED BY <1>2, <1>3, <5>1, <5>2, <5>3
      <4>2. CASE ~f.init
        <5>1. WaitsFor(v)' = WaitsFor(v)
          BY <1>1, <1>2, <1>5, <4>2 DEF WaitsFor
        <5>2. inst'[v].num_script_init = inst[v].num_script_init
          BY <4>2 DEF Heard
        <5> QED BY <1>2, <1>3, <5>1, <5>2
      <4> QED BY <1>2, <4>1, <4>2
    <3>2. inst[v].num_track_fault \in Nat /\ inst'[v].num_track_fault \in Nat
      BY <1>2, <1>3 DEF Instance
    <3>3. ("TRACKER" \in inst'[v].flags_if_fault) <=> (inst'[v].num_track_fault # 0)
      BY <1>2, <1>3, <1>5, <3>2 DEF Heard
    <3>4. inst'[v].num_track_fault >= Cardinality(FailedTrackers(v)')
      <4> DEFINE S == FailedTrackers(v)
                 T == FailedTrackers(v)'
                 n == inst[v].num_track_fault
                 m == inst'[v].num_track_fault
      <4>1. \/ T = S /\ m = n
            \/ T \subseteq S \union {f.obj} /\ m = n + 1
            \/ T = S \ {f.obj} /\ m = n
            \/ T = S \ {f.obj} /\ f.obj \in S /\ m = n - 1
        <5>1. \A obj \in Scripts \union Trackers : obj # f.obj => (obj \in T <=> obj \in S)
          BY <1>1, <1>2, <1>5 DEF FailedTrackers
        <5>2. f.obj \in T <=> f.obj \notin Links /\ ~StatusOk(v, f.obj, f.ok)
          BY <1>1, <1>2, <1>5 DEF FailedTrackers
        <5>3. f.obj \in S <=> f.obj \notin Links /\ StatusOk(v, f.obj, f.ok) /\ ~f.init
          BY <1>1, <1>2, <1>5 DEF FailedTrackers
        <5>4. S \subseteq Scripts \union Trackers /\ T \subseteq Scripts \union Trackers
          BY DEF FailedTrackers
        <5> HIDE DEF S, T
        <5>5. CASE f.obj \in Links
          <6>1. T = S
            BY <5>1, <5>2, <5>3, <5>4, <5>5
          <6>2. m = n
            BY <5>5 DEF Heard
          <6> QED BY <6>1, <6>2
        <5>6. CASE f.obj \notin Links /\ ~StatusOk(v, f.obj, f.ok)
          <6>1. T \subseteq S \union {f.obj}
            BY <5>1, <5>4
          <6>2. m = n + 1
            BY <5>6 DEF Heard
          <6> QED BY <6>1, <6>2
        <5>7. CASE f.obj \notin Links /\ StatusOk(v, f.obj, f.ok) /\ ~f.init
          <6>1. T = S \ {f.obj} /\ f.obj \in S
            BY <5>1, <5>2, <5>3, <5>4, <5>7
          <6>2. m = n \/ m = n - 1
            BY <5>7 DEF Heard
          <6> QED BY <6>1, <6>2
        <5>8. CASE f.obj \notin Links /\ StatusOk(v, f.obj, f.ok) /\ f.init
          <6>1. T = S
            BY <5>1, <5>2, <5>3, <5>4, <5>8
          <6>2. m = n
            BY <5>8 DEF Heard
          <6> QED BY <6>1, <6>2
        <5> QED BY <1>2, <5>5, <5>6, <5>7, <5>8
      <4>2. IsFiniteSet(S) /\ n >= Cardinality(S)
        BY <1>2, <1>3, KnownFinite
      <4> HIDE DEF S, T, n, m
      <4>3. n \in Nat /\ m \in Nat
        BY <3>2 DEF n, m
      <4>4. m >= Cardinality(T)
        BY <4>1, <4>2, <4>3, HeardTrackers
      <4> QED BY <4>4 DEF m, T
    <3> QED BY <2>2, <3>1, <3>3, <3>4
  <2> QED BY <2>1, <2>2
<1>8. KnownInv'
  BY <1>6, <1>7 DEF KnownInv
<1> QED BY <1>1, <1>8
==============================================================================
