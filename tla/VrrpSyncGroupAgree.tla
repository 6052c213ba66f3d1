-------------------------- MODULE VrrpSyncGroupAgree -------------------------
(* What holds between two events in VrrpSyncGroup: the members of the sync    *)
(* group agree, and a fault does not outlast its reason.  Both need more of   *)
(* the configuration than the invariant of VrrpSyncGroupProofs.               *)
EXTENDS VrrpSyncGroupProofs

(* The provers a leaf is tried with, in this order, unless it names one. *)
USE SMT, Zenon, Z3T(60)

------------------------------------------------------------------------------
(* The members agree.                                                         *)

(* No member leaves MASTER state by itself when its timer is late, and no link *)
(* message comes in while an instance becomes master.                          *)
Undisturbed == HandleTimeout \intersect Sync = {} /\ MaxFrames = 0

(* The state the members of a group have when no handler is running. *)
GroupSays(g) == IF g.state = "INIT" THEN "FAULT" ELSE g.state

Agree(ins, g) == \A u \in Sync : ins[u].state = GroupSays(g)

(* Between a timeout or an advert of v and its VRRP_TSM_HANDLE() only v can    *)
(* differ, and the others follow to MASTER state only if all of them want to.  *)
TsmAgree(v, prev) ==
    /\ v \notin Sync => Agree(inst, group)
    /\ v \in Sync =>
          /\ \A u \in Sync \ {v} : inst[u].state = GroupSays(group)
          /\ prev = GroupSays(group)
          /\ \/ inst[v].state = prev
             \/ /\ prev = "BACK" /\ inst[v].state = "MAST"
                /\ \A u \in Sync \ {v} : inst[u].wantstate = "MAST"
             \/ prev = "MAST" /\ inst[v].state = "BACK"

(* Within vrrp_sync_master() the members the loop has come to are masters. *)
MasterAgree(rest) ==
    /\ group.state = "BACK"
    /\ \A u \in Sync : /\ inst[u].wantstate = "MAST"
                       /\ inst[u].state = IF u \in rest THEN "BACK" ELSE "MAST"

(* The frame of the running handler, without a poll. *)
Polled == IF Running("poll") THEN Tail(stack) ELSE stack

AgreeInv ==
    /\ Len(Polled) <= 1
    /\ Polled = <<>> => Agree(inst, group)
    /\ Polled # <<>> =>
          LET f == Head(Polled) IN
          /\ f.op = "track" => Agree(inst, group)
          /\ f.op = "tsm" => TsmAgree(f.v, f.prev)
          /\ f.op = "master" => MasterAgree(f.rest)

LEMMA PushOne ==
    ASSUME NEW f
    PROVE  Push(f, <<>>) = <<f>>
BY DEF Push

LEMMA AgreeIdle ==
    ASSUME stack' = <<>>, Agree(inst', group')
    PROVE  AgreeInv'
<1>1. Polled' = <<>>
  BY DEF Polled, Running
<1> QED BY <1>1 DEF AgreeInv, Agree

LEMMA AgreeTrack ==
    ASSUME NEW f, f.op = "track", stack' = <<f>>, Agree(inst', group')
    PROVE  AgreeInv'
<1>1. stack' # <<>> /\ Head(stack') = f /\ Len(stack') = 1
  OBVIOUS
<1>2. Polled' = stack'
  BY <1>1 DEF Polled, Running
<1> QED BY <1>1, <1>2 DEF AgreeInv, Agree

LEMMA AgreeFrame ==
    ASSUME NEW f \in Frame, f.op \in {"tsm", "master"},
           stack' = <<f>> \/ stack' = Push([op |-> "poll"], <<f>>),
           f.op = "tsm" => TsmAgree(f.v, f.prev)',
           f.op = "master" => MasterAgree(f.rest)'
    PROVE  AgreeInv'
<1>1. Polled' = <<f>>
  <2>1. CASE stack' = <<f>>
    <3>1. stack' # <<>> /\ Head(stack') = f
      BY <2>1
    <3> QED BY <2>1, <3>1 DEF Polled, Running
  <2>2. CASE stack' = Push([op |-> "poll"], <<f>>)
    <3> DEFINE p == [op |-> "poll"]
    <3>1. p \in Frame /\ p.op = "poll"
      BY DEF Frame
    <3> HIDE DEF p
    <3>2. Push(p, <<f>>) # <<>> /\ Head(Push(p, <<f>>)) = p /\ Tail(Push(p, <<f>>)) = <<f>>
      <4>1. <<f>> \in Seq(Frame)
        OBVIOUS
      <4> QED BY Zenon, <3>1, <4>1, PushLemma
    <3>3. stack' = Push(p, <<f>>)
      BY <2>2 DEF p
    <3>4. stack' # <<>> /\ Head(stack') = p /\ Tail(stack') = <<f>>
      BY <3>2, <3>3
    <3> QED BY <3>1, <3>4 DEF Polled, Running
  <2> QED BY <2>1, <2>2
<1>2. /\ <<f>> # <<>> /\ Head(<<f>>) = f /\ Len(<<f>>) = 1
  OBVIOUS
<1> QED BY <1>1, <1>2 DEF AgreeInv

(* What the members are like when an event comes in or a frame is served. *)
LEMMA AgreeNow ==
    ASSUME IndInv, AgreeInv
    PROVE  /\ Idle => Agree(inst, group)
           /\ Running("track") => Agree(inst, group) /\ Tail(stack) = <<>>
           /\ Running("tsm") => TsmAgree(Head(stack).v, Head(stack).prev)
           /\ Running("master") => MasterAgree(Head(stack).rest)
<1>1. Idle => Agree(inst, group)
  BY DEF Idle, AgreeInv, Polled, Running
<1>2. \A op \in {"track", "tsm", "master"} : Running(op) => Polled = stack /\ stack # <<>>
  BY DEF Polled, Running
<1>3. Running("track") => Tail(stack) = <<>>
  <2>1. SUFFICES ASSUME Running("track")
                 PROVE  Tail(stack) = <<>>
    OBVIOUS
  <2>2. stack \in Seq(Frame) /\ stack # <<>> /\ Len(stack) <= 1
    BY <1>2, <2>1 DEF AgreeInv, IndInv, StackInv
  <2>3. Tail(stack) \in Seq(Frame) /\ Len(Tail(stack)) = Len(stack) - 1 /\ Len(stack) \in Nat
    BY <2>2, TailLemma
  <2>4. Len(Tail(stack)) = 0
    BY <2>2, <2>3
  <2>5. \A s \in Seq(Frame) : Len(s) = 0 => s = <<>>
    OBVIOUS
  <2> QED BY Zenon, <2>3, <2>4, <2>5
<1> QED BY <1>1, <1>2, <1>3 DEF AgreeInv, Running

(* A group with a member that has to stay in FAULT state is in FAULT state. *)
LEMMA StuckFault ==
    ASSUME NEW ins, NEW g, Safe(ins, g), GroupStuck(ins)
    PROVE  AllFault(ins)
BY ConfigAssumption DEF Safe, Held, GroupStuck, Stuck

LEMMA CallAgree ==
    ASSUME Safe(inst, group), Safe(inst', group'), NEW v \in Instances, CallStates(v),
           Agree(inst, group)
    PROVE  Agree(inst', group')
<1>1. CASE v \notin Sync
  BY <1>1 DEF CallStates, Agree, GroupSays
<1>2. CASE v \in Sync /\ group'.state = "FAULT" /\ GroupStuck(inst')
  <2>1. AllFault(inst')
    BY <1>2, StuckFault
  <2> QED BY <1>2, <2>1 DEF AllFault, Agree, GroupSays
<1>3. CASE v \in Sync /\ GroupStuck(inst)
  <2>1. AllFault(inst)
    BY <1>3, StuckFault
  <2>2. group.state \in {"FAULT", "INIT"}
    BY <1>3, <2>1 DEF AllFault, Agree, GroupSays
  <2>3. CASE group'.state \in {group.state, "INIT"} /\ GroupStuck(inst')
    <3>1. AllFault(inst')
      BY <2>3, StuckFault
    <3> QED BY <2>2, <2>3, <3>1 DEF AllFault, Agree, GroupSays
  <2>4. CASE group'.state = "BACK" /\ \A u \in Sync : inst'[u].state = "BACK" \/ group.state = "BACK"
    BY <2>2, <2>4 DEF Agree, GroupSays
  <2> QED BY <1>2, <1>3, <2>3, <2>4 DEF CallStates
<1> QED BY <1>1, <1>2, <1>3 DEF CallStates

LEMMA TrackLoopAgree ==
    ASSUME Owners = {}, IndInv, IndInv', AgreeInv, TrackLoop
    PROVE  AgreeInv'
<1> PICK f : f = Head(stack)
  OBVIOUS
<1>1. /\ Running("track") /\ Tail(stack) = <<>> /\ Agree(inst, group)
      /\ f.op = "track" /\ f \in Frame
  BY AgreeNow, RunningFrames DEF TrackLoop, IndInv, Running
<1>2. CASE f.rest = {}
  <2>1. stack' = <<>> /\ inst' = inst /\ group' = group
    BY Zenon, <1>1, <1>2 DEF TrackLoop
  <2> QED BY <1>1, <2>1, AgreeIdle
<1>3. CASE f.rest # {}
  <2>1. PICK v \in f.rest :
           LET rest == Push([f EXCEPT !.rest = @ \ {v}], Tail(stack)) IN
           IF f.obj \in Scripts
           THEN ScriptUpdate(v, f.obj, f.ok, f.init, rest)
           ELSE StatusUpdate(v, f.obj, f.ok, rest)
    BY <1>3 DEF TrackLoop
  <2> DEFINE h == [f EXCEPT !.rest = @ \ {v}]
  <2>2. stack' = Push(h, <<>>) /\ CallStates(v)
    <3>1. CASE f.obj \in Scripts
      BY Zenon, <1>1, <2>1, <3>1, ScriptUpdateLemma
    <3>2. CASE f.obj \notin Scripts
      BY Zenon, <1>1, <2>1, <3>2, StatusUpdateLemma
    <3> QED BY <3>1, <3>2
  <2>3. v \in Instances
    BY <1>1, <2>1, TrackFrames
  <2>4. Agree(inst', group')
    BY <1>1, <2>2, <2>3, CallAgree DEF IndInv
  <2>5. h.op = "track"
    BY <1>1, TrackFrames
  <2> HIDE DEF h
  <2>6. stack' = <<h>>
    BY <2>2, PushOne
  <2> QED BY <2>4, <2>5, <2>6, AgreeTrack
<1> QED BY <1>2, <1>3

(* An event that starts a loop over the instances that track an object. *)
LEMMA NewTrackAgree ==
    ASSUME IndInv, AgreeInv, Idle, NEW obj, NEW ok, NEW init,
           stack' = <<TrackFrame(obj, ok, init)>>, inst' = inst, group' = group
    PROVE  AgreeInv'
<1> DEFINE f == TrackFrame(obj, ok, init)
<1>1. f.op = "track"
  BY DEF TrackFrame
<1> HIDE DEF f
<1>2. stack' = <<f>>
  BY DEF f
<1>3. Agree(inst', group')
  BY AgreeNow
<1> QED BY <1>1, <1>2, <1>3, AgreeTrack

LEMMA ReadTimeoutAgree ==
    ASSUME IndInv, AgreeInv, NEW v \in Instances, vrrp_dispatcher_read_timeout(v)
    PROVE  AgreeInv'
<1> PICK t : t = [op |-> "tsm", v |-> v, prev |-> inst[v].state]
  BY Zenon
<1> DEFINE w == Want(inst[v], "MAST")
           want == [inst EXCEPT ![v] = w]
<1>1. /\ inst \in [Instances -> Instance] /\ inst[v] \in Instance
      /\ Agree(inst, group) /\ group' = group /\ Sync \subseteq Instances
      /\ inst[v].state \in {"BACK", "MAST"}
  BY AgreeNow, ConfigAssumption DEF vrrp_dispatcher_read_timeout, IndInv, Safe
<1>2. /\ t \in Frame /\ t.op = "tsm" /\ t.v = v /\ t.prev = inst[v].state
  BY <1>1 DEF Frame, Instance
<1>3. inst[v].state = "BACK" =>
         inst' = GotoMaster(want, v) /\ stack' = PollFirst(want, v, <<t>>)
  BY DEF vrrp_dispatcher_read_timeout
<1>4. inst[v].state = "MAST" =>
         /\ inst' = [inst EXCEPT ![v] = [@ EXCEPT !.vipset = TRUE]]
         /\ stack' = IF inst[v].vipset THEN <<t>> ELSE Push([op |-> "poll"], <<t>>)
  BY DEF vrrp_dispatcher_read_timeout
<1>5. w \in Instance /\ w.state = inst[v].state
  BY <1>1, WantLemma DEF States
<1> HIDE DEF w
<1>6. /\ want \in [Instances -> Instance] /\ want[v] = w
      /\ \A u \in Instances \ {v} : want[u] = inst[u]
  BY <1>1, <1>5
<1> HIDE DEF want
<1>7. stack' = <<t>> \/ stack' = Push([op |-> "poll"], <<t>>)
  BY <1>1, <1>3, <1>4, PollFirstLemma
<1>8. /\ \A u \in Instances \ {v} : inst'[u] = inst[u]
      /\ \/ inst'[v].state = inst[v].state
         \/ /\ inst[v].state = "BACK" /\ inst'[v].state = "MAST"
            /\ v \in Sync => vrrp_sync_can_goto_master(want, v)
  <2>1. CASE inst[v].state = "BACK"
    <3>1. /\ \A u \in Instances \ {v} : inst'[u] = want[u]
          /\ \/ inst'[v].state = want[v].state
             \/ /\ v \in Sync => vrrp_sync_can_goto_master(want, v)
                /\ inst'[v].state = "MAST"
      BY <1>3, <1>6, <2>1, GotoMasterLemma
    <3> QED BY <1>5, <1>6, <2>1, <3>1
  <2>2. CASE inst[v].state = "MAST"
    <3> DEFINE m == [inst[v] EXCEPT !.vipset = TRUE]
    <3>1. m.state = inst[v].state
      BY <1>1 DEF Instance
    <3>2. inst' = [inst EXCEPT ![v] = m]
      BY <1>4, <2>2
    <3> HIDE DEF m
    <3> QED BY <1>1, <3>1, <3>2
  <2> QED BY <1>1, <2>1, <2>2
<1>9. TsmAgree(t.v, t.prev)'
  <2>1. CASE v \notin Sync
    BY <1>1, <1>2, <1>8, <2>1 DEF TsmAgree, Agree, GroupSays
  <2>2. CASE v \in Sync
    <3>1. /\ \A u \in Sync \ {v} : inst'[u].state = GroupSays(group')
          /\ inst[v].state = GroupSays(group')
      BY <1>1, <1>8, <2>2 DEF Agree
    <3>2. inst[v].state = "BACK" => group.state = "BACK"
      BY <1>1, <3>1 DEF GroupSays
    <3>3. inst[v].state = "BACK" /\ vrrp_sync_can_goto_master(want, v) =>
             \A u \in Sync \ {v} : inst'[u].wantstate = "MAST"
      BY <1>1, <1>6, <1>8, <3>2 DEF vrrp_sync_can_goto_master
    <3> QED BY <1>2, <1>8, <2>2, <3>1, <3>3 DEF TsmAgree
  <2> QED BY <2>1, <2>2
<1> QED BY <1>2, <1>7, <1>9, AgreeFrame

LEMMA MasterRxAgree ==
    ASSUME IndInv, AgreeInv, NEW v \in Instances, vrrp_state_master_rx(v)
    PROVE  AgreeInv'
<1> DEFINE t == [op |-> "tsm", v |-> v, prev |-> "MAST"]
           q == vrrp_state_leave_master([Want(inst[v], "BACK") EXCEPT !.state = "BACK"])
<1>1. /\ inst \in [Instances -> Instance] /\ inst[v] \in Instance /\ Sync \subseteq Instances
      /\ Agree(inst, group) /\ group' = group /\ stack' = <<t>>
      /\ inst[v].state = "MAST" /\ inst[v].wantstate = "MAST"
  BY AgreeNow, ConfigAssumption DEF vrrp_state_master_rx, IndInv, Safe, Held
<1>2. inst' = inst \/ inst' = [inst EXCEPT ![v] = q]
  BY <1>1 DEF vrrp_state_master_rx
<1>3. t \in Frame /\ t.op = "tsm" /\ t.v = v /\ t.prev = "MAST"
  BY DEF Frame, States
<1>4. q.state = "BACK"
  BY <1>1 DEF Want, vrrp_state_leave_master, Instance
<1> HIDE DEF q, t
<1>5. /\ \A u \in Instances \ {v} : inst'[u] = inst[u]
      /\ inst'[v].state \in {"MAST", "BACK"}
  BY <1>1, <1>2, <1>4
<1>6. TsmAgree(t.v, t.prev)'
  <2>1. CASE v \notin Sync
    BY <1>1, <1>3, <1>5, <2>1 DEF TsmAgree, Agree, GroupSays
  <2>2. CASE v \in Sync
    <3>1. /\ \A u \in Sync \ {v} : inst'[u].state = GroupSays(group')
          /\ GroupSays(group') = "MAST"
      BY <1>1, <1>5, <2>2 DEF Agree
    <3> QED BY <1>3, <1>5, <2>2, <3>1 DEF TsmAgree
  <2> QED BY <2>1, <2>2
<1> QED BY <1>1, <1>3, <1>6, AgreeFrame

LEMMA TsmHandleAgree ==
    ASSUME IndInv, AgreeInv, TsmHandle
    PROVE  AgreeInv'
<1> PICK f : f = Head(stack)
  OBVIOUS
<1>1. /\ Running("tsm") /\ Tail(stack) = <<>> /\ f \in Frame /\ f.op = "tsm"
      /\ TsmAgree(f.v, f.prev) /\ f.v \in Instances
      /\ inst \in [Instances -> Instance] /\ group \in Group /\ Sync \subseteq Instances
      /\ \A u \in Instances : Held(inst, u)
  BY AgreeNow, RunningFrames, TsmFrames, ConfigAssumption DEF TsmHandle, IndInv, Safe
<1>2. CASE f.v \in Sync /\ inst[f.v].state = "MAST"
  <2>1. stack' = SyncMaster(inst, f.v, <<>>) /\ UNCHANGED <<inst, group>>
    BY Zenon, <1>1, <1>2 DEF TsmHandle
  <2>2. CASE group.state = "MAST"
    <3>1. stack' = <<>>
      BY <2>1, <2>2 DEF SyncMaster
    <3>2. Agree(inst, group)
      BY <1>1, <1>2, <2>2 DEF TsmAgree, Agree, GroupSays
    <3> QED BY <2>1, <3>1, <3>2, AgreeIdle
  <2>3. CASE group.state # "MAST"
    <3>1. /\ f.prev = "BACK" /\ GroupSays(group) = "BACK"
          /\ \A u \in Sync \ {f.v} : inst[u].wantstate = "MAST" /\ inst[u].state = "BACK"
      BY <1>1, <1>2, <2>3 DEF TsmAgree, GroupSays
    <3>2. group.state = "BACK"
      BY <3>1 DEF GroupSays
    <3> DEFINE m == [op |-> "master", v |-> f.v, rest |-> Sync \ {f.v}]
    <3>3. stack' = Push(m, <<>>)
      BY <2>1, <2>3, <3>1 DEF SyncMaster, vrrp_sync_can_goto_master
    <3>4. m \in Frame /\ m.op = "master" /\ m.rest = Sync \ {f.v}
      BY <1>2 DEF Frame
    <3> HIDE DEF m
    <3>5. MasterAgree(m.rest)'
      <4>1. inst[f.v].wantstate = "MAST"
        BY <1>1, <1>2 DEF Held
      <4> QED BY <1>2, <2>1, <3>1, <3>2, <3>4, <4>1 DEF MasterAgree
    <3>6. stack' = <<m>>
      BY <3>3, PushOne
    <3> QED BY <3>4, <3>5, <3>6, AgreeFrame
  <2> QED BY <2>2, <2>3
<1>3. CASE f.v \in Sync /\ f.prev = "MAST" /\ inst[f.v].state = "BACK"
  <2>1. /\ inst' = SyncBackup(inst, f.v) /\ stack' = <<>>
        /\ group' = [group EXCEPT !.state = "BACK"]
    BY Zenon, <1>1, <1>3 DEF TsmHandle
  <2>2. group.state = "MAST" /\ group'.state = "BACK"
    BY <1>1, <1>3, <2>1 DEF TsmAgree, GroupSays, Group
  <2>3. \A u \in Sync : inst'[u].state = "BACK"
    BY <1>1, <1>3, <2>1, <2>2, SyncBackupStates
  <2>4. Agree(inst', group')
    BY <2>2, <2>3 DEF Agree, GroupSays
  <2> QED BY <2>1, <2>4, AgreeIdle
<1>4. CASE /\ ~(f.v \in Sync /\ inst[f.v].state = "MAST")
           /\ ~(f.v \in Sync /\ f.prev = "MAST" /\ inst[f.v].state = "BACK")
  <2>1. stack' = <<>> /\ UNCHANGED <<inst, group>>
    BY Zenon, <1>1, <1>4 DEF TsmHandle
  <2>2. Agree(inst, group)
    BY <1>1, <1>4 DEF TsmAgree, Agree
  <2> QED BY <2>1, <2>2, AgreeIdle
<1> QED BY <1>2, <1>3, <1>4

LEMMA SyncMasterLoopAgree ==
    ASSUME IndInv, AgreeInv, SyncMasterLoop
    PROVE  AgreeInv'
<1> PICK f : f = Head(stack)
  OBVIOUS
<1>1. /\ Running("master") /\ Tail(stack) = <<>> /\ f \in Frame /\ f.op = "master"
      /\ MasterAgree(f.rest) /\ f.rest \subseteq Sync
      /\ inst \in [Instances -> Instance] /\ group \in Group /\ Sync \subseteq Instances
  BY AgreeNow, RunningFrames, MasterFrames, ConfigAssumption DEF SyncMasterLoop, IndInv, Safe
<1>2. CASE f.rest = {}
  <2>1. stack' = <<>> /\ inst' = inst /\ group' = [group EXCEPT !.state = "MAST"]
    BY Zenon, <1>1, <1>2 DEF SyncMasterLoop
  <2>2. group'.state = "MAST"
    BY <1>1, <2>1 DEF Group
  <2>3. Agree(inst', group')
    BY <1>1, <1>2, <2>1, <2>2 DEF MasterAgree, Agree, GroupSays
  <2> QED BY <2>1, <2>3, AgreeIdle
<1>3. CASE f.rest # {}
  <2>1. PICK u \in f.rest :
           LET rest == Push([f EXCEPT !.rest = @ \ {u}], Tail(stack))
               ins == [inst EXCEPT ![u] = Want(@, "MAST")]
           IN  /\ IF inst[u].state = "MAST"
                  THEN /\ stack' = rest
                       /\ UNCHANGED inst
                  ELSE /\ inst' = GotoMaster(ins, u)
                       /\ stack' = PollFirst(ins, u, rest)
               /\ UNCHANGED group
    BY Zenon, <1>3 DEF SyncMasterLoop
  <2> DEFINE h == [f EXCEPT !.rest = @ \ {u}]
             w == Want(inst[u], "MAST")
             ins == [inst EXCEPT ![u] = w]
  <2>2. u \in Sync /\ u \in Instances /\ inst[u].state = "BACK" /\ inst[u].wantstate = "MAST"
    BY <1>1, <2>1 DEF MasterAgree
  <2>3. /\ inst' = GotoMaster(ins, u) /\ group' = group
        /\ stack' = PollFirst(ins, u, Push(h, <<>>))
    BY Zenon, <1>1, <2>1, <2>2
  <2>4. h \in Frame /\ h.op = "master" /\ h.rest = f.rest \ {u}
    BY Zenon, <1>1, MasterFrames
  <2>5. w \in Instance /\ w.wantstate = "MAST"
    BY <1>1, <2>2, WantLemma DEF States
  <2> HIDE DEF h, w
  <2>6. /\ ins \in [Instances -> Instance] /\ ins[u] = w
        /\ \A x \in Instances \ {u} : ins[x] = inst[x]
    BY <1>1, <2>2, <2>5
  <2> HIDE DEF ins
  <2>7. vrrp_sync_can_goto_master(ins, u)
    BY <1>1, <2>6 DEF MasterAgree, vrrp_sync_can_goto_master
  <2>8. /\ \A x \in Instances \ {u} : inst'[x] = inst[x]
        /\ inst'[u].state = "MAST" /\ inst'[u].wantstate = "MAST"
    BY <2>2, <2>3, <2>5, <2>6, <2>7, GotoMasterLemma
  <2>9. MasterAgree(h.rest)'
    BY <1>1, <2>2, <2>3, <2>4, <2>8 DEF MasterAgree
  <2>10. stack' = <<h>> \/ stack' = Push([op |-> "poll"], <<h>>)
    BY <2>3, PushOne, PollFirstLemma
  <2> QED BY <2>4, <2>9, <2>10, AgreeFrame
<1> QED BY <1>2, <1>3

LEMMA PollEndAgree ==
    ASSUME IndInv, AgreeInv, PollEnd
    PROVE  AgreeInv'
<1>1. /\ Running("poll") /\ stack' = Tail(stack) /\ UNCHANGED <<inst, group>>
      /\ StackInv
  BY DEF PollEnd, IndInv
<1>2. /\ stack \in Seq(Frame) /\ stack # <<>> /\ Head(stack) = stack[1] /\ Len(stack) \in 1 .. 3
      /\ stack[1].op = "poll"
  BY <1>1, RunningFrames
<1>3. Len(stack) = 2 /\ stack[2].op \in {"tsm", "master"}
  BY <1>1, <1>2 DEF StackInv, Shape
<1>4. stack' # <<>> /\ Head(stack') = stack[2]
  <2>1. /\ Len(stack') = 1 /\ stack' \in Seq(Frame) /\ stack'[1] = stack[2]
    BY <1>1, <1>2, <1>3, TailLemma
  <2> QED BY <2>1
<1>5. Polled' = stack' /\ Polled = stack'
  BY <1>1, <1>3, <1>4 DEF Polled, Running
<1> QED BY <1>1, <1>5 DEF AgreeInv, Agree, TsmAgree, MasterAgree

LEMMA InitAgree ==
    ASSUME Owners = {}, Init
    PROVE  AgreeInv
<1>1. PICK want \in [Instances -> {"BACK", "MAST"}] :
         /\ group = InitGroup(want, up)
         /\ inst = [v \in Instances |-> InitInstance(want, up, group, v)]
  BY DEF Init
<1> DEFINE faulted == {v \in Sync : InitFlags(v, up) # {}}
           starting == {v \in Sync : NumScriptInit(v) > 0}
<1>2. /\ group.num_member_init = Cardinality(starting)
      /\ group.state = IF faulted # {} THEN "FAULT"
                       ELSE IF starting # {} THEN "INIT"
                       ELSE IF \A v \in Sync : want[v] = "MAST" /\ v \in Owners THEN "MAST"
                       ELSE "BACK"
  BY <1>1 DEF InitGroup
<1>3. Sync \subseteq Instances
  BY ConfigAssumption
<1>4. /\ starting # {} <=> Cardinality(starting) > 0
  <2>1. IsFiniteSet(starting)
    BY SyncFinite, FS_Subset
  <2> HIDE DEF starting
  <2> QED BY <2>1, FS_CardinalityType, FS_EmptySet
<1>5. ASSUME NEW v \in Sync
      PROVE  inst[v].state = GroupSays(group)
  <2>1. inst[v].state = IF \/ InitFlags(v, up) # {} \/ group.state = "FAULT"
                           \/ NumScriptInit(v) > 0 \/ group.num_member_init > 0
                        THEN "FAULT" ELSE "BACK"
    BY <1>1, <1>3 DEF InitInstance
  <2>2. group.state = IF faulted # {} THEN "FAULT" ELSE IF starting # {} THEN "INIT" ELSE "BACK"
    BY <1>2
  <2>3. /\ InitFlags(v, up) # {} => faulted # {}
        /\ NumScriptInit(v) > 0 => starting # {}
    OBVIOUS
  <2>4. group.num_member_init > 0 <=> starting # {}
    BY <1>2, <1>4
  <2> HIDE DEF faulted, starting
  <2> QED BY <2>1, <2>2, <2>3, <2>4 DEF GroupSays
<1>6. stack = <<>>
  BY DEF Init
<1>7. Polled = <<>>
  BY <1>6 DEF Polled, Running
<1> QED BY <1>5, <1>7 DEF AgreeInv, Agree

LEMMA NextAgree ==
    ASSUME Owners = {}, Undisturbed, IndInv, IndInv', AgreeInv, [Next]_vars
    PROVE  AgreeInv'
<1>1. CASE \E v \in Instances : vrrp_dispatcher_read_timeout(v)
  BY <1>1, ReadTimeoutAgree
<1>2. CASE \E v \in Instances : vrrp_state_backup(v)
  <2>1. PICK v \in Instances : vrrp_state_backup(v)
    BY <1>2
  <2>2. /\ stack' = <<>> /\ group' = group /\ Agree(inst, group)
        /\ inst' = [inst EXCEPT ![v] = Want(@, "BACK")]
        /\ inst \in [Instances -> Instance] /\ Sync \subseteq Instances
    BY <2>1, AgreeNow, ConfigAssumption DEF vrrp_state_backup, Idle, IndInv, Safe
  <2>3. Want(inst[v], "BACK").state = inst[v].state
    BY <2>2 DEF Want, Instance
  <2>4. Agree(inst', group')
    BY <2>2, <2>3 DEF Agree
  <2> QED BY <2>2, <2>4, AgreeIdle
<1>3. CASE \E v \in Instances : vrrp_state_master_rx(v)
  BY <1>3, MasterRxAgree
<1>4. CASE vrrp_thread_timeout_handler
  <2>1. /\ stack' = <<>> /\ group' = group /\ Agree(inst, group) /\ Sync \subseteq Instances
    BY <1>4, AgreeNow, ConfigAssumption DEF vrrp_thread_timeout_handler, Idle
  <2>2. \A u \in Sync : inst'[u] = inst[u]
    BY <1>4, <2>1 DEF vrrp_thread_timeout_handler, Undisturbed
  <2>3. Agree(inst', group')
    BY <2>1, <2>2 DEF Agree
  <2> QED BY <2>1, <2>3, AgreeIdle
<1>5. CASE delayed_start_clear_thread
  BY <1>5, AgreeNow, AgreeIdle DEF delayed_start_clear_thread, Idle
<1>6. CASE \E l \in Links : process_if_status_change(l)
  <2>1. PICK l \in Links : process_if_status_change(l)
    BY <1>6
  <2>2. Idle
    <3>1. Len(stack) \in Nat
      BY DEF IndInv, StackInv
    <3>2. ~(Len(stack) < MaxFrames)
      BY <3>1 DEF Undisturbed
    <3> QED BY <2>1, <3>2 DEF process_if_status_change
  <2>3. /\ stack' = Push(TrackFrame(l, ~up[l], FALSE), <<>>)
        /\ inst' = inst /\ group' = group
    BY <2>1, <2>2 DEF process_if_status_change, Idle
  <2> QED BY Zenon, <2>2, <2>3, PushOne, NewTrackAgree
<1>7. CASE \E t \in Trackers : TrackerChange(t)
  BY Zenon, <1>7, NewTrackAgree DEF TrackerChange
<1>8. CASE \E s \in Scripts, ok \in BOOLEAN : vrrp_script_child_thread(s, ok)
  <2>1. PICK s \in Scripts, ok \in BOOLEAN : vrrp_script_child_thread(s, ok)
    BY <1>8
  <2> PICK init : init = (script[s].init_state = "INIT")
    BY Zenon
  <2>2. /\ Idle /\ inst' = inst /\ group' = group
        /\ stack' = <<>> \/ stack' = <<TrackFrame(s, ok, init)>>
    BY Zenon, <2>1 DEF vrrp_script_child_thread
  <2>3. CASE stack' = <<>>
    BY <2>2, <2>3, AgreeNow, AgreeIdle
  <2>4. CASE stack' # <<>>
    <3>1. stack' = <<TrackFrame(s, ok, init)>>
      BY <2>2, <2>4
    <3> QED BY Zenon, <2>2, <3>1, NewTrackAgree
  <2> QED BY <2>3, <2>4
<1>9. CASE TrackLoop
  BY <1>9, TrackLoopAgree
<1>10. CASE PollEnd
  BY <1>10, PollEndAgree
<1>11. CASE TsmHandle
  BY <1>11, TsmHandleAgree
<1>12. CASE SyncMasterLoop
  BY <1>12, SyncMasterLoopAgree
<1>13. CASE TryUpEnd
  BY <1>13, RunningFrames DEF TryUpEnd, IndInv
<1>14. CASE UNCHANGED vars
  <2>1. UNCHANGED <<inst, group, stack>>
    BY <1>14 DEF vars
  <2>2. Polled' = Polled
    BY <2>1 DEF Polled, Running
  <2> QED BY <2>1, <2>2 DEF AgreeInv, Agree, TsmAgree, MasterAgree
<1> QED BY <1>1, <1>2, <1>3, <1>4, <1>5, <1>6, <1>7, <1>8, <1>9, <1>10, <1>11, <1>12,
           <1>13, <1>14 DEF Next

(* The members of a sync group move together: between two events all are in   *)
(* the state the group reports, after every order of timeouts, adverts and     *)
(* tracker changes, as long as no link message interrupts vrrp_sync_master()   *)
(* and no member has timer_expired_backup.                                     *)
THEOREM GroupMovesTogether ==
    ASSUME Owners = {}, OneLinkPerFlag, Undisturbed
    PROVE  Spec => []MembersAgree
<1>1. Init => IndInv /\ AgreeInv
  BY InitInd, InitAgree
<1>2. IndInv /\ AgreeInv /\ [Next]_vars => IndInv' /\ AgreeInv'
  BY NextInd, NextAgree
<1>3. IndInv /\ AgreeInv => MembersAgree
  BY AgreeNow DEF MembersAgree, Agree, GroupSays
<1> QED BY <1>1, <1>2, <1>3, PTL DEF Spec
------------------------------------------------------------------------------
(* A fault does not outlast its reason.                                       *)

SameGroup(v, u) == v = u \/ {v, u} \subseteq Sync

(* No result of a script is passed over because another script has still to   *)
(* run for the first time: two scripts of one instance or group do not start   *)
(* in INIT state.  No script that starts as failed is tracked in reverse.      *)
NoLostResult ==
    /\ \A s, t \in Scripts : \A v \in TrackedBy[s], u \in TrackedBy[t] :
          SameGroup(v, u) /\ s # t => {s, t} \subseteq InitFail
    /\ \A s \in InitFail : \A v \in TrackedBy[s] : <<v, s>> \notin Reverse

(* num_track_fault counts no tracker that v does not know to be down. *)
CountsExact ==
    \A v \in Instances : inst[v].num_track_fault <= Cardinality(FailedTrackers(v))

(* No flag is set but for what v tracks. *)
FlagsOwn ==
    \A v \in Instances : \A flag \in inst[v].flags_if_fault :
        flag = "TRACKER" \/ \E l \in Links : v \in TrackedBy[l] /\ flag = LinkFlag[l]

(* An instance is in FAULT state for a reason of its own or of its group, and  *)
(* a group in BACKUP state has none: vrrp_sync_backup() passes a group by that *)
(* says it is there.                                                           *)
StatesExact(ins, g) ==
    /\ \A v \in Instances : ins[v].state = "FAULT" =>
          Stuck(ins, v) \/ (v \in Sync /\ GroupStuck(ins))
    /\ g.state = "BACK" => ~GroupStuck(ins)

(* The scripts that start as failed have no first result to wait for. *)
InitFailRun ==
    \A s \in Scripts : /\ s \in InitFail => script[s].init_state # "INIT"
                       /\ script[s].init_state = "FAILED" => s \in InitFail

ExactInv == CountsExact /\ FlagsOwn /\ StatesExact(inst, group) /\ InitFailRun

LEMMA CallExact ==
    ASSUME Safe(inst', group'), NEW v \in Instances, CallStates(v), Others(v),
           StatesExact(inst, group)
    PROVE  StatesExact(inst', group')
<1>1. \A u \in Instances \ {v} : Stuck(inst', u) <=> Stuck(inst, u)
  BY DEF Others, Stuck
<1>2. Sync \subseteq Instances
  BY ConfigAssumption
<1>3. \A u \in Instances \ (Sync \union {v}) :
         inst'[u].state = "FAULT" => Stuck(inst', u)
  BY <1>1 DEF CallStates, StatesExact
<1>4. CASE v \notin Sync
  <2>1. GroupStuck(inst') <=> GroupStuck(inst)
    BY <1>1, <1>2, <1>4 DEF GroupStuck
  <2>2. \A u \in Sync : inst'[u].state = "FAULT" => GroupStuck(inst')
    BY <1>2, <1>4, <2>1 DEF CallStates, StatesExact, GroupStuck
  <2>3. inst'[v].state = "FAULT" => Stuck(inst', v)
    BY <1>4 DEF CallStates
  <2> QED BY <1>3, <1>4, <2>1, <2>2, <2>3 DEF CallStates, StatesExact
<1>5. CASE v \in Sync /\ GroupStuck(inst') /\ group'.state # "BACK"
  BY <1>3, <1>5 DEF StatesExact
<1>6. CASE v \in Sync /\ GroupStuck(inst') /\ GroupStuck(inst) /\ group'.state \in {group.state, "INIT"}
  BY <1>3, <1>6 DEF StatesExact
<1>7. CASE /\ v \in Sync /\ group'.state = "BACK" /\ GroupStuck(inst)
           /\ \A u \in Sync : inst'[u].state = "BACK" \/ group.state = "BACK"
  <2>1. \A u \in Sync : inst'[u].state = "BACK"
    BY <1>7 DEF StatesExact
  <2>2. ~GroupStuck(inst')
    BY <1>7, <2>1, StuckFault DEF AllFault
  <2> QED BY <1>3, <1>7, <2>1, <2>2 DEF StatesExact
<1> QED BY <1>4, <1>5, <1>6, <1>7 DEF CallStates

(* While a loop serves a result that is not the first of its script, no        *)
(* instance of the group waits for the first result of another one.            *)
LEMMA NoneStarting ==
    ASSUME NoLostResult, IndInv, InitFailRun, Running("track"),
           Head(stack).obj \in Scripts, ~Head(stack).init, NEW v \in Head(stack).rest
    PROVE  inst[v].num_script_init = 0 /\ (v \in Sync => group.num_member_init = 0)
<1> PICK f : f = Head(stack)
  OBVIOUS
<1>1. /\ v \in TrackedBy[f.obj] /\ v \in Instances /\ f.obj \in Scripts /\ ~f.init
      /\ script[f.obj].init_state = "DONE"
  BY BeforeHearing DEF IndInv, TrackInv
<1>2. ASSUME NEW u \in Instances, SameGroup(v, u)
      PROVE  inst[u].num_script_init = 0
  <2>1. ASSUME NEW t \in Scripts, u \in TrackedBy[t]
        PROVE  ~KnownInit(u, t)
    <3>1. CASE t = f.obj
      BY <1>1, <3>1 DEF KnownInit, Pending
    <3>2. CASE t # f.obj
      <4>1. ~Pending(u, t)
        BY <3>2 DEF Pending
      <4>2. t \in InitFail
        BY <1>1, <1>2, <2>1, <3>2 DEF NoLostResult
      <4> QED BY <4>1, <4>2 DEF KnownInit, InitFailRun
    <3> QED BY <3>1, <3>2
  <2>2. WaitsFor(u) = {}
    BY <2>1 DEF WaitsFor
  <2>3. inst[u].num_script_init = Cardinality(WaitsFor(u))
    BY DEF IndInv, KnownInv
  <2> QED BY <2>2, <2>3, FS_EmptySet
<1>3. inst[v].num_script_init = 0
  BY <1>1, <1>2 DEF SameGroup
<1>4. v \in Sync => group.num_member_init = 0
  <2>1. SUFFICES ASSUME v \in Sync
                 PROVE  group.num_member_init = 0
    OBVIOUS
  <2>2. \A u \in Sync : inst[u].num_script_init = 0
    BY <1>2, <2>1, ConfigAssumption DEF SameGroup
  <2>3. StartingIn(inst) = {}
    BY <2>2 DEF StartingIn
  <2> QED BY <2>3, FS_EmptySet DEF IndInv, Safe, Counts
<1> QED BY <1>3, <1>4

LEMMA LoopExact ==
    ASSUME NoLostResult, IndInv, ExactInv, Running("track"), NEW f, f = Head(stack),
           NEW v \in f.rest, inst' \in [Instances -> Instance],
           stack' = Push([f EXCEPT !.rest = @ \ {v}], Tail(stack)),
           script' = script, up' = up,
           Heard(v, f), Others(v)
    PROVE  CountsExact' /\ FlagsOwn'
<1>1. /\ \A u \in Instances : \A obj \in Objects : ~(u = v /\ obj = f.obj) =>
            (KnownFail(u, obj)' <=> KnownFail(u, obj))
      /\ KnownFail(v, f.obj) <=> ~f.init /\ StatusOk(v, f.obj, f.ok)
      /\ KnownFail(v, f.obj)' <=> ~StatusOk(v, f.obj, f.ok)
  BY LoopKnown
<1>2. /\ v \in Instances /\ f.obj \in Objects /\ v \in TrackedBy[f.obj] /\ f.init \in BOOLEAN
  BY BeforeHearing
<1>3. /\ \A u \in Instances \ {v} :
            /\ inst'[u].flags_if_fault = inst[u].flags_if_fault
            /\ inst'[u].num_track_fault = inst[u].num_track_fault
  BY DEF Others
<1>4. FlagsOwn'
  <2>1. ASSUME NEW flag \in inst'[v].flags_if_fault, flag # "TRACKER"
        PROVE  \E l \in Links : v \in TrackedBy[l] /\ flag = LinkFlag[l]
    <3>1. flag \in inst[v].flags_if_fault \/ (f.obj \in Links /\ flag = LinkFlag[f.obj])
      BY <1>2, <2>1 DEF Heard
    <3> QED BY <1>2, <2>1, <3>1 DEF ExactInv, FlagsOwn
  <2> QED BY <1>3, <2>1 DEF ExactInv, FlagsOwn
<1>5. ASSUME NEW u \in Instances, u # v
      PROVE  inst'[u].num_track_fault <= Cardinality(FailedTrackers(u)')
  <2>1. FailedTrackers(u)' = FailedTrackers(u)
    BY <1>1, <1>5 DEF FailedTrackers, Objects
  <2> QED BY <1>3, <1>5, <2>1 DEF ExactInv, CountsExact
<1>6. inst'[v].num_track_fault <= Cardinality(FailedTrackers(v)')
  <2> DEFINE S == FailedTrackers(v)
             T == FailedTrackers(v)'
             n == inst[v].num_track_fault
             m == inst'[v].num_track_fault
  <2>1. \A obj \in Scripts \union Trackers : obj # f.obj => (obj \in T <=> obj \in S)
    BY <1>1, <1>2 DEF FailedTrackers, Objects
  <2>2. f.obj \in T <=> f.obj \notin Links /\ ~StatusOk(v, f.obj, f.ok)
    BY <1>1, <1>2, ConfigAssumption DEF FailedTrackers, Objects
  <2>3. f.obj \in S <=> f.obj \notin Links /\ StatusOk(v, f.obj, f.ok) /\ ~f.init
    BY <1>1, <1>2, ConfigAssumption DEF FailedTrackers, Objects
  <2>4. S \subseteq Scripts \union Trackers /\ T \subseteq Scripts \union Trackers
    BY DEF FailedTrackers
  <2>5. IsFiniteSet(S) /\ Cardinality(S) \in Nat /\ n <= Cardinality(S)
    BY <1>2, KnownFinite DEF ExactInv, CountsExact
  <2>6. n \in Nat /\ m \in Nat
    BY <1>2 DEF IndInv, Safe, Instance
  <2>7. CASE f.obj \in Links \/ (StatusOk(v, f.obj, f.ok) /\ f.init)
    <3>1. m = n
      BY <2>7 DEF Heard
    <3> HIDE DEF S, T
    <3>2. T = S
      BY <2>1, <2>2, <2>3, <2>4, <2>7
    <3> QED BY <2>5, <3>1, <3>2 DEF S, T
  <2>8. CASE f.obj \notin Links /\ ~StatusOk(v, f.obj, f.ok)
    <3>1. m = n + 1
      BY <2>8 DEF Heard
    <3> HIDE DEF S, T
    <3>2. T = S \union {f.obj} /\ f.obj \notin S
      BY <2>1, <2>2, <2>3, <2>4, <2>8
    <3>3. Cardinality(T) = Cardinality(S) + 1
      BY Zenon, <2>5, <3>2, FS_AddElement
    <3>4. m <= Cardinality(T)
      BY <2>5, <2>6, <3>1, <3>3
    <3> QED BY <3>4 DEF T
  <2>9. CASE f.obj \notin Links /\ StatusOk(v, f.obj, f.ok) /\ ~f.init
    <3>1. ~(f.obj \in Scripts /\ (inst[v].num_script_init # 0
                                    \/ (v \in Sync /\ group.num_member_init # 0)))
      BY <2>9, NoneStarting DEF ExactInv
    <3>2. m = n - 1
      BY <2>9, <3>1 DEF Heard
    <3> HIDE DEF S, T
    <3>3. T = S \ {f.obj} /\ f.obj \in S
      BY <2>1, <2>2, <2>3, <2>4, <2>9
    <3>4. Cardinality(S) = Cardinality(T) + 1 /\ Cardinality(T) \in Nat
      BY <2>5, <3>3, RemoveOne
    <3>5. m <= Cardinality(T)
      BY <2>5, <2>6, <3>2, <3>4
    <3> QED BY <3>5 DEF T
  <2> QED BY <1>2, <2>7, <2>8, <2>9
<1> QED BY <1>4, <1>5, <1>6 DEF CountsExact

(* A step that moves no counter and forgets no fault. *)
LEMMA CountersStay ==
    ASSUME IndInv, CountsExact, FlagsOwn, SameCounters,
           \A obj \in Scripts \union Trackers : \A u \in TrackedBy[obj] :
              KnownFail(u, obj) => KnownFail(u, obj)'
    PROVE  CountsExact' /\ FlagsOwn'
<1>1. FlagsOwn'
  BY DEF FlagsOwn, SameCounters
<1>2. ASSUME NEW u \in Instances
      PROVE  inst'[u].num_track_fault <= Cardinality(FailedTrackers(u)')
  <2> DEFINE S == FailedTrackers(u)
             T == FailedTrackers(u)'
  <2>1. S \subseteq T
    BY DEF FailedTrackers
  <2>2. T \subseteq Objects
    BY DEF FailedTrackers, Objects
  <2>3. inst'[u].num_track_fault <= Cardinality(S) /\ inst'[u].num_track_fault \in Nat
    BY DEF SameCounters, CountsExact, IndInv, Safe, Instance
  <2> HIDE DEF S, T
  <2>4. IsFiniteSet(T) /\ IsFiniteSet(S)
    BY <2>1, <2>2, ConfigAssumption, FS_Subset
  <2>5. Cardinality(S) <= Cardinality(T) /\ Cardinality(S) \in Nat /\ Cardinality(T) \in Nat
    BY <2>1, <2>4, FS_Subset, FS_CardinalityType
  <2>6. inst'[u].num_track_fault <= Cardinality(T)
    BY <2>3, <2>5
  <2> QED BY <2>6 DEF T
<1> QED BY <1>1, <1>2 DEF CountsExact

LEMMA MoveExact ==
    ASSUME IndInv, IndInv', ExactInv, Moves
    PROVE  ExactInv'
<1>1. CountsExact' /\ FlagsOwn'
  <2>1. Quiet /\ Quiet'
    BY DEF Moves, Quiet
  <2> QED BY <2>1, QuietKnown, CountersStay DEF ExactInv, Moves, Objects
<1>2. \A u \in Instances : Stuck(inst', u) <=> Stuck(inst, u)
  BY DEF Moves, SameCounters, Stuck
<1>3. GroupStuck(inst') <=> GroupStuck(inst)
  BY <1>2, ConfigAssumption DEF GroupStuck
<1>4. (\E u \in Sync : inst'[u].state # "FAULT") => ~GroupStuck(inst')
  BY StuckFault DEF IndInv, AllFault
<1>5. StatesExact(inst', group')
  BY <1>2, <1>3, <1>4 DEF Moves, ExactInv, StatesExact
<1>6. InitFailRun'
  BY DEF ExactInv, InitFailRun, Moves
<1> QED BY <1>1, <1>5, <1>6 DEF ExactInv, StatesExact, GroupStuck, Stuck

LEMMA TrackLoopExact ==
    ASSUME Owners = {}, OneLinkPerFlag, NoLostResult, IndInv, IndInv', ExactInv, TrackLoop
    PROVE  ExactInv'
<1> PICK f : f = Head(stack)
  OBVIOUS
<1>1. Running("track") /\ script' = script /\ up' = up
  BY DEF TrackLoop
<1>2. CASE f.rest = {}
  <2>1. Moves
    BY <1>2, TrackLoopStep
  <2> QED BY <2>1, MoveExact
<1>3. CASE f.rest # {}
  <2>1. PICK v \in f.rest :
           LET rest == Push([f EXCEPT !.rest = @ \ {v}], Tail(stack)) IN
           IF f.obj \in Scripts
           THEN ScriptUpdate(v, f.obj, f.ok, f.init, rest)
           ELSE StatusUpdate(v, f.obj, f.ok, rest)
    BY <1>3 DEF TrackLoop
  <2>2. /\ stack' = Push([f EXCEPT !.rest = @ \ {v}], Tail(stack))
        /\ Safe(inst', group') /\ Heard(v, f) /\ Others(v) /\ CallStates(v)
    <3>1. CASE f.obj \in Scripts
      BY <1>1, <2>1, <3>1, ScriptUpdateLemma
    <3>2. CASE f.obj \notin Scripts
      BY <1>1, <2>1, <3>2, StatusUpdateLemma
    <3> QED BY <3>1, <3>2
  <2>3. v \in Instances
    BY <1>1, BeforeHearing
  <2>4. StatesExact(inst', group')
    BY <2>2, <2>3, CallExact DEF ExactInv
  <2>5. CountsExact' /\ FlagsOwn'
    <3>1. inst' \in [Instances -> Instance]
      BY <2>2 DEF Safe
    <3> QED BY <1>1, <2>2, <3>1, LoopExact
  <2>6. InitFailRun'
    BY <1>1 DEF ExactInv, InitFailRun
  <2> QED BY <2>4, <2>5, <2>6 DEF ExactInv
<1> QED BY <1>2, <1>3

(* An event that changes what an object says and nothing of the instances. *)
LEMMA EventExact ==
    ASSUME IndInv, ExactInv, inst' = inst, group' = group, InitFailRun',
           \A obj \in Scripts \union Trackers : \A u \in TrackedBy[obj] :
              KnownFail(u, obj) => KnownFail(u, obj)'
    PROVE  ExactInv'
<1>1. SameCounters
  BY DEF SameCounters
<1>2. CountsExact' /\ FlagsOwn'
  BY Zenon, <1>1, CountersStay DEF ExactInv
<1>3. StatesExact(inst', group')
  BY DEF ExactInv
<1> QED BY <1>2, <1>3 DEF ExactInv

LEMMA InitExact ==
    ASSUME Owners = {}, OneLinkPerFlag, Init
    PROVE  ExactInv
<1>1. PICK want \in [Instances -> {"BACK", "MAST"}] :
         /\ group = InitGroup(want, up)
         /\ inst = [v \in Instances |-> InitInstance(want, up, group, v)]
  BY DEF Init
<1>2. \A v \in Instances :
         /\ inst[v].flags_if_fault = InitFlags(v, up)
         /\ inst[v].num_script_init = NumScriptInit(v)
         /\ inst[v].num_track_fault = NumTrackFault(v, up)
         /\ inst[v].state = IF \/ InitFlags(v, up) # {}
                               \/ v \in Sync /\ group.state = "FAULT"
                               \/ NumScriptInit(v) > 0
                               \/ v \in Sync /\ group.num_member_init > 0
                            THEN "FAULT" ELSE "BACK"
  BY <1>1 DEF InitInstance
<1>3. /\ \A v, obj : ~Pending(v, obj)
      /\ \A s \in Scripts : script[s].init_state = IF s \in InitFail THEN "FAILED" ELSE "INIT"
      /\ InitFail \subseteq Scripts /\ \A t \in Trackers : t \notin Scripts
      /\ Sync \subseteq Instances
  BY ConfigAssumption DEF Init, Pending, Running
<1>4. CountsExact
  <2>1. SUFFICES ASSUME NEW v \in Instances
                 PROVE  inst[v].num_track_fault <= Cardinality(FailedTrackers(v))
    BY DEF CountsExact
  <2> DEFINE T == {t \in Trackers : v \in TrackedBy[t] /\ ~StatusOk(v, t, up[t])}
                    \union {s \in InitFail : v \in TrackedBy[s]}
  <2>2. T \subseteq FailedTrackers(v)
    BY <1>3 DEF FailedTrackers, KnownFail
  <2>3. IsFiniteSet(T) /\ inst[v].num_track_fault = Cardinality(T)
    BY <1>2, InitCounters DEF NumTrackFault
  <2> HIDE DEF T
  <2>4. Cardinality(T) <= Cardinality(FailedTrackers(v))
    BY <2>2, KnownFinite, FS_Subset
  <2> QED BY <2>3, <2>4
<1>5. FlagsOwn
  BY <1>2 DEF FlagsOwn, InitFlags, FailedAtInit
<1>6. InitFailRun
  BY <1>3 DEF InitFailRun
<1>7. StatesExact(inst, group)
  <2> DEFINE faulted == {v \in Sync : InitFlags(v, up) # {}}
             starting == {v \in Sync : NumScriptInit(v) > 0}
  <2>1. /\ group.num_member_init = Cardinality(starting)
        /\ group.state = "FAULT" <=> faulted # {}
        /\ group.state = "BACK" => faulted = {} /\ starting = {}
    BY <1>1 DEF InitGroup
  <2>2. \A v \in Instances : NumScriptInit(v) \in Nat
    BY Zenon, InitCounters
  <2>3. GroupStuck(inst) <=> faulted # {} \/ starting # {}
    BY <1>2, <1>3, <2>2 DEF GroupStuck, Stuck
  <2>4. group.num_member_init > 0 => starting # {}
    BY <2>1, FS_EmptySet
  <2> HIDE DEF faulted, starting
  <2> QED BY <1>2, <2>1, <2>2, <2>3, <2>4 DEF StatesExact, Stuck
<1> QED BY <1>4, <1>5, <1>6, <1>7 DEF ExactInv

LEMMA NextExact ==
    ASSUME Owners = {}, OneLinkPerFlag, NoLostResult, IndInv, IndInv', ExactInv, [Next]_vars
    PROVE  ExactInv'
<1>1. CASE \/ \E v \in Instances : \/ vrrp_dispatcher_read_timeout(v)
                                   \/ vrrp_state_backup(v)
                                   \/ vrrp_state_master_rx(v)
           \/ vrrp_thread_timeout_handler \/ TsmHandle \/ SyncMasterLoop \/ PollEnd
  <2>1. Moves
    BY <1>1, ReadTimeoutStep, BackupStep, MasterRxStep, TimeoutHandlerStep, TsmHandleStep,
       SyncMasterLoopStep, PollEndStep
  <2> QED BY <2>1, MoveExact
<1>2. CASE delayed_start_clear_thread
  <2>1. UNCHANGED <<inst, group, script, up, stack>> /\ stack = <<>>
    BY <1>2 DEF delayed_start_clear_thread, Idle
  <2>2. Moves
    BY <2>1 DEF Moves, SameCounters, Quiet, Running
  <2> QED BY <2>2, MoveExact
<1>3. CASE \E l \in Links : process_if_status_change(l)
  <2>1. /\ inst' = inst /\ group' = group /\ script' = script
        /\ \A o \in Objects : \A u \in TrackedBy[o] : KnownFail(u, o)' <=> KnownFail(u, o)
    BY Zenon, <1>3, StatusStep DEF process_if_status_change
  <2>2. InitFailRun'
    BY <2>1 DEF ExactInv, InitFailRun
  <2> QED BY <2>1, <2>2, EventExact DEF Objects
<1>4. CASE \E t \in Trackers : TrackerChange(t)
  <2>1. PICK t \in Trackers : TrackerChange(t)
    BY <1>4
  <2>2. /\ Idle /\ stack = <<>> /\ up' = [up EXCEPT ![t] = ~up[t]]
        /\ stack' = <<TrackFrame(t, ~up[t], FALSE)>>
        /\ UNCHANGED <<inst, group, script, delayed>>
    BY <2>1 DEF TrackerChange, Idle
  <2>3. <<TrackFrame(t, ~up[t], FALSE)>> = Push(TrackFrame(t, ~up[t], FALSE), <<>>)
    BY DEF Push
  <2>4. \A o \in Objects : \A u \in TrackedBy[o] : KnownFail(u, o)' <=> KnownFail(u, o)
    BY Zenon, <2>2, <2>3, StatusStep
  <2>5. InitFailRun'
    BY <2>2 DEF ExactInv, InitFailRun
  <2> QED BY <2>2, <2>4, <2>5, EventExact DEF Objects
<1>5. CASE \E s \in Scripts, ok \in BOOLEAN : vrrp_script_child_thread(s, ok)
  <2>1. PICK s \in Scripts, ok \in BOOLEAN : vrrp_script_child_thread(s, ok)
    BY <1>5
  <2>2. /\ inst' = inst /\ group' = group /\ script \in [Scripts -> Script]
        /\ script' = [script EXCEPT ![s] = [init_state |-> "DONE",
                                            result |-> NextResult(script[s].result, ok)]]
    BY <2>1 DEF vrrp_script_child_thread, IndInv, EnvInv
  <2>3. InitFailRun'
    BY <2>2, ConfigAssumption DEF ExactInv, InitFailRun
  <2>4. \A o \in Objects : \A u \in TrackedBy[o] :
           (o = s /\ script[s].init_state = "FAILED" => <<u, s>> \notin Reverse) =>
              (KnownFail(u, o) => KnownFail(u, o)')
    BY <2>1, ScriptStep
  <2>5. \A u \in TrackedBy[s] : script[s].init_state = "FAILED" => <<u, s>> \notin Reverse
    BY DEF ExactInv, InitFailRun, NoLostResult
  <2>6. \A o \in Scripts \union Trackers : \A u \in TrackedBy[o] :
           KnownFail(u, o) => KnownFail(u, o)'
    BY Zenon, <2>4, <2>5 DEF Objects
  <2> QED BY <2>2, <2>3, <2>6, EventExact
<1>6. CASE TrackLoop
  BY <1>6, TrackLoopExact
<1>7. CASE TryUpEnd
  BY <1>7, RunningFrames DEF TryUpEnd, IndInv
<1>8. CASE UNCHANGED vars
  <2>1. UNCHANGED <<inst, group, script, up, stack>>
    BY <1>8 DEF vars
  <2>2. \A v, obj : KnownFail(v, obj)' <=> KnownFail(v, obj)
    BY <2>1 DEF KnownFail, Pending, Running, ScriptOk
  <2>3. InitFailRun'
    BY <2>1 DEF ExactInv, InitFailRun
  <2> QED BY <2>1, <2>2, <2>3, EventExact
<1> QED BY <1>1, <1>2, <1>3, <1>4, <1>5, <1>6, <1>7, <1>8 DEF Next

(* A fault ends with its reason: between two events an instance is in FAULT   *)
(* state only if it or a member of its group tracks something that is down or  *)
(* has not reported yet.  try_up_instance() and update_script_priorities()     *)
(* leave no instance in FAULT state, and no count of num_track_fault, behind.  *)
THEOREM FaultsEnd ==
    ASSUME Owners = {}, OneLinkPerFlag, NoLostResult
    PROVE  Spec => []FaultOnlyIfDown
<1>1. Init => IndInv /\ ExactInv
  BY InitInd, InitExact
<1>2. IndInv /\ ExactInv /\ [Next]_vars => IndInv' /\ ExactInv'
  BY NextInd, NextExact
<1>3. ASSUME IndInv, ExactInv PROVE FaultOnlyIfDown
  <2>1. ASSUME Idle, NEW u \in Instances, Stuck(inst, u)
        PROVE  Down(u)
    <3>1. \A obj : ~Pending(u, obj)
      BY <2>1 DEF Pending, Running, Idle
    <3>2. ASSUME NEW obj \in Objects, u \in TrackedBy[obj], KnownFail(u, obj)
          PROVE  Down(u)
      BY <3>1, <3>2 DEF KnownFail, Down, Fails, ScriptOk
    <3>3. CASE "TRACKER" \in inst[u].flags_if_fault
      <4>1. inst[u].num_track_fault # 0 /\ inst[u].num_track_fault \in Nat
        BY <1>3, <3>3 DEF IndInv, Safe, KnownInv, Instance
      <4>2. inst[u].num_track_fault <= Cardinality(FailedTrackers(u))
        BY <1>3 DEF ExactInv, CountsExact
      <4>3. FailedTrackers(u) # {}
        BY <4>1, <4>2, FS_EmptySet
      <4> QED BY <3>2, <4>3 DEF FailedTrackers, Objects
    <3>4. CASE \E flag \in inst[u].flags_if_fault : flag # "TRACKER"
      <4>1. PICK l \in Links : u \in TrackedBy[l] /\ LinkFlag[l] \in inst[u].flags_if_fault
        BY <1>3, <3>4 DEF ExactInv, FlagsOwn
      <4>2. KnownFail(u, l)
        BY <1>3, <4>1 DEF IndInv, KnownInv
      <4> QED BY <3>2, <4>1, <4>2 DEF Objects
    <3>5. CASE inst[u].num_script_init # 0
      <4>1. WaitsFor(u) # {}
        BY Zenon, <1>3, <3>5, FS_EmptySet DEF IndInv, KnownInv
      <4> QED BY <3>1, <4>1 DEF WaitsFor, KnownInit, Down, Fails, Objects
    <3> QED BY <2>1, <3>3, <3>4, <3>5 DEF Stuck
  <2> QED BY <1>3, <2>1, ConfigAssumption DEF FaultOnlyIfDown, ExactInv, StatesExact, GroupStuck
<1> QED BY <1>1, <1>2, <1>3, PTL DEF Spec
==============================================================================
