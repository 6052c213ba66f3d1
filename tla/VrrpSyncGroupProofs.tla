------------------------ MODULE VrrpSyncGroupProofs -------------------------
(* Proofs about VrrpSyncGroup, for any number of instances, links, scripts    *)
(* and trackers and any reports of them, of the configurations without an     *)
(* address owner in which no two links share a fault flag of an instance.     *)
EXTENDS VrrpSyncGroupCalls

(* The provers a leaf is tried with, in this order, unless it names one. *)
USE SMT, Zenon, Z3T(60)

------------------------------------------------------------------------------
(* Every step of VrrpSyncGroup keeps the invariant.                           *)
SameCounters ==
    \A u \in Instances :
        /\ inst'[u].flags_if_fault = inst[u].flags_if_fault
        /\ inst'[u].num_track_fault = inst[u].num_track_fault
        /\ inst'[u].num_script_init = inst[u].num_script_init

(* No counter changes, and no fault comes up that an instance does not know: *)
(* one of a script may be forgotten.                                           *)
LEMMA KnownLess ==
    ASSUME KnownInv, SameCounters, inst \in [Instances -> Instance],
           \A obj \in Objects : \A u \in TrackedBy[obj] :
              /\ KnownFail(u, obj)' => KnownFail(u, obj)
              /\ obj \in Links => (KnownFail(u, obj) => KnownFail(u, obj)')
              /\ obj \in Scripts => (KnownInit(u, obj)' <=> KnownInit(u, obj))
    PROVE  KnownInv'
<1>1. /\ Links \subseteq Objects /\ Scripts \subseteq Objects /\ Trackers \subseteq Objects
      /\ \A o \in Objects : TrackedBy[o] \subseteq Instances
  BY ConfigAssumption DEF Objects
<1>2. \A l \in Links : \A u \in TrackedBy[l] :
         LinkFlag[l] \in inst'[u].flags_if_fault <=> KnownFail(u, l)'
  <2>1. SUFFICES ASSUME NEW l \in Links, NEW u \in TrackedBy[l]
                 PROVE  LinkFlag[l] \in inst'[u].flags_if_fault <=> KnownFail(u, l)'
    OBVIOUS
  <2>2. u \in Instances /\ l \in Objects
    BY <1>1
  <2>3. LinkFlag[l] \in inst[u].flags_if_fault <=> KnownFail(u, l)
    BY DEF KnownInv
  <2> QED BY <2>2, <2>3 DEF SameCounters
<1>3. ASSUME NEW u \in Instances
      PROVE  /\ inst'[u].num_track_fault >= Cardinality(FailedTrackers(u)')
             /\ "TRACKER" \in inst'[u].flags_if_fault <=> inst'[u].num_track_fault # 0
             /\ inst'[u].num_script_init = Cardinality(WaitsFor(u)')
  <2>1. FailedTrackers(u)' \subseteq FailedTrackers(u)
    BY <1>1 DEF FailedTrackers
  <2>2. WaitsFor(u)' = WaitsFor(u)
    BY <1>1 DEF WaitsFor
  <2>3. /\ inst[u].num_track_fault >= Cardinality(FailedTrackers(u))
        /\ "TRACKER" \in inst[u].flags_if_fault <=> inst[u].num_track_fault # 0
        /\ inst[u].num_script_init = Cardinality(WaitsFor(u))
    BY DEF KnownInv
  <2>4. IsFiniteSet(FailedTrackers(u))
    BY KnownFinite
  <2>5. /\ Cardinality(FailedTrackers(u)') <= Cardinality(FailedTrackers(u))
        /\ IsFiniteSet(FailedTrackers(u)')
    BY <2>1, <2>4, FS_Subset
  <2>6. Cardinality(FailedTrackers(u)') \in Nat /\ Cardinality(FailedTrackers(u)) \in Nat
    BY <2>4, <2>5, FS_CardinalityType
  <2>7. inst[u].num_track_fault \in Nat
    BY DEF Instance
  <2> QED BY <2>2, <2>3, <2>5, <2>6, <2>7 DEF SameCounters
<1> QED BY <1>2, <1>3 DEF KnownInv

(* Nothing of what the instances know changes. *)
LEMMA KnownSame ==
    ASSUME KnownInv, SameCounters, inst \in [Instances -> Instance],
           \A obj \in Objects : \A u \in TrackedBy[obj] :
              /\ KnownFail(u, obj)' <=> KnownFail(u, obj)
              /\ obj \in Scripts => (KnownInit(u, obj)' <=> KnownInit(u, obj))
    PROVE  KnownInv'
BY KnownLess

(* No loop over the trackers has anything left to do, before or after. *)
Quiet == ~Running("track") \/ Head(stack).rest = {}

(* A step that moves no counter and takes no instance to FAULT state, nor the  *)
(* group to BACKUP state but with a member that is not in FAULT state.         *)
Moves ==
    /\ SameCounters /\ script' = script /\ up' = up
    /\ Quiet /\ ~Running("track")'
    /\ \A u \in Instances : inst'[u].state = "FAULT" => inst[u].state = "FAULT"
    /\ group'.state = "BACK" =>
          group.state = "BACK" \/ \E u \in Sync : inst'[u].state # "FAULT"

LEMMA QuietKnown ==
    ASSUME script' = script, up' = up, Quiet, Quiet'
    PROVE  \A obj \in Objects : \A u \in TrackedBy[obj] :
              /\ KnownFail(u, obj)' <=> KnownFail(u, obj)
              /\ KnownInit(u, obj)' <=> KnownInit(u, obj)
<1>1. \A obj \in Objects : \A u \in TrackedBy[obj] : ~Pending(u, obj) /\ ~Pending(u, obj)'
  BY DEF Pending, Quiet
<1>2. \A obj \in Objects : \A u \in TrackedBy[obj] : KnownFail(u, obj)' <=> KnownFail(u, obj)
  BY <1>1 DEF KnownFail, ScriptOk
<1>3. \A obj \in Objects : \A u \in TrackedBy[obj] : KnownInit(u, obj)' <=> KnownInit(u, obj)
  BY <1>1 DEF KnownInit
<1> QED BY <1>2, <1>3

LEMMA KnownQuiet ==
    ASSUME KnownInv, SameCounters, inst \in [Instances -> Instance],
           script' = script, up' = up, Quiet, Quiet'
    PROVE  KnownInv'
BY QuietKnown, KnownSame

LEMMA EnvSame ==
    ASSUME EnvInv, UNCHANGED <<script, up, delayed>>
    PROVE  EnvInv'
BY DEF EnvInv

(* A step that takes the first frame away. *)
LEMMA PopStack ==
    ASSUME StackInv, stack # <<>>, stack' = Tail(stack),
           \A i \in 2 .. Len(stack) : stack[i].op = "master" =>
              group'.state # "MAST" /\ Leads(inst', stack[i].v)
    PROVE  /\ StackInv'
           /\ stack' # <<>> => stack'[1].op # "track"
           /\ stack' # <<>> /\ Head(stack).op # "track" =>
                 stack'[1].op \in {"tsm", "master"}
<1>1. /\ stack \in Seq(Frame) /\ Len(stack) \in 1 .. 3
      /\ stack' \in Seq(Frame) /\ Len(stack') = Len(stack) - 1
      /\ Head(stack) = stack[1]
      /\ \A i \in 1 .. Len(stack') : stack'[i] = stack[i + 1]
      /\ stack' # <<>> <=> Len(stack') # 0
  BY TailLemma DEF StackInv, Shape, MastersLead
<1>2. \A i \in 1 .. Len(stack') : stack'[i].op = "master" =>
         /\ stack'[i].v \notin stack'[i].rest
         /\ group'.state # "MAST"
         /\ Leads(inst', stack'[i].v)
  BY <1>1 DEF StackInv, Shape, MastersLead
<1>3. StackInv'
  BY <1>1, <1>2 DEF StackInv, Shape, MastersLead
<1> QED BY <1>1, <1>3 DEF StackInv, Shape, MastersLead

LEMMA TrackLoopStep ==
    ASSUME Owners = {}, OneLinkPerFlag, IndInv, TrackLoop
    PROVE  IndInv' /\ (Head(stack).rest = {} => Moves)
<1> PICK f : f = Head(stack)
  OBVIOUS
<1>1. /\ Running("track") /\ UNCHANGED <<script, up, delayed>>
      /\ stack \in Seq(Frame) /\ stack # <<>> /\ f \in Frame /\ f.op = "track"
      /\ StackInv
  BY TailLemma DEF IndInv, StackInv, Shape, MastersLead, Running, TrackLoop
<1>2. EnvInv'
  BY <1>1, EnvSame DEF IndInv
<1>3. CASE f.rest = {}
  <2>1. stack' = Tail(stack) /\ inst' = inst /\ group' = group
    BY <1>3 DEF TrackLoop
  <2>2. /\ StackInv'
        /\ stack' # <<>> => stack'[1].op # "track"
    <3>1. \A i \in 2 .. Len(stack) : stack[i].op = "master" =>
             group'.state # "MAST" /\ Leads(inst', stack[i].v)
      BY <2>1 DEF IndInv, StackInv, Shape, MastersLead
    <3> QED BY <1>1, <2>1, <3>1, PopStack
  <2>3. ~Running("track")'
    BY <2>2 DEF Running, StackInv, Shape, MastersLead
  <2>4. TrackInv'
    BY <2>3 DEF TrackInv
  <2>5. KnownInv'
    <3>1. Quiet /\ Quiet'
      BY <1>3, <2>3 DEF Quiet
    <3>2. SameCounters
      BY <2>1 DEF SameCounters
    <3> QED BY <1>1, <3>1, <3>2, KnownQuiet DEF IndInv, Safe
  <2>6. Safe(inst', group')
    BY <2>1 DEF IndInv
  <2>7. Moves
    BY <1>1, <1>3, <2>1, <2>3 DEF Moves, SameCounters, Quiet
  <2> QED BY <1>2, <2>2, <2>4, <2>5, <2>6, <2>7 DEF IndInv
<1>4. CASE f.rest # {}
  <2>1. PICK v \in f.rest :
           LET rest == Push([f EXCEPT !.rest = @ \ {v}], Tail(stack)) IN
           IF f.obj \in Scripts
           THEN ScriptUpdate(v, f.obj, f.ok, f.init, rest)
           ELSE StatusUpdate(v, f.obj, f.ok, rest)
    BY <1>4 DEF TrackLoop
  <2> DEFINE h == [f EXCEPT !.rest = @ \ {v}]
             rest == Push(h, Tail(stack))
  <2>2. Safe(inst', group') /\ stack' = rest /\ Heard(v, f) /\ Others(v)
    <3>1. CASE f.obj \in Scripts
      BY <1>1, <2>1, <3>1, ScriptUpdateLemma
    <3>2. CASE f.obj \notin Scripts
      BY <1>1, <2>1, <3>2, StatusUpdateLemma
    <3> QED BY <3>1, <3>2
  <2>3. KnownInv' /\ TrackInv'
    <3>1. inst' \in [Instances -> Instance]
      BY <2>2 DEF Safe
    <3> QED BY <1>1, <2>2, <3>1, LoopKeepsKnown
  <2>4. StackInv'
    <3>1. /\ h \in Frame /\ h.op = "track" /\ h.obj = f.obj
          /\ Tail(stack) \in Seq(Frame)
      BY Zenon, <1>1, TrackFrames, TailLemma
    <3> HIDE DEF h
    <3>2. /\ rest \in Seq(Frame) /\ Len(rest) = Len(Tail(stack)) + 1 /\ rest[1] = h
          /\ \A i \in 2 .. Len(rest) : rest[i] = Tail(stack)[i - 1]
      BY Zenon, <3>1, PushLemma
    <3>3. /\ Len(Tail(stack)) = Len(stack) - 1 /\ Len(stack) \in Nat /\ Len(stack) > 0
          /\ f = stack[1]
          /\ \A i \in 1 .. Len(stack) - 1 : Tail(stack)[i] = stack[i + 1]
      BY <1>1, TailLemma
    <3> HIDE DEF rest
    <3>4. /\ stack' \in Seq(Frame) /\ Len(stack') = Len(stack) /\ stack'[1] = h
          /\ \A i \in 2 .. Len(stack) : stack'[i] = stack[i]
      BY <2>2, <3>2, <3>3
    <3>5. \A i \in 1 .. Len(stack') : stack'[i].op = "master" =>
             /\ i # 1
             /\ stack'[i].v \notin stack'[i].rest
             /\ group'.state # "MAST"
             /\ Leads(inst', stack'[i].v)
      <4>1. SUFFICES ASSUME NEW i \in 1 .. Len(stack'), stack'[i].op = "master"
                     PROVE  /\ i # 1
                            /\ stack'[i].v \notin stack'[i].rest
                            /\ group'.state # "MAST"
                            /\ Leads(inst', stack'[i].v)
        OBVIOUS
      <4>2. i # 1
        BY <3>1, <3>4, <4>1
      <4>3. stack'[i] = stack[i] /\ i \in 1 .. Len(stack)
        BY <3>3, <3>4, <4>2
      <4>4. /\ stack[i].v \notin stack[i].rest
            /\ group.state # "MAST" /\ Leads(inst, stack[i].v)
        BY <4>1, <4>3 DEF IndInv, StackInv, Shape, MastersLead
      <4>5. stack[i].v \in Instances
        <5>1. stack[i] \in Frame
          BY <1>1, <4>3
        <5> QED BY <4>1, <4>3, <5>1, MasterFrames, ConfigAssumption
      <4> QED BY <2>2, <4>2, <4>3, <4>4, <4>5 DEF Others
    <3> QED BY <1>1, <3>1, <3>3, <3>4, <3>5 DEF StackInv, Shape, MastersLead
  <2> QED BY <1>2, <1>4, <2>2, <2>3, <2>4 DEF IndInv
<1> QED BY <1>3, <1>4

(* An event starts a loop over the instances that track obj. *)
LEMMA NewTrack ==
    ASSUME IndInv, NEW obj \in Objects, NEW ok \in BOOLEAN, NEW init \in BOOLEAN,
           Idle \/ (Running("poll") /\ obj \in Links),
           stack' = Push(TrackFrame(obj, ok, init), stack),
           inst' = inst, group' = group
    PROVE  /\ StackInv'
           /\ Running("track")' /\ Head(stack)' = TrackFrame(obj, ok, init)
           /\ \A o \in Objects : \A u \in TrackedBy[o] : ~Pending(u, o) /\ (Pending(u, o)' <=> o = obj)
<1> DEFINE f == TrackFrame(obj, ok, init)
<1>1. /\ f \in Frame
      /\ f.op = "track" /\ f.obj = obj /\ f.ok = ok /\ f.init = init /\ f.rest = TrackedBy[obj]
  BY ConfigAssumption DEF TrackFrame, Frame
<1> HIDE DEF f
<1>2. stack \in Seq(Frame) /\ Len(stack) \in 0 .. 3
  BY DEF IndInv, StackInv, Shape, MastersLead
<1>3. /\ Push(f, stack) \in Seq(Frame) /\ Push(f, stack) # <<>> /\ Head(Push(f, stack)) = f
      /\ Len(Push(f, stack)) = Len(stack) + 1 /\ Push(f, stack)[1] = f
      /\ \A i \in 2 .. Len(Push(f, stack)) : Push(f, stack)[i] = stack[i - 1]
  BY <1>1, <1>2, PushLemma
<1>4. /\ stack' \in Seq(Frame) /\ stack' # <<>> /\ Head(stack') = f
      /\ Len(stack') = Len(stack) + 1 /\ stack'[1] = f
      /\ \A i \in 2 .. Len(stack) + 1 : stack'[i] = stack[i - 1]
  BY <1>2, <1>3 DEF f
<1>5. Idle => Len(stack) = 0
  BY DEF Idle
<1>6. ~Idle => Len(stack) = 2 /\ stack[1].op = "poll"
  BY <1>2 DEF Idle, Running, IndInv, StackInv, Shape, MastersLead
<1>7. ~Running("track")
  BY DEF Idle, Running
<1>8. \A i \in 1 .. Len(stack') : stack'[i].op = "master" =>
         /\ stack'[i].v \notin stack'[i].rest
         /\ group'.state # "MAST"
         /\ Leads(inst', stack'[i].v)
  <2>1. SUFFICES ASSUME NEW i \in 1 .. Len(stack'), stack'[i].op = "master"
                 PROVE  /\ stack'[i].v \notin stack'[i].rest
                        /\ group'.state # "MAST"
                        /\ Leads(inst', stack'[i].v)
    OBVIOUS
  <2>2. i # 1
    BY <1>1, <1>4, <2>1
  <2>3. i - 1 \in 1 .. Len(stack) /\ stack'[i] = stack[i - 1]
    BY <1>2, <1>4, <2>2
  <2>4. /\ stack[i - 1].v \notin stack[i - 1].rest
        /\ group.state # "MAST" /\ Leads(inst, stack[i - 1].v)
    BY <2>1, <2>3 DEF IndInv, StackInv, Shape, MastersLead
  <2> QED BY <2>3, <2>4
<1>9. ASSUME Idle PROVE StackInv'
  <2>1. Len(stack') = 1 /\ stack'[1].op = "track"
    BY <1>1, <1>4, <1>5, <1>9
  <2>2. Shape(stack')
    BY <2>1 DEF Shape
  <2> QED BY <1>4, <1>8, <2>2 DEF StackInv, MastersLead
<1>10. ASSUME ~Idle PROVE StackInv'
  <2>1. /\ Len(stack') = 3 /\ stack'[1] = f /\ stack'[2] = stack[1] /\ stack'[3] = stack[2]
        /\ obj \in Links
    <3>1. Len(stack) = 2 /\ obj \in Links
      BY <1>6, <1>10
    <3>2. stack'[2] = stack[2 - 1] /\ stack'[3] = stack[3 - 1]
      BY <1>4, <3>1
    <3> QED BY <1>4, <3>1, <3>2
  <2>2. stack[1].op = "poll" /\ stack[2].op \in {"tsm", "master"}
    BY <1>6, <1>10 DEF IndInv, StackInv, Shape
  <2>3. stack'[1].op = "track" /\ stack'[1].obj \in Links
    BY <1>1, <2>1
  <2>4. Shape(stack')
    BY <2>1, <2>2, <2>3 DEF Shape
  <2> QED BY <1>4, <1>8, <2>4 DEF StackInv, MastersLead
<1>11. StackInv'
  BY <1>9, <1>10
<1>12. \A o \in Objects : \A u \in TrackedBy[o] :
          ~Pending(u, o) /\ (Pending(u, o)' <=> o = obj)
  BY <1>1, <1>4, <1>7 DEF Pending, Running
<1> QED BY <1>1, <1>4, <1>11, <1>12 DEF Running, f

(* A link or a tracker that changes does so for the instances that track it    *)
(* only once the loop comes to them.                                           *)
LEMMA StatusStep ==
    ASSUME IndInv, NEW obj \in Links \union Trackers,
           Idle \/ (Running("poll") /\ obj \in Links),
           up' = [up EXCEPT ![obj] = ~up[obj]],
           stack' = Push(TrackFrame(obj, ~up[obj], FALSE), stack),
           UNCHANGED <<inst, group, script, delayed>>
    PROVE  /\ IndInv'
           /\ \A o \in Objects : \A u \in TrackedBy[o] : KnownFail(u, o)' <=> KnownFail(u, o)
<1>1. /\ obj \in Objects /\ obj \notin Scripts
  BY ConfigAssumption DEF Objects
<1>2. /\ up \in [Links \union Trackers -> BOOLEAN] /\ up[obj] \in BOOLEAN
      /\ up' \in [Links \union Trackers -> BOOLEAN] /\ up'[obj] = ~up[obj]
      /\ \A o \in Links \union Trackers : o # obj => up'[o] = up[o]
  BY DEF IndInv, EnvInv
<1> PICK ok \in BOOLEAN : ok = ~up[obj]
  BY Zenon, <1>2
<1>3. /\ StackInv'
      /\ Running("track")' /\ Head(stack)' = TrackFrame(obj, ok, FALSE)
      /\ \A o \in Objects : \A u \in TrackedBy[o] :
            ~Pending(u, o) /\ (Pending(u, o)' <=> o = obj)
  BY Zenon, <1>1, NewTrack
<1> DEFINE f == TrackFrame(obj, ok, FALSE)
<1>4. f.obj = obj /\ f.ok = ok /\ f.init = FALSE /\ f.rest = TrackedBy[obj]
  BY DEF TrackFrame
<1> HIDE DEF f
<1>5. Head(stack') = f
  BY Zenon, <1>3 DEF f
<1>6. TrackInv'
  BY ZenonT(40), <1>1, <1>2, <1>4, <1>5 DEF TrackInv
<1>7. ASSUME NEW o \in Objects, NEW u \in TrackedBy[o]
      PROVE  /\ KnownFail(u, o)' <=> KnownFail(u, o)
             /\ o \in Scripts => (KnownInit(u, o)' <=> KnownInit(u, o))
  <2>1. CASE o = obj
    <3>1. Pending(u, o)' /\ ~Pending(u, o)
      BY <1>3, <2>1
    <3>2. KnownFail(u, o)' <=> StatusOk(u, obj, ok)
      BY ZenonT(40), <1>4, <1>5, <2>1, <3>1 DEF KnownFail
    <3>3. KnownFail(u, o) <=> ~StatusOk(u, obj, up[obj])
      BY <1>1, <2>1, <3>1 DEF KnownFail
    <3>4. StatusOk(u, obj, ok) <=> ~StatusOk(u, obj, up[obj])
      BY <1>2 DEF StatusOk
    <3> QED BY <1>1, <2>1, <3>2, <3>3, <3>4
  <2>2. CASE o # obj
    <3>1. ~Pending(u, o)' /\ ~Pending(u, o)
      BY <1>3, <2>2
    <3>2. o \notin Scripts => up'[o] = up[o]
      BY <1>2, <2>2 DEF Objects
    <3>3. KnownFail(u, o)' <=> KnownFail(u, o)
      BY <3>1, <3>2 DEF KnownFail, ScriptOk
    <3>4. KnownInit(u, o)' <=> KnownInit(u, o)
      BY <3>1 DEF KnownInit
    <3> QED BY <3>3, <3>4
  <2> QED BY <2>1, <2>2
<1>8. KnownInv'
  <2>1. SameCounters
    BY DEF SameCounters
  <2> QED BY <1>7, <2>1, KnownSame DEF IndInv, Safe
<1>9. EnvInv'
  BY <1>2 DEF IndInv, EnvInv
<1> QED BY <1>3, <1>6, <1>7, <1>8, <1>9 DEF IndInv

(* The result of a script crosses rise exactly when the loop is started. *)
LEMMA NextResultLemma ==
    ASSUME NEW r \in 0 .. Rise + Fall - 1, NEW ok \in BOOLEAN
    PROVE  LET q == NextResult(r, ok) IN
           /\ q \in 0 .. Rise + Fall - 1
           /\ ok => (q >= Rise <=> r >= Rise \/ r = Rise - 1)
           /\ ~ok => (q >= Rise <=> r > Rise)
BY ConfigAssumption DEF NextResult

LEMMA ScriptStep ==
    ASSUME IndInv, NEW s \in Scripts, NEW ok \in BOOLEAN, vrrp_script_child_thread(s, ok)
    PROVE  /\ IndInv'
           /\ \A o \in Objects : \A u \in TrackedBy[o] :
                 (o = s /\ script[s].init_state = "FAILED" => <<u, s>> \notin Reverse) =>
                    (KnownFail(u, o) => KnownFail(u, o)')
<1> PICK r : r = script[s].result
  OBVIOUS
<1> PICK init \in BOOLEAN : init = (script[s].init_state = "INIT")
  BY Zenon
<1> DEFINE updates == IF ok THEN r = Rise - 1 ELSE r = Rise \/ (r < Rise /\ init)
           q == NextResult(r, ok)
<1>1. /\ Idle /\ stack = <<>>
      /\ script' = [script EXCEPT ![s] = [init_state |-> "DONE", result |-> q]]
      /\ stack' = IF updates THEN <<TrackFrame(s, ok, init)>> ELSE <<>>
      /\ UNCHANGED <<inst, group, up, delayed>>
  BY Zenon DEF vrrp_script_child_thread, Idle
<1>2. /\ script \in [Scripts -> Script] /\ r \in 0 .. Rise + Fall - 1
      /\ script[s].init_state \in {"INIT", "FAILED", "DONE"}
      /\ init => r = Rise - 1
      /\ Rise \in Nat \ {0} /\ Fall \in Nat \ {0}
  BY Zenon, ConfigAssumption DEF IndInv, EnvInv, Script
<1>3. /\ q \in 0 .. Rise + Fall - 1
      /\ ok => (q >= Rise <=> r >= Rise \/ r = Rise - 1)
      /\ ~ok => (q >= Rise <=> r > Rise)
  BY <1>2, NextResultLemma
<1> HIDE DEF q
<1>4. /\ script' \in [Scripts -> Script]
      /\ script'[s].init_state = "DONE" /\ script'[s].result = q
      /\ \A o \in Scripts : o # s => script'[o] = script[o]
  BY <1>1, <1>2, <1>3 DEF Script
<1>5. EnvInv'
  BY <1>1, <1>4 DEF IndInv, EnvInv
<1>6. s \in Objects /\ s \notin Links
  BY ConfigAssumption DEF Objects
<1>7. ASSUME NEW o \in Objects, NEW u \in TrackedBy[o], o # s, ~Pending(u, o), ~Pending(u, o)'
      PROVE  /\ KnownFail(u, o)' <=> KnownFail(u, o)
             /\ o \in Scripts => (KnownInit(u, o)' <=> KnownInit(u, o))
  <2>1. o \in Scripts => script'[o] = script[o]
    BY <1>4, <1>7
  <2>2. KnownFail(u, o)' <=> KnownFail(u, o)
    BY <1>1, <1>7, <2>1 DEF KnownFail, ScriptOk
  <2>3. o \in Scripts => (KnownInit(u, o)' <=> KnownInit(u, o))
    BY <1>7, <2>1 DEF KnownInit
  <2> QED BY <2>2, <2>3
<1>8. SameCounters
  BY <1>1 DEF SameCounters
<1>9. ASSUME NEW u, script[s].init_state = "FAILED", <<u, s>> \notin Reverse
       PROVE  ~StatusOk(u, s, r >= Rise)
  <2>1. ~(r >= Rise)
    BY <1>2, <1>9 DEF IndInv, EnvInv
  <2> QED BY <1>9, <2>1 DEF StatusOk
<1>10. CASE updates
  <2> DEFINE f == TrackFrame(s, ok, init)
  <2>1. stack' = Push(f, stack)
    <3>1. stack' = <<f>>
      BY <1>1, <1>10
    <3> HIDE DEF f
    <3> QED BY <1>1, <3>1 DEF Push
  <2>2. /\ StackInv'
        /\ Running("track")' /\ Head(stack)' = f
        /\ \A o \in Objects : \A u \in TrackedBy[o] :
              ~Pending(u, o) /\ (Pending(u, o)' <=> o = s)
    BY ZenonT(40), <1>1, <1>6, <2>1, NewTrack
  <2>3. f.obj = s /\ f.ok = ok /\ f.init = init /\ f.rest = TrackedBy[s]
    BY DEF TrackFrame
  <2> HIDE DEF f
  <2>4. Head(stack') = f
    BY <2>2
  <2>5. ok = (q >= Rise)
    BY <1>2, <1>3, <1>10
  <2>6. TrackInv'
    BY <1>4, <2>3, <2>4, <2>5 DEF TrackInv, ScriptOk
  <2>7. ~init => (ok <=> ~(r >= Rise))
    BY <1>2, <1>10
  <2>8. ASSUME NEW u \in TrackedBy[s]
        PROVE  /\ KnownFail(u, s)' => KnownFail(u, s)
               /\ (script[s].init_state = "FAILED" => <<u, s>> \notin Reverse) =>
                     (KnownFail(u, s) => KnownFail(u, s)')
               /\ KnownInit(u, s)' <=> KnownInit(u, s)
    <3>1. Pending(u, s)' /\ ~Pending(u, s)
      BY <1>6, <2>2
    <3>2. KnownFail(u, s)' <=> ~init /\ StatusOk(u, s, ok)
      BY <2>3, <2>4, <3>1 DEF KnownFail
    <3>3. KnownFail(u, s) <=> \/ script[s].init_state = "FAILED"
                              \/ script[s].init_state = "DONE" /\ ~StatusOk(u, s, r >= Rise)
      BY Zenon, <3>1 DEF KnownFail, ScriptOk
    <3>4. ~init => (StatusOk(u, s, ok) <=> ~StatusOk(u, s, r >= Rise))
      BY <2>7 DEF StatusOk
    <3>5. KnownInit(u, s)' <=> KnownInit(u, s)
      BY ZenonT(40), <2>3, <2>4, <3>1 DEF KnownInit
    <3>6. script[s].init_state \in {"INIT", "FAILED", "DONE"}
      BY <1>2
    <3> QED BY Zenon, <1>9, <3>2, <3>3, <3>4, <3>5, <3>6
  <2>9. \A o \in Objects : \A u \in TrackedBy[o] :
             /\ KnownFail(u, o)' => KnownFail(u, o)
             /\ o \in Links => (KnownFail(u, o) => KnownFail(u, o)')
             /\ (o = s /\ script[s].init_state = "FAILED" => <<u, s>> \notin Reverse) =>
                   (KnownFail(u, o) => KnownFail(u, o)')
             /\ o \in Scripts => (KnownInit(u, o)' <=> KnownInit(u, o))
    BY <1>6, <1>7, <2>2, <2>8
  <2>10. KnownInv'
    <3>1. KnownInv /\ inst \in [Instances -> Instance]
      BY DEF IndInv, Safe
    <3>2. \A o \in Objects : \A u \in TrackedBy[o] :
             /\ KnownFail(u, o)' => KnownFail(u, o)
             /\ o \in Links => (KnownFail(u, o) => KnownFail(u, o)')
             /\ o \in Scripts => (KnownInit(u, o)' <=> KnownInit(u, o))
      BY Zenon, <2>9
    <3> QED BY Zenon, <1>8, <3>1, <3>2, KnownLess
  <2> QED BY <1>1, <1>5, <2>2, <2>6, <2>9, <2>10 DEF IndInv
<1>11. CASE ~updates
  <2>1. stack' = <<>>
    BY <1>1, <1>11
  <2>2. ~Running("track") /\ ~Running("track")'
    BY <1>1, <2>1 DEF Running
  <2>3. StackInv'
    <3>1. stack' \in Seq(Frame) /\ Len(stack') = 0
      BY <2>1
    <3> QED BY <3>1 DEF StackInv, Shape, MastersLead
  <2>4. TrackInv'
    BY <2>2 DEF TrackInv
  <2>5. \A o \in Objects : \A u \in TrackedBy[o] : ~Pending(u, o) /\ ~Pending(u, o)'
    BY <2>2 DEF Pending
  <2>6. ~init /\ (q >= Rise <=> r >= Rise)
    BY <1>2, <1>3, <1>11
  <2>7. ASSUME NEW u \in TrackedBy[s]
        PROVE  /\ KnownFail(u, s)' => KnownFail(u, s)
               /\ (script[s].init_state = "FAILED" => <<u, s>> \notin Reverse) =>
                     (KnownFail(u, s) => KnownFail(u, s)')
               /\ KnownInit(u, s)' <=> KnownInit(u, s)
    <3>1. ~Pending(u, s)' /\ ~Pending(u, s)
      BY <1>6, <2>5
    <3>2. KnownFail(u, s)' <=> ~StatusOk(u, s, q >= Rise)
      BY <1>4, <3>1 DEF KnownFail, ScriptOk
    <3>3. KnownFail(u, s) <=> \/ script[s].init_state = "FAILED"
                              \/ script[s].init_state = "DONE" /\ ~StatusOk(u, s, r >= Rise)
      BY Zenon, <3>1 DEF KnownFail, ScriptOk
    <3>4. StatusOk(u, s, q >= Rise) <=> StatusOk(u, s, r >= Rise)
      BY <2>6 DEF StatusOk
    <3>5. KnownInit(u, s)' <=> KnownInit(u, s)
      BY ZenonT(40), <1>4, <2>6, <3>1 DEF KnownInit
    <3>6. script[s].init_state \in {"INIT", "FAILED", "DONE"}
      BY <1>2
    <3> QED BY Zenon, <1>9, <2>6, <3>2, <3>3, <3>4, <3>5, <3>6
  <2>8. \A o \in Objects : \A u \in TrackedBy[o] :
             /\ KnownFail(u, o)' => KnownFail(u, o)
             /\ o \in Links => (KnownFail(u, o) => KnownFail(u, o)')
             /\ (o = s /\ script[s].init_state = "FAILED" => <<u, s>> \notin Reverse) =>
                   (KnownFail(u, o) => KnownFail(u, o)')
             /\ o \in Scripts => (KnownInit(u, o)' <=> KnownInit(u, o))
    BY <1>6, <1>7, <2>5, <2>7
  <2>9. KnownInv'
    <3>1. KnownInv /\ inst \in [Instances -> Instance]
      BY DEF IndInv, Safe
    <3>2. \A o \in Objects : \A u \in TrackedBy[o] :
             /\ KnownFail(u, o)' => KnownFail(u, o)
             /\ o \in Links => (KnownFail(u, o) => KnownFail(u, o)')
             /\ o \in Scripts => (KnownInit(u, o)' <=> KnownInit(u, o))
      BY Zenon, <2>8
    <3> QED BY Zenon, <1>8, <3>1, <3>2, KnownLess
  <2> QED BY <1>1, <1>5, <2>3, <2>4, <2>8, <2>9 DEF IndInv
<1> QED BY <1>10, <1>11

(* The steps that change the states of the instances and nothing they know. *)
LEMMA QuietStep ==
    ASSUME IndInv, SameCounters, Safe(inst', group'), StackInv',
           Quiet, ~Running("track")', script' = script, up' = up, delayed' \in BOOLEAN
    PROVE  IndInv'
<1>1. KnownInv'
  <2>1. Quiet'
    BY DEF Quiet
  <2> QED BY <2>1, KnownQuiet DEF IndInv, Safe
<1>2. TrackInv'
  BY DEF TrackInv
<1>3. EnvInv'
  BY DEF IndInv, EnvInv
<1> QED BY <1>1, <1>2, <1>3 DEF IndInv

(* If a member is not in FAULT state no member has a fault or waits. *)
LEMMA SafeMove ==
    ASSUME Safe(inst, group), SameCounters,
           inst' \in [Instances -> Instance], group' \in Group,
           group'.num_member_fault = group.num_member_fault,
           group'.num_member_init = group.num_member_init,
           \A u \in Instances : /\ inst'[u].state # "INIT"
                                /\ inst'[u].vipset => inst'[u].state = "MAST"
                                /\ inst'[u].state = "MAST" => inst'[u].wantstate = "MAST",
           \A u \in Instances \ Sync : inst[u].state = "FAULT" => inst'[u].state = "FAULT",
           AllFault(inst) => AllFault(inst'),
           group'.state = "FAULT" => AllFault(inst')
    PROVE  Safe(inst', group')
<1>1. /\ Sync \subseteq Instances /\ Counts(inst, group)
      /\ \A u \in Instances : Held(inst, u)
  BY ConfigAssumption DEF Safe
<1>2. FaultedIn(inst') = FaultedIn(inst)
  <2>1. \A u \in Sync : (inst'[u].flags_if_fault = {}) <=> (inst[u].flags_if_fault = {})
    BY <1>1 DEF SameCounters
  <2> QED BY Zenon, <2>1, SameFaulted
<1>3. StartingIn(inst') = StartingIn(inst)
  <2>1. \A u \in Sync : inst'[u].num_script_init = inst[u].num_script_init
    BY <1>1 DEF SameCounters
  <2> QED BY <2>1, SameStarting
<1>4. Counts(inst', group')
  BY <1>1, <1>2, <1>3 DEF Counts
<1>5. \A u \in Instances : Held(inst', u)
  <2>1. SUFFICES ASSUME NEW u \in Instances
                 PROVE  Held(inst', u)
    OBVIOUS
  <2>2. /\ inst'[u].flags_if_fault = inst[u].flags_if_fault
        /\ inst'[u].num_script_init = inst[u].num_script_init
    BY DEF SameCounters
  <2>3. CASE u \in Sync
    <3>1. AllFault(inst') => inst'[u].state = "FAULT"
      BY <2>3 DEF AllFault
    <3> QED BY <1>1, <2>2, <2>3, <3>1 DEF Held
  <2>4. CASE u \notin Sync
    BY <1>1, <2>2, <2>4 DEF Held
  <2> QED BY <2>3, <2>4
<1> QED BY <1>4, <1>5 DEF Safe

(* vrrp_state_goto_master() makes v master or leaves it waiting for its group. *)
LEMMA GotoMasterLemma ==
    ASSUME NEW ins \in [Instances -> Instance], NEW v \in Instances
    PROVE  LET q == GotoMaster(ins, v) IN
           /\ q \in [Instances -> Instance]
           /\ \A u \in Instances \ {v} : q[u] = ins[u]
           /\ q[v].flags_if_fault = ins[v].flags_if_fault
           /\ q[v].num_track_fault = ins[v].num_track_fault
           /\ q[v].num_script_init = ins[v].num_script_init
           /\ \/ /\ v \in Sync /\ ~vrrp_sync_can_goto_master(ins, v)
                 /\ q[v].state = ins[v].state /\ q[v].vipset = ins[v].vipset
                 /\ q[v].wantstate = "MAST"
              \/ /\ v \in Sync => vrrp_sync_can_goto_master(ins, v)
                 /\ q[v].state = "MAST"
                 /\ q[v].wantstate = ins[v].wantstate
<1> DEFINE q == GotoMaster(ins, v)
           w == Want(ins[v], "MAST")
           m == [ins[v] EXCEPT !.state = "MAST", !.vipset = @ \/ ~delayed]
<1>1. ins[v] \in Instance /\ "MAST" \in States
  BY DEF States
<1>2. CASE v \in Sync /\ ~vrrp_sync_can_goto_master(ins, v)
  <2>1. q = [ins EXCEPT ![v] = w]
    BY <1>2 DEF GotoMaster
  <2>2. /\ w \in Instance
        /\ w.wantstate = "MAST" /\ w.state = ins[v].state /\ w.vipset = ins[v].vipset
        /\ w.flags_if_fault = ins[v].flags_if_fault
        /\ w.num_track_fault = ins[v].num_track_fault
        /\ w.num_script_init = ins[v].num_script_init
    BY <1>1, WantLemma
  <2> HIDE DEF w
  <2>3. /\ q \in [Instances -> Instance] /\ q[v] = w
        /\ \A u \in Instances \ {v} : q[u] = ins[u]
    BY <2>1, <2>2
  <2> HIDE DEF q
  <2> QED BY <1>2, <2>2, <2>3 DEF q
<1>3. CASE v \in Sync => vrrp_sync_can_goto_master(ins, v)
  <2>1. q = [ins EXCEPT ![v] = m]
    BY <1>3 DEF GotoMaster
  <2>2. /\ m \in Instance
        /\ m.state = "MAST" /\ m.wantstate = ins[v].wantstate
        /\ m.flags_if_fault = ins[v].flags_if_fault
        /\ m.num_track_fault = ins[v].num_track_fault
        /\ m.num_script_init = ins[v].num_script_init
    <3> DEFINE vip == ins[v].vipset \/ ~delayed
    <3>1. vip \in BOOLEAN /\ m = [ins[v] EXCEPT !.state = "MAST", !.vipset = vip]
      OBVIOUS
    <3> HIDE DEF vip, m
    <3> QED BY Zenon, <1>1, <3>1 DEF Instance
  <2> HIDE DEF m
  <2>3. /\ q \in [Instances -> Instance] /\ q[v] = m
        /\ \A u \in Instances \ {v} : q[u] = ins[u]
    BY <2>1, <2>2
  <2> HIDE DEF q
  <2> QED BY <1>3, <2>2, <2>3 DEF q
<1> QED BY <1>2, <1>3

(* A stack with one frame, or a poll before one frame. *)
LEMMA OneFrame ==
    ASSUME NEW f \in Frame, f.op \in {"tsm", "master"},
           stack' = <<f>> \/ stack' = Push([op |-> "poll"], <<f>>),
           f.op = "master" => /\ f.v \notin f.rest
                              /\ group'.state # "MAST"
                              /\ Leads(inst', f.v)
    PROVE  StackInv' /\ ~Running("track")'
<1>1. CASE stack' = <<f>>
  <2>1. /\ stack' \in Seq(Frame) /\ Len(stack') = 1 /\ stack'[1] = f /\ Head(stack') = f
    BY <1>1
  <2>2. Shape(stack')
    BY <2>1 DEF Shape
  <2>3. MastersLead'
    BY <2>1 DEF MastersLead
  <2> QED BY <2>1, <2>2, <2>3 DEF StackInv, Running
<1>2. CASE stack' = Push([op |-> "poll"], <<f>>)
  <2> DEFINE p == [op |-> "poll"]
  <2>1. p \in Frame /\ p.op = "poll"
    BY DEF Frame
  <2> HIDE DEF p
  <2>2. /\ stack' \in Seq(Frame) /\ Len(stack') = 2 /\ stack'[1] = p /\ stack'[2] = f
        /\ Head(stack') = p
    <3>1. stack' = Push(p, <<f>>)
      BY <1>2 DEF p
    <3> QED BY <2>1, <3>1 DEF Push
  <2>3. Shape(stack')
    BY <2>1, <2>2 DEF Shape
  <2>4. MastersLead'
    <3>1. \A i \in 1 .. Len(stack') : i = 1 \/ i = 2
      BY <2>2
    <3> QED BY <2>1, <2>2, <3>1 DEF MastersLead
  <2> QED BY <2>1, <2>2, <2>3, <2>4 DEF StackInv, Running
<1> QED BY <1>1, <1>2

LEMMA PollFirstLemma ==
    ASSUME NEW ins, NEW v, NEW s
    PROVE  PollFirst(ins, v, s) = s \/ PollFirst(ins, v, s) = Push([op |-> "poll"], s)
BY DEF PollFirst

(* One instance that is not in FAULT state moves. *)
LEMMA MoveOne ==
    ASSUME IndInv, NEW v \in Instances, inst[v].state # "FAULT",
           inst' \in [Instances -> Instance],
           \A u \in Instances \ {v} : inst'[u] = inst[u],
           inst'[v].flags_if_fault = inst[v].flags_if_fault,
           inst'[v].num_track_fault = inst[v].num_track_fault,
           inst'[v].num_script_init = inst[v].num_script_init,
           inst'[v].state \in {"BACK", "MAST"},
           inst'[v].vipset => inst'[v].state = "MAST",
           inst'[v].state = "MAST" => inst'[v].wantstate = "MAST",
           UNCHANGED <<group, script, up, delayed>>, Quiet, StackInv', ~Running("track")'
    PROVE  IndInv' /\ Moves
<1>1. /\ Safe(inst, group) /\ group \in Group /\ delayed \in BOOLEAN
      /\ \A u \in Instances : Held(inst, u)
  BY DEF IndInv, Safe, EnvInv
<1>2. SameCounters
  BY DEF SameCounters
<1>3. AllFault(inst) => AllFault(inst')
  BY ConfigAssumption DEF AllFault
<1>4. Safe(inst', group')
  <2>1. \A u \in Instances : /\ inst'[u].state # "INIT"
                             /\ inst'[u].vipset => inst'[u].state = "MAST"
                             /\ inst'[u].state = "MAST" => inst'[u].wantstate = "MAST"
    BY <1>1 DEF Held
  <2>2. group'.state = "FAULT" => AllFault(inst')
    BY <1>1, <1>3 DEF Safe
  <2>3. \A u \in Instances \ Sync : inst[u].state = "FAULT" => inst'[u].state = "FAULT"
    OBVIOUS
  <2> QED BY <1>1, <1>2, <1>3, <2>1, <2>2, <2>3, SafeMove
<1>5. Moves
  BY <1>2 DEF Moves
<1> QED BY <1>1, <1>2, <1>4, <1>5, QuietStep

(* A timer that expires: an instance becomes master, or a master goes on. *)
LEMMA ReadTimeoutStep ==
    ASSUME IndInv, NEW v \in Instances, vrrp_dispatcher_read_timeout(v)
    PROVE  IndInv' /\ Moves
<1> DEFINE t == [op |-> "tsm", v |-> v, prev |-> inst[v].state]
           w == Want(inst[v], "MAST")
           want == [inst EXCEPT ![v] = w]
<1>1. /\ inst \in [Instances -> Instance] /\ inst[v] \in Instance /\ "MAST" \in States
      /\ \A u \in Instances : Held(inst, u)
      /\ Safe(inst, group) /\ delayed \in BOOLEAN /\ group \in Group
  BY DEF IndInv, Safe, EnvInv, States
<1>2. /\ stack = <<>> /\ UNCHANGED <<group, script, up, delayed>>
      /\ inst[v].state \in {"BACK", "MAST"}
  BY DEF vrrp_dispatcher_read_timeout, Idle
<1>3. /\ w \in Instance
      /\ w.wantstate = "MAST" /\ w.state = inst[v].state /\ w.vipset = inst[v].vipset
      /\ w.flags_if_fault = inst[v].flags_if_fault
      /\ w.num_track_fault = inst[v].num_track_fault
      /\ w.num_script_init = inst[v].num_script_init
  BY <1>1, WantLemma
<1>4. /\ t \in Frame /\ t.op = "tsm"
  BY <1>1 DEF Frame, Instance
<1>5. inst[v].state = "BACK" =>
         /\ inst' = GotoMaster(want, v)
         /\ stack' = PollFirst(want, v, <<t>>)
  BY DEF vrrp_dispatcher_read_timeout
<1>6. inst[v].state = "MAST" =>
         /\ inst' = [inst EXCEPT ![v] = [@ EXCEPT !.vipset = TRUE]]
         /\ stack' = IF inst[v].vipset THEN <<t>> ELSE Push([op |-> "poll"], <<t>>)
  BY DEF vrrp_dispatcher_read_timeout
<1> HIDE DEF w, t
<1>7. /\ want \in [Instances -> Instance] /\ want[v] = w
      /\ \A u \in Instances \ {v} : want[u] = inst[u]
  BY <1>1, <1>3
<1> HIDE DEF want
<1>8. stack' = <<t>> \/ stack' = Push([op |-> "poll"], <<t>>)
  BY <1>2, <1>5, <1>6, PollFirstLemma
<1>9. StackInv' /\ ~Running("track")'
  BY <1>4, <1>8, OneFrame
<1>10. /\ inst' \in [Instances -> Instance]
       /\ \A u \in Instances \ {v} : inst'[u] = inst[u]
       /\ inst'[v].flags_if_fault = inst[v].flags_if_fault
       /\ inst'[v].num_track_fault = inst[v].num_track_fault
       /\ inst'[v].num_script_init = inst[v].num_script_init
       /\ inst'[v].state \in {"BACK", "MAST"}
       /\ inst'[v].vipset => inst'[v].state = "MAST"
       /\ inst'[v].state = "MAST" => inst'[v].wantstate = "MAST"
  <2>1. CASE inst[v].state = "BACK"
    <3>1. /\ inst' \in [Instances -> Instance]
          /\ \A u \in Instances \ {v} : inst'[u] = want[u]
          /\ inst'[v].flags_if_fault = want[v].flags_if_fault
          /\ inst'[v].num_track_fault = want[v].num_track_fault
          /\ inst'[v].num_script_init = want[v].num_script_init
          /\ \/ /\ inst'[v].state = want[v].state /\ inst'[v].vipset = want[v].vipset
                /\ inst'[v].wantstate = "MAST"
             \/ inst'[v].state = "MAST" /\ inst'[v].wantstate = want[v].wantstate
      BY <1>5, <1>7, <2>1, GotoMasterLemma
    <3>2. ~inst[v].vipset
      BY <1>1, <2>1 DEF Held
    <3> QED BY <1>3, <1>7, <2>1, <3>1, <3>2
  <2>2. CASE inst[v].state = "MAST"
    <3> DEFINE m == [inst[v] EXCEPT !.vipset = TRUE]
    <3>1. /\ m \in Instance /\ m.state = inst[v].state /\ m.wantstate = inst[v].wantstate
          /\ m.flags_if_fault = inst[v].flags_if_fault
          /\ m.num_track_fault = inst[v].num_track_fault
          /\ m.num_script_init = inst[v].num_script_init
      BY Zenon, <1>1 DEF Instance
    <3>2. inst' = [inst EXCEPT ![v] = m]
      BY <1>6, <2>2
    <3> HIDE DEF m
    <3>3. inst[v].wantstate = "MAST"
      BY <1>1, <2>2 DEF Held
    <3> QED BY <1>1, <2>2, <3>1, <3>2, <3>3
  <2> QED BY <1>2, <2>1, <2>2
<1>11. Quiet
  BY <1>2 DEF Quiet, Running
<1> QED BY <1>1, <1>2, <1>9, <1>10, <1>11, MoveOne

LEMMA BackupStep ==
    ASSUME IndInv, NEW v \in Instances, vrrp_state_backup(v)
    PROVE  IndInv' /\ Moves
<1> DEFINE w == Want(inst[v], "BACK")
<1>1. /\ inst \in [Instances -> Instance] /\ inst[v] \in Instance /\ "BACK" \in States
      /\ inst[v].vipset => inst[v].state = "MAST"
  BY DEF IndInv, Safe, Held, States
<1>2. /\ inst[v].state = "BACK" /\ stack = <<>> /\ stack' = <<>>
      /\ UNCHANGED <<group, script, up, delayed, stack>>
      /\ inst' = [inst EXCEPT ![v] = w]
  BY DEF vrrp_state_backup, Idle
<1>3. /\ w \in Instance /\ w.state = inst[v].state /\ w.vipset = inst[v].vipset
      /\ w.flags_if_fault = inst[v].flags_if_fault
      /\ w.num_track_fault = inst[v].num_track_fault
      /\ w.num_script_init = inst[v].num_script_init
  BY <1>1, WantLemma
<1> HIDE DEF w
<1>4. /\ inst' \in [Instances -> Instance] /\ inst'[v] = w
      /\ \A u \in Instances \ {v} : inst'[u] = inst[u]
  BY <1>1, <1>2, <1>3
<1>5. Quiet /\ ~Running("track")'
  BY <1>2 DEF Quiet, Running
<1>6. StackInv'
  BY <1>2 DEF StackInv, Shape, MastersLead
<1> QED BY <1>1, <1>2, <1>3, <1>4, <1>5, <1>6, MoveOne

(* A master that gives up is in BACKUP state: its wantstate is not FAULT. *)
LEMMA MasterRxStep ==
    ASSUME IndInv, NEW v \in Instances, vrrp_state_master_rx(v)
    PROVE  IndInv' /\ Moves
<1> DEFINE t == [op |-> "tsm", v |-> v, prev |-> "MAST"]
           w == Want(inst[v], "BACK")
           b == [w EXCEPT !.state = "BACK"]
           q == vrrp_state_leave_master(b)
<1>1. /\ inst \in [Instances -> Instance] /\ inst[v] \in Instance /\ "BACK" \in States
      /\ inst[v].state = "MAST" => inst[v].wantstate = "MAST"
  BY DEF IndInv, Safe, Held, States
<1>2. /\ inst[v].state = "MAST" /\ inst[v].wantstate = "MAST" /\ stack = <<>> /\ stack' = <<t>>
      /\ UNCHANGED <<group, script, up, delayed>>
  BY <1>1 DEF vrrp_state_master_rx, Idle
<1>3. inst' = inst \/ inst' = [inst EXCEPT ![v] = q]
  BY <1>2 DEF vrrp_state_master_rx
<1>4. t \in Frame /\ t.op = "tsm"
  BY DEF Frame, States
<1>5. StackInv' /\ ~Running("track")'
  <2> HIDE DEF t
  <2> QED BY <1>2, <1>4, OneFrame
<1>6. Quiet
  BY <1>2 DEF Quiet, Running
<1>7. /\ q \in Instance /\ q.state = "BACK" /\ q.vipset = FALSE
      /\ q.flags_if_fault = inst[v].flags_if_fault
      /\ q.num_track_fault = inst[v].num_track_fault
      /\ q.num_script_init = inst[v].num_script_init
  <2>1. /\ w \in Instance /\ w.wantstate = "BACK"
        /\ w.flags_if_fault = inst[v].flags_if_fault
        /\ w.num_track_fault = inst[v].num_track_fault
        /\ w.num_script_init = inst[v].num_script_init
    BY <1>1, WantLemma
  <2> HIDE DEF w
  <2>2. /\ b \in Instance /\ b.wantstate = "BACK"
        /\ b.flags_if_fault = inst[v].flags_if_fault
        /\ b.num_track_fault = inst[v].num_track_fault
        /\ b.num_script_init = inst[v].num_script_init
    BY <1>1, <2>1 DEF Instance
  <2> HIDE DEF b
  <2> QED BY Zenon, <2>2, LeaveMasterLemma
<1> HIDE DEF q, t
<1>8. CASE inst' = inst
  <2>1. /\ inst[v].state = "MAST" /\ inst[v].wantstate = "MAST"
    BY <1>2
  <2> QED BY <1>1, <1>2, <1>5, <1>6, <1>8, <2>1, MoveOne
<1>9. CASE inst' = [inst EXCEPT ![v] = q]
  <2>1. /\ inst' \in [Instances -> Instance] /\ inst'[v] = q
        /\ \A u \in Instances \ {v} : inst'[u] = inst[u]
    BY <1>1, <1>7, <1>9
  <2> QED BY <1>2, <1>5, <1>6, <1>7, <2>1, MoveOne
<1> QED BY <1>3, <1>8, <1>9

(* The masters whose adverts expired go to BACKUP state by themselves. *)
LEMMA TimeoutHandlerStep ==
    ASSUME IndInv, vrrp_thread_timeout_handler
    PROVE  IndInv' /\ Moves
<1>1. /\ inst \in [Instances -> Instance] /\ Safe(inst, group) /\ group \in Group
      /\ delayed \in BOOLEAN /\ \A u \in Instances : Held(inst, u)
  BY DEF IndInv, Safe, EnvInv
<1>2. /\ stack = <<>> /\ stack' = <<>>
      /\ UNCHANGED <<group, script, up, delayed, stack>>
  BY DEF vrrp_thread_timeout_handler, Idle
<1>3. PICK late \in SUBSET {v \in HandleTimeout : inst[v].state = "MAST"} :
         inst' = [v \in Instances |->
                    IF v \in late THEN vrrp_state_leave_master(Want(inst[v], "BACK"))
                    ELSE inst[v]]
  BY DEF vrrp_thread_timeout_handler
<1>4. ASSUME NEW u \in Instances
      PROVE  /\ inst'[u] \in Instance
             /\ inst'[u].flags_if_fault = inst[u].flags_if_fault
             /\ inst'[u].num_track_fault = inst[u].num_track_fault
             /\ inst'[u].num_script_init = inst[u].num_script_init
             /\ inst'[u].state # "INIT"
             /\ inst'[u].vipset => inst'[u].state = "MAST"
             /\ inst'[u].state = "MAST" => inst'[u].wantstate = "MAST"
             /\ inst[u].state = "FAULT" <=> inst'[u].state = "FAULT"
  <2>1. CASE u \in late
    <3> DEFINE w == Want(inst[u], "BACK")
    <3>1. inst[u] \in Instance /\ "BACK" \in States
      BY <1>1 DEF States
    <3>2. /\ w \in Instance /\ w.wantstate = "BACK"
          /\ w.flags_if_fault = inst[u].flags_if_fault
          /\ w.num_track_fault = inst[u].num_track_fault
          /\ w.num_script_init = inst[u].num_script_init
      BY <3>1, WantLemma
    <3>3. inst'[u] = vrrp_state_leave_master(w) /\ inst[u].state = "MAST"
      BY <1>3, <2>1
    <3> HIDE DEF w
    <3> QED BY ZenonT(40), <3>2, <3>3, LeaveMasterLemma
  <2>2. CASE u \notin late
    BY <1>1, <1>3, <2>2 DEF Held
  <2> QED BY <2>1, <2>2
<1>5. inst' \in [Instances -> Instance]
  BY <1>3, <1>4
<1>6. SameCounters
  BY <1>4 DEF SameCounters
<1>7. AllFault(inst) => AllFault(inst')
  BY <1>4, ConfigAssumption DEF AllFault
<1>8. Safe(inst', group')
  <2>1. group'.state = "FAULT" => AllFault(inst')
    BY <1>1, <1>2, <1>7 DEF Safe
  <2> QED BY <1>1, <1>2, <1>4, <1>5, <1>6, <1>7, <2>1, SafeMove
<1>9. Quiet /\ ~Running("track")'
  BY <1>2 DEF Quiet, Running
<1>10. StackInv'
  BY <1>2 DEF StackInv, Shape, MastersLead
<1>11. Moves
  BY <1>2, <1>4, <1>6, <1>9 DEF Moves
<1> QED BY <1>1, <1>2, <1>6, <1>8, <1>9, <1>10, <1>11, QuietStep

(* The frames of a running handler. *)
LEMMA RunningFrames ==
    ASSUME StackInv, NEW op, Running(op)
    PROVE  /\ stack \in Seq(Frame) /\ stack # <<>> /\ Len(stack) \in 1 .. 3
           /\ Head(stack) = stack[1] /\ Head(stack) \in Frame /\ Head(stack).op = op
           /\ op # "up"
           /\ op \in {"tsm", "master"} => Len(stack) = 1 /\ Tail(stack) = <<>>
           /\ op \in {"tsm", "master", "poll"} => Quiet
<1>1. /\ stack \in Seq(Frame) /\ stack # <<>> /\ Len(stack) \in 1 .. 3
      /\ Head(stack) = stack[1] /\ Head(stack) \in Frame /\ Head(stack).op = op
  BY TailLemma DEF StackInv, Shape, Running
<1>2. op # "up"
  BY <1>1 DEF StackInv, Shape
<1>3. op \in {"tsm", "master"} => Len(stack) = 1
  BY <1>1 DEF StackInv, Shape
<1>4. Len(stack) = 1 => Tail(stack) = <<>>
  <2>1. Tail(stack) \in Seq(Frame) /\ Len(Tail(stack)) = Len(stack) - 1
    BY <1>1, TailLemma
  <2>2. \A s \in Seq(Frame) : Len(s) = 0 => s = <<>>
    OBVIOUS
  <2>3. Len(stack) = 1 => Len(Tail(stack)) = 0
    BY <2>1
  <2> QED BY ZenonT(40), <2>1, <2>2, <2>3, Zenon
<1> QED BY <1>1, <1>2, <1>3, <1>4 DEF Quiet, Running

LEMMA PollEndStep ==
    ASSUME IndInv, PollEnd
    PROVE  IndInv' /\ Moves
<1>1. /\ Running("poll") /\ stack' = Tail(stack)
      /\ UNCHANGED <<inst, group, script, up, delayed>>
  BY DEF PollEnd
<1>2. /\ stack # <<>> /\ Head(stack).op = "poll" /\ Quiet
      /\ StackInv /\ Safe(inst, group) /\ delayed \in BOOLEAN
  BY <1>1, RunningFrames DEF IndInv, EnvInv
<1>3. \A i \in 2 .. Len(stack) : stack[i].op = "master" =>
         group'.state # "MAST" /\ Leads(inst', stack[i].v)
  BY <1>1, <1>2 DEF StackInv, Shape, MastersLead
<1>4. StackInv' /\ (stack' # <<>> => stack'[1].op # "track")
  BY <1>1, <1>2, <1>3, PopStack
<1>5. ~Running("track")'
  BY <1>4 DEF Running, StackInv
<1>6. SameCounters
  BY <1>1 DEF SameCounters
<1>7. Moves
  BY <1>1, <1>2, <1>5, <1>6 DEF Moves
<1> QED BY <1>1, <1>2, <1>4, <1>5, <1>6, <1>7, QuietStep

(* A stack without frames. *)
LEMMA NoFrame ==
    ASSUME stack' = <<>>
    PROVE  StackInv' /\ ~Running("track")'
BY DEF StackInv, Shape, MastersLead, Running

(* The group follows an instance that changed its state. *)
LEMMA TsmHandleStep ==
    ASSUME IndInv, TsmHandle
    PROVE  IndInv' /\ Moves
<1> PICK f : f = Head(stack)
  OBVIOUS
<1>1. /\ Running("tsm") /\ UNCHANGED <<script, up, delayed>>
      /\ Tail(stack) = <<>> /\ f \in Frame /\ f.op = "tsm" /\ Quiet
      /\ Safe(inst, group) /\ delayed \in BOOLEAN
      /\ inst \in [Instances -> Instance] /\ group \in Group
      /\ \A u \in Instances : Held(inst, u)
      /\ Sync \subseteq Instances
  BY RunningFrames, ConfigAssumption DEF TsmHandle, IndInv, EnvInv, Safe
<1>2. ASSUME inst' = inst, group' = group, StackInv', ~Running("track")'
      PROVE  IndInv' /\ Moves
  <2>1. SameCounters /\ Safe(inst', group')
    BY <1>1, <1>2 DEF SameCounters
  <2>2. Moves
    BY <1>1, <1>2, <2>1 DEF Moves
  <2> QED BY <1>1, <1>2, <2>1, <2>2, QuietStep
<1>3. CASE f.v \in Sync /\ inst[f.v].state = "MAST"
  <2> DEFINE m == [op |-> "master", v |-> f.v, rest |-> Sync \ {f.v}]
  <2>1. /\ inst' = inst /\ group' = group
        /\ \/ stack' = Push(m, <<>>) /\ group.state # "MAST"
           \/ stack' = <<>>
    BY ZenonT(40), <1>1, <1>3 DEF TsmHandle, SyncMaster
  <2>2. /\ m \in Frame /\ m.op = "master" /\ m.v \notin m.rest /\ m.v = f.v
    BY <1>3 DEF Frame
  <2> HIDE DEF m
  <2>3. Push(m, <<>>) = <<m>>
    BY DEF Push
  <2>4. Leads(inst', m.v)
    BY <1>3, <2>1, <2>2 DEF Leads
  <2>5. StackInv' /\ ~Running("track")'
    <3>1. CASE stack' = Push(m, <<>>) /\ group.state # "MAST"
      BY <2>1, <2>2, <2>3, <2>4, <3>1, OneFrame
    <3>2. CASE stack' = <<>>
      BY <3>2, NoFrame
    <3> QED BY <2>1, <3>1, <3>2
  <2> QED BY <1>2, <2>1, <2>5
<1>4. CASE f.v \in Sync /\ f.prev = "MAST" /\ inst[f.v].state = "BACK"
  <2>1. /\ inst' = SyncBackup(inst, f.v)
        /\ group' = [group EXCEPT !.state = "BACK"]
        /\ stack' = <<>>
    BY ZenonT(40), <1>1, <1>4 DEF TsmHandle
  <2>2. \A u \in Instances : /\ inst[u].state # "INIT"
                             /\ inst[u].vipset => inst[u].state = "MAST"
                             /\ inst[u].state = "MAST" => inst[u].wantstate = "MAST"
    BY <1>1 DEF Held
  <2>3. /\ inst' \in [Instances -> Instance]
        /\ \A u \in Instances :
              /\ inst'[u].flags_if_fault = inst[u].flags_if_fault
              /\ inst'[u].num_track_fault = inst[u].num_track_fault
              /\ inst'[u].num_script_init = inst[u].num_script_init
              /\ inst'[u].state # "INIT"
              /\ inst'[u].vipset => inst'[u].state = "MAST"
              /\ inst'[u].state = "MAST" => inst'[u].wantstate = "MAST"
              /\ u \notin Sync \ {f.v} => inst'[u] = inst[u]
    BY <1>1, <1>4, <2>1, <2>2, SyncBackupLemma
  <2>4. /\ group' \in Group /\ group'.state = "BACK"
        /\ group'.num_member_fault = group.num_member_fault
        /\ group'.num_member_init = group.num_member_init
    BY <1>1, <2>1 DEF Group, States
  <2>5. SameCounters
    BY <2>3 DEF SameCounters
  <2>6. ~AllFault(inst)
    BY <1>4 DEF AllFault
  <2>7. \A u \in Instances \ Sync : inst[u].state = "FAULT" => inst'[u].state = "FAULT"
    BY <2>3
  <2>8. Safe(inst', group')
    BY <1>1, <2>3, <2>4, <2>5, <2>6, <2>7, SafeMove
  <2>9. StackInv' /\ ~Running("track")'
    BY <2>1, NoFrame
  <2>10. \A u \in Instances : inst'[u].state = "FAULT" => inst[u].state = "FAULT"
    <3>1. /\ \A u \in Instances \ Sync : inst'[u] = inst[u]
          /\ \A u \in Sync : inst'[u].state \in {inst[u].state, "BACK"}
      BY Zenon, <1>1, <1>4, <2>1, SyncBackupStates
    <3> QED BY <3>1
  <2>11. inst'[f.v].state # "FAULT"
    BY <1>1, <1>4, <2>3
  <2>12. Moves
    BY <1>1, <1>4, <2>5, <2>9, <2>10, <2>11 DEF Moves
  <2> QED BY <1>1, <2>5, <2>8, <2>9, <2>12, QuietStep
<1>5. CASE /\ ~(f.v \in Sync /\ inst[f.v].state = "MAST")
           /\ ~(f.v \in Sync /\ f.prev = "MAST" /\ inst[f.v].state = "BACK")
  <2>1. inst' = inst /\ group' = group /\ stack' = <<>>
    BY ZenonT(40), <1>1, <1>5 DEF TsmHandle
  <2> QED BY <1>2, <2>1, NoFrame
<1> QED BY <1>3, <1>4, <1>5

(* One round of vrrp_sync_master(): while the member that leads is master no  *)
(* member has a fault, and once it is not no member becomes master.           *)
LEMMA SyncMasterLoopStep ==
    ASSUME IndInv, SyncMasterLoop
    PROVE  IndInv' /\ Moves
<1> PICK f : f = Head(stack)
  OBVIOUS
<1>1. /\ Running("master") /\ UNCHANGED <<script, up, delayed>>
      /\ stack # <<>> /\ Len(stack) = 1 /\ f = stack[1]
      /\ Tail(stack) = <<>> /\ f \in Frame /\ f.op = "master" /\ Quiet
      /\ Safe(inst, group) /\ delayed \in BOOLEAN
      /\ inst \in [Instances -> Instance] /\ group \in Group
      /\ \A u \in Instances : Held(inst, u)
      /\ Sync \subseteq Instances
  BY RunningFrames, ConfigAssumption DEF SyncMasterLoop, IndInv, EnvInv, Safe
<1>2. f.v \in Sync /\ f.rest \in SUBSET Sync
  BY <1>1, MasterFrames
<1>3. f.v \notin f.rest /\ group.state # "MAST" /\ Leads(inst, f.v)
  BY <1>1 DEF IndInv, StackInv, MastersLead
<1>4. CASE f.rest = {}
  <2>1. /\ inst' = inst /\ group' = [group EXCEPT !.state = "MAST"] /\ stack' = <<>>
    BY <1>1, <1>4 DEF SyncMasterLoop
  <2>2. /\ group' \in Group /\ group'.state = "MAST"
        /\ group'.num_member_fault = group.num_member_fault
        /\ group'.num_member_init = group.num_member_init
    BY <1>1, <2>1 DEF Group, States
  <2>3. SameCounters /\ Safe(inst', group')
    BY <1>1, <2>1, <2>2 DEF SameCounters, Safe, Counts
  <2>4. StackInv' /\ ~Running("track")'
    BY <2>1, NoFrame
  <2>5. Moves
    BY <1>1, <2>1, <2>2, <2>3, <2>4 DEF Moves
  <2> QED BY Zenon, <1>1, <2>3, <2>4, <2>5, QuietStep
<1>5. CASE f.rest # {}
  <2> DEFINE h(u) == [f EXCEPT !.rest = @ \ {u}]
             w(u) == [inst EXCEPT ![u] = Want(@, "MAST")]
  <2>1. PICK u \in f.rest :
           /\ IF inst[u].state = "MAST"
              THEN stack' = Push(h(u), <<>>) /\ inst' = inst
              ELSE inst' = GotoMaster(w(u), u) /\ stack' = PollFirst(w(u), u, Push(h(u), <<>>))
           /\ group' = group
    BY Zenon, <1>1, <1>5 DEF SyncMasterLoop
  <2> DEFINE g == h(u)
             ins == w(u)
  <2>2. /\ g \in Frame /\ g.op = "master" /\ g.v = f.v /\ g.rest = f.rest \ {u}
    BY ZenonT(40), <1>1, MasterFrames
  <2>3. /\ u \in Sync /\ u \in Instances /\ u # f.v /\ inst[u] \in Instance /\ "MAST" \in States
    BY <1>1, <1>2, <1>3 DEF States
  <2>4. /\ ins \in [Instances -> Instance]
        /\ \A x \in Instances \ {u} : ins[x] = inst[x]
        /\ ins[u].wantstate = "MAST" /\ ins[u].state = inst[u].state
        /\ ins[u].vipset = inst[u].vipset
        /\ ins[u].flags_if_fault = inst[u].flags_if_fault
        /\ ins[u].num_track_fault = inst[u].num_track_fault
        /\ ins[u].num_script_init = inst[u].num_script_init
    <3> DEFINE q == Want(inst[u], "MAST")
    <3>1. /\ q \in Instance
          /\ q.wantstate = "MAST" /\ q.state = inst[u].state /\ q.vipset = inst[u].vipset
          /\ q.flags_if_fault = inst[u].flags_if_fault
          /\ q.num_track_fault = inst[u].num_track_fault
          /\ q.num_script_init = inst[u].num_script_init
      BY <2>3, WantLemma
    <3>2. ins = [inst EXCEPT ![u] = q]
      OBVIOUS
    <3> HIDE DEF q, w
    <3> QED BY <1>1, <2>3, <3>1, <3>2
  <2> DEFINE one == Push(g, <<>>)
  <2>5. one = <<g>>
    BY DEF Push
  <2>6. /\ group' = group
        /\ inst[u].state = "MAST" => stack' = one /\ inst' = inst
        /\ inst[u].state # "MAST" =>
              inst' = GotoMaster(ins, u) /\ stack' = PollFirst(ins, u, one)
    BY <2>1
  <2> HIDE DEF g, ins, one, h, w
  <2>7. stack' = <<g>> \/ stack' = Push([op |-> "poll"], <<g>>)
    BY <2>5, <2>6, PollFirstLemma
  <2>8. /\ inst' \in [Instances -> Instance]
        /\ \A x \in Instances \ {u} : inst'[x] = inst[x]
        /\ inst'[u].flags_if_fault = inst[u].flags_if_fault
        /\ inst'[u].num_track_fault = inst[u].num_track_fault
        /\ inst'[u].num_script_init = inst[u].num_script_init
        /\ \/ inst'[u].state = inst[u].state /\ inst'[u].vipset = inst[u].vipset
           \/ vrrp_sync_can_goto_master(ins, u) /\ inst'[u].state = "MAST"
        /\ inst'[u].state = "MAST" => inst'[u].wantstate = "MAST"
    <3>1. CASE inst[u].state = "MAST"
      BY <1>1, <2>3, <2>6, <3>1 DEF Held
    <3>2. CASE inst[u].state # "MAST"
      <4>1. inst' = GotoMaster(ins, u)
        BY <2>6, <3>2
      <4>2. /\ inst' \in [Instances -> Instance]
            /\ \A x \in Instances \ {u} : inst'[x] = ins[x]
            /\ inst'[u].flags_if_fault = ins[u].flags_if_fault
            /\ inst'[u].num_track_fault = ins[u].num_track_fault
            /\ inst'[u].num_script_init = ins[u].num_script_init
            /\ \/ /\ inst'[u].state = ins[u].state /\ inst'[u].vipset = ins[u].vipset
                  /\ inst'[u].wantstate = "MAST"
               \/ /\ u \in Sync => vrrp_sync_can_goto_master(ins, u)
                  /\ inst'[u].state = "MAST"
                  /\ inst'[u].wantstate = ins[u].wantstate
        BY <2>3, <2>4, <4>1, GotoMasterLemma
      <4> QED BY <2>3, <2>4, <4>2
    <3> QED BY <3>1, <3>2
  <2>9. SameCounters
    BY <2>8 DEF SameCounters
  <2>10. AllFault(inst) => AllFault(inst')
    <3>1. CASE inst'[u].state = inst[u].state
      BY <1>1, <2>8, <3>1 DEF AllFault
    <3>2. CASE vrrp_sync_can_goto_master(ins, u)
      <4>1. ins[f.v].wantstate = "MAST"
        BY <1>2, <1>3, <2>3, <3>2 DEF vrrp_sync_can_goto_master
      <4>2. inst[f.v].state = "MAST"
        BY <1>1, <1>2, <1>3, <2>3, <2>4, <4>1 DEF Leads
      <4> QED BY <1>2, <4>2 DEF AllFault
    <3> QED BY <2>8, <3>1, <3>2
  <2>11. Safe(inst', group')
    <3>1. \A x \in Instances : /\ inst'[x].state # "INIT"
                               /\ inst'[x].vipset => inst'[x].state = "MAST"
                               /\ inst'[x].state = "MAST" => inst'[x].wantstate = "MAST"
      BY <1>1, <2>8 DEF Held
    <3>2. group'.state = "FAULT" => AllFault(inst')
      BY <1>1, <2>6, <2>10 DEF Safe
    <3>3. \A x \in Instances \ Sync : inst[x].state = "FAULT" => inst'[x].state = "FAULT"
      BY <2>3, <2>8
    <3> QED BY ZenonT(40), <1>1, <2>6, <2>8, <2>9, <2>10, <3>1, <3>2, <3>3, SafeMove
  <2>12. StackInv' /\ ~Running("track")'
    <3>1. Leads(inst', g.v) /\ g.v \notin g.rest /\ group'.state # "MAST"
      BY <1>1, <1>2, <1>3, <2>2, <2>3, <2>6, <2>8 DEF Leads
    <3> QED BY <2>2, <2>7, <3>1, OneFrame
  <2>13. Moves
    BY Zenon, <1>1, <2>3, <2>6, <2>8, <2>9, <2>12 DEF Moves
  <2> QED BY <1>1, <2>9, <2>11, <2>12, <2>13, QuietStep
<1> QED BY <1>4, <1>5

------------------------------------------------------------------------------
(* The initial states.                                                        *)

LEMMA InitCounters ==
    ASSUME NEW status, NEW v \in Instances
    PROVE  /\ InitFlags(v, status) \in SUBSET (LinkFlags \union {"TRACKER"})
           /\ NumTrackFault(v, status) \in Nat /\ NumScriptInit(v) \in Nat
           /\ "TRACKER" \in InitFlags(v, status) <=> NumTrackFault(v, status) # 0
           /\ IsFiniteSet({t \in Trackers : v \in TrackedBy[t] /\ ~StatusOk(v, t, status[t])}
                            \union {s \in InitFail : v \in TrackedBy[s]})
<1> DEFINE T == {t \in Trackers : v \in TrackedBy[t] /\ ~StatusOk(v, t, status[t])}
                  \union {s \in InitFail : v \in TrackedBy[s]}
           S == {s \in Scripts \ InitFail : v \in TrackedBy[s]}
<1>1. T \subseteq Objects /\ S \subseteq Objects /\ IsFiniteSet(Objects)
  BY ConfigAssumption DEF Objects
<1> HIDE DEF T, S
<1>2. IsFiniteSet(T) /\ IsFiniteSet(S)
  BY <1>1, FS_Subset
<1>3. Cardinality(T) \in Nat /\ Cardinality(S) \in Nat
  BY <1>2, FS_CardinalityType
<1>4. NumTrackFault(v, status) \in Nat /\ NumScriptInit(v) \in Nat
  BY <1>3 DEF NumTrackFault, NumScriptInit, T, S
<1>5. {LinkFlag[l] : l \in FailedAtInit(v, status)} \subseteq LinkFlags
  BY ConfigAssumption DEF FailedAtInit
<1>6. "TRACKER" \notin LinkFlags
  BY DEF LinkFlags
<1>7. InitFlags(v, status) \in SUBSET (LinkFlags \union {"TRACKER"})
  BY <1>5 DEF InitFlags
<1>8. "TRACKER" \in InitFlags(v, status) <=> NumTrackFault(v, status) # 0
  BY <1>4, <1>5, <1>6 DEF InitFlags
<1> QED BY <1>2, <1>4, <1>7, <1>8 DEF T

LEMMA InitSafe ==
    ASSUME Init
    PROVE  Safe(inst, group)
<1>1. PICK want \in [Instances -> {"BACK", "MAST"}] :
         /\ group = InitGroup(want, up)
         /\ inst = [v \in Instances |-> InitInstance(want, up, group, v)]
  BY DEF Init
<1> DEFINE faulted == {v \in Sync : InitFlags(v, up) # {}}
           starting == {v \in Sync : NumScriptInit(v) > 0}
<1>2. /\ Sync \subseteq Instances /\ IsFiniteSet(Sync)
      /\ faulted \subseteq Sync /\ starting \subseteq Sync
  BY ConfigAssumption, SyncFinite
<1>3. /\ group.num_member_fault = Cardinality(faulted)
      /\ group.num_member_init = Cardinality(starting)
      /\ group.state \in States
      /\ group = [state |-> group.state, num_member_fault |-> Cardinality(faulted),
                  num_member_init |-> Cardinality(starting)]
      /\ group.state = "FAULT" <=> faulted # {}
  BY <1>1 DEF InitGroup, States
<1>4. /\ \A v \in Instances : NumScriptInit(v) \in Nat
      /\ \A v \in Instances : NumTrackFault(v, up) \in Nat
      /\ \A v \in Instances : InitFlags(v, up) \in SUBSET (LinkFlags \union {"TRACKER"})
  BY Zenon, InitCounters
<1>5. \A v \in Instances :
         /\ inst[v].flags_if_fault = InitFlags(v, up)
         /\ inst[v].num_script_init = NumScriptInit(v)
         /\ inst[v].num_track_fault = NumTrackFault(v, up)
         /\ inst[v].vipset = FALSE
         /\ inst[v].state = IF \/ InitFlags(v, up) # {}
                               \/ v \in Sync /\ group.state = "FAULT"
                               \/ NumScriptInit(v) > 0
                               \/ v \in Sync /\ group.num_member_init > 0
                            THEN "FAULT" ELSE "BACK"
  BY <1>1 DEF InitInstance
<1>6. /\ FaultedIn(inst) = faulted /\ StartingIn(inst) = starting
  BY <1>2, <1>4, <1>5 DEF FaultedIn, StartingIn
<1> HIDE DEF faulted, starting
<1>7. /\ IsFiniteSet(faulted) /\ IsFiniteSet(starting)
  BY <1>2, FS_Subset
<1>8. /\ Cardinality(faulted) \in Nat /\ Cardinality(starting) \in Nat
      /\ Cardinality(starting) = 0 => starting = {}
  BY <1>7, FS_CardinalityType, FS_EmptySet
<1>9. group \in Group
  BY <1>3, <1>8 DEF Group
<1>10. Counts(inst, group)
  BY <1>3, <1>6 DEF Counts
<1>11. inst \in [Instances -> Instance]
  <2>1. \A v \in Instances : InitWant(want, v) \in {"BACK", "MAST"}
    BY <1>1 DEF InitWant
  <2>2. \A v \in Instances : InitInstance(want, up, group, v) \in Instance
    BY <1>4, <2>1 DEF InitInstance, Instance, States, Flags
  <2> QED BY <1>1, <2>2
<1>12. faulted # {} \/ starting # {} => AllFault(inst)
  <2>1. starting # {} => group.num_member_init > 0
    BY <1>3, <1>8
  <2> QED BY <1>2, <1>3, <1>5, <2>1 DEF AllFault
<1>13. ASSUME NEW v \in Instances PROVE Held(inst, v)
  <2>1. ASSUME InitFlags(v, up) # {} \/ NumScriptInit(v) > 0
        PROVE  inst[v].state = "FAULT" /\ (v \in Sync => AllFault(inst))
    <3>1. v \in Sync => faulted # {} \/ starting # {}
      BY <2>1 DEF faulted, starting
    <3> QED BY <1>5, <1>12, <2>1, <3>1
  <2>2. NumScriptInit(v) # 0 <=> NumScriptInit(v) > 0
    BY <1>4
  <2>3. inst[v].state \in {"BACK", "FAULT"} /\ inst[v].vipset = FALSE
    BY <1>5
  <2> QED BY <1>5, <2>1, <2>2, <2>3 DEF Held
<1> QED BY <1>3, <1>9, <1>10, <1>11, <1>12, <1>13 DEF Safe

(* At first every instance knows the state of all that it tracks. *)
LEMMA InitKnown ==
    ASSUME OneLinkPerFlag, Init
    PROVE  KnownInv
<1>1. PICK want \in [Instances -> {"BACK", "MAST"}] :
         inst = [v \in Instances |-> InitInstance(want, up, group, v)]
  BY DEF Init
<1>2. \A v \in Instances :
         /\ inst[v].flags_if_fault = InitFlags(v, up)
         /\ inst[v].num_script_init = NumScriptInit(v)
         /\ inst[v].num_track_fault = NumTrackFault(v, up)
  BY <1>1 DEF InitInstance
<1>3. \A v, obj : ~Pending(v, obj)
  BY Zenon DEF Init, Pending, Running
<1>4. \A s \in Scripts : /\ script[s].init_state = IF s \in InitFail THEN "FAILED" ELSE "INIT"
                         /\ script[s].result = IF s \in InitFail THEN 0 ELSE Rise - 1
  BY DEF Init
<1>5. /\ Links \subseteq Objects /\ \A o \in Objects : TrackedBy[o] \subseteq Instances
      /\ LinkFlag \in [Links -> LinkFlags]
      /\ \A l \in Links : l \notin Scripts
      /\ InitFail \subseteq Scripts
      /\ \A t \in Trackers : t \notin Scripts
  BY ConfigAssumption DEF Objects
<1>6. ASSUME NEW l \in Links, NEW v \in TrackedBy[l]
      PROVE  LinkFlag[l] \in inst[v].flags_if_fault <=> KnownFail(v, l)
  <2>1. KnownFail(v, l) <=> ~StatusOk(v, l, up[l])
    BY <1>3, <1>5 DEF KnownFail
  <2>2. v \in Instances /\ LinkFlag[l] # "TRACKER"
    BY <1>5 DEF LinkFlags
  <2>3. ASSUME NEW m \in FailedAtInit(v, up), LinkFlag[m] = LinkFlag[l]
        PROVE  m = l
    <3>1. m \in Links /\ v \in TrackedBy[m]
      BY DEF FailedAtInit
    <3> QED BY <2>3, <3>1 DEF OneLinkPerFlag
  <2>4. LinkFlag[l] \in InitFlags(v, up) <=> l \in FailedAtInit(v, up)
    BY <2>2, <2>3 DEF InitFlags
  <2>5. l \in FailedAtInit(v, up) <=> ~StatusOk(v, l, up[l])
    BY DEF FailedAtInit
  <2> QED BY <1>2, <2>1, <2>2, <2>4, <2>5
<1>7. ASSUME NEW v \in Instances
      PROVE  inst[v].num_track_fault >= Cardinality(FailedTrackers(v))
  <2> DEFINE T == {t \in Trackers : v \in TrackedBy[t] /\ ~StatusOk(v, t, up[t])}
                    \union {s \in InitFail : v \in TrackedBy[s]}
  <2>1. FailedTrackers(v) \subseteq T
    BY <1>3, <1>4, <1>5 DEF FailedTrackers, KnownFail
  <2>2. IsFiniteSet(T) /\ inst[v].num_track_fault = Cardinality(T)
    BY <1>2, InitCounters DEF NumTrackFault
  <2> HIDE DEF T
  <2>3. Cardinality(FailedTrackers(v)) <= Cardinality(T)
    BY <2>1, <2>2, FS_Subset
  <2>4. Cardinality(FailedTrackers(v)) \in Nat /\ Cardinality(T) \in Nat
    BY <2>2, KnownFinite, FS_CardinalityType
  <2> QED BY <2>2, <2>3, <2>4
<1>8. ASSUME NEW v \in Instances
      PROVE  inst[v].num_script_init = Cardinality(WaitsFor(v))
  <2>1. WaitsFor(v) = {s \in Scripts \ InitFail : v \in TrackedBy[s]}
    BY <1>3, <1>4 DEF WaitsFor, KnownInit
  <2> QED BY <1>2, <2>1 DEF NumScriptInit
<1>9. \A v \in Instances : "TRACKER" \in inst[v].flags_if_fault <=> inst[v].num_track_fault # 0
  BY Zenon, <1>2, InitCounters
<1> QED BY <1>6, <1>7, <1>8, <1>9 DEF KnownInv

LEMMA InitInd ==
    ASSUME OneLinkPerFlag, Init
    PROVE  IndInv
<1>1. StackInv /\ TrackInv
  BY DEF Init, StackInv, Shape, MastersLead, TrackInv, Running
<1>2. EnvInv
  <2>1. Rise \in Nat \ {0} /\ Fall \in Nat \ {0}
    BY ConfigAssumption
  <2>2. Rise - 1 \in 0 .. Rise + Fall - 1 /\ 0 \in 0 .. Rise + Fall - 1
    BY <2>1
  <2> QED BY <2>2 DEF Init, EnvInv, Script
<1> QED BY <1>1, <1>2, InitSafe, InitKnown DEF IndInv
------------------------------------------------------------------------------
(* The theorems.                                                              *)

LEMMA NextInd ==
    ASSUME Owners = {}, OneLinkPerFlag, IndInv, [Next]_vars
    PROVE  IndInv'
<1>1. CASE \E v \in Instances : vrrp_dispatcher_read_timeout(v)
  BY <1>1, ReadTimeoutStep
<1>2. CASE \E v \in Instances : vrrp_state_backup(v)
  BY <1>2, BackupStep
<1>3. CASE \E v \in Instances : vrrp_state_master_rx(v)
  BY <1>3, MasterRxStep
<1>4. CASE vrrp_thread_timeout_handler
  BY <1>4, TimeoutHandlerStep
<1>5. CASE delayed_start_clear_thread
  <2>1. /\ stack = <<>> /\ stack' = stack /\ delayed' = FALSE
        /\ UNCHANGED <<inst, group, script, up>>
    BY <1>5 DEF delayed_start_clear_thread, Idle
  <2>2. StackInv' /\ ~Running("track")' /\ Quiet
    BY <2>1, NoFrame DEF Quiet, Running
  <2>3. SameCounters /\ Safe(inst', group')
    BY <2>1 DEF SameCounters, IndInv
  <2> QED BY Zenon, <2>1, <2>2, <2>3, QuietStep
<1>6. CASE \E l \in Links : process_if_status_change(l)
  BY Zenon, <1>6, StatusStep DEF process_if_status_change
<1>7. CASE \E t \in Trackers : TrackerChange(t)
  <2>1. PICK t \in Trackers : TrackerChange(t)
    BY <1>7
  <2>2. /\ Idle /\ stack = <<>> /\ up' = [up EXCEPT ![t] = ~up[t]]
        /\ stack' = <<TrackFrame(t, ~up[t], FALSE)>>
        /\ UNCHANGED <<inst, group, script, delayed>>
    BY <2>1 DEF TrackerChange, Idle
  <2>3. <<TrackFrame(t, ~up[t], FALSE)>> = Push(TrackFrame(t, ~up[t], FALSE), <<>>)
    BY DEF Push
  <2> QED BY Zenon, <2>2, <2>3, StatusStep
<1>8. CASE \E s \in Scripts, ok \in BOOLEAN : vrrp_script_child_thread(s, ok)
  BY <1>8, ScriptStep
<1>9. CASE TrackLoop
  BY <1>9, TrackLoopStep
<1>10. CASE PollEnd
  BY <1>10, PollEndStep
<1>11. CASE TsmHandle
  BY <1>11, TsmHandleStep
<1>12. CASE SyncMasterLoop
  BY <1>12, SyncMasterLoopStep
<1>13. CASE TryUpEnd
  BY <1>13, RunningFrames DEF TryUpEnd, IndInv
<1>14. CASE UNCHANGED vars
  <2>1. UNCHANGED <<inst, group, script, up, delayed, stack>>
    BY <1>14 DEF vars
  <2>2. Safe(inst, group)' /\ StackInv' /\ TrackInv' /\ EnvInv'
    BY <2>1 DEF IndInv, StackInv, MastersLead, TrackInv, EnvInv, Running, ScriptOk
  <2>3. SameCounters
    BY <2>1 DEF SameCounters
  <2>4. \A v, obj : Pending(v, obj)' <=> Pending(v, obj)
    BY <2>1 DEF Pending, Running
  <2>5. \A obj \in Objects : \A u \in TrackedBy[obj] :
           /\ KnownFail(u, obj)' <=> KnownFail(u, obj)
           /\ obj \in Scripts => (KnownInit(u, obj)' <=> KnownInit(u, obj))
    BY <2>1, <2>4 DEF KnownFail, KnownInit, ScriptOk
  <2> QED BY <2>2, <2>3, <2>5, KnownSame DEF IndInv, Safe
<1> QED BY <1>1, <1>2, <1>3, <1>4, <1>5, <1>6, <1>7, <1>8, <1>9, <1>10, <1>11, <1>12,
           <1>13, <1>14 DEF Next

(* The invariant of the proofs, which the run syncgroup_agree also checks, holds *)
(* in every reachable state, whatever the number of instances, links, scripts  *)
(* and trackers.                                                               *)
THEOREM IndInvHolds ==
    ASSUME Owners = {}, OneLinkPerFlag
    PROVE  Spec => []IndInv
<1>1. Init => IndInv
  BY InitInd
<1>2. IndInv /\ [Next]_vars => IndInv'
  BY NextInd
<1> QED BY <1>1, <1>2, PTL DEF Spec

(* Every variable keeps its type; in particular the unsigned counters of the  *)
(* sync group and of the instances never wrap.                                *)
THEOREM TypeCorrect ==
    ASSUME Owners = {}, OneLinkPerFlag
    PROVE  Spec => []TypeOK
<1>1. IndInv => TypeOK
  BY DEF IndInv, Safe, StackInv, EnvInv, TypeOK
<1> QED BY <1>1, IndInvHolds, PTL

(* num_member_fault and num_member_init are exact after every step of         *)
(* down_instance(), try_up_instance() and process_script_update_priority().   *)
THEOREM GroupCountersExact ==
    ASSUME Owners = {}, OneLinkPerFlag
    PROVE  Spec => []CountersExact
<1>1. IndInv => CountersExact
  BY DEF IndInv, Safe, Counts, CountersExact, Faulted, Starting, FaultedIn, StartingIn
<1> QED BY <1>1, IndInvHolds, PTL

(* A fault of one member holds the whole group in FAULT state, also while     *)
(* vrrp_sync_master() is half way through the members and a link goes down    *)
(* under kernel_netlink_poll().                                               *)
THEOREM FaultHoldsGroup ==
    ASSUME Owners = {}, OneLinkPerFlag
    PROVE  Spec => []FaultHolds
<1>1. IndInv => FaultHolds
  BY DEF IndInv, Safe, Held, AllFault, FaultHolds
<1> QED BY <1>1, IndInvHolds, PTL

(* The checks compiled in with _FAULT_FLAGS_CHECK_ never report a BUG, if no  *)
(* two links share a flag of an instance.                                     *)
THEOREM FaultFlagsConsistent ==
    ASSUME Owners = {}, OneLinkPerFlag
    PROVE  Spec => []FaultFlagsCheck
<1>1. ASSUME IndInv PROVE FaultFlagsCheck
  <2>1. \A v \in Instances :
           ("TRACKER" \in inst[v].flags_if_fault) <=> (inst[v].num_track_fault # 0)
    BY <1>1 DEF IndInv, KnownInv
  <2>2. ASSUME NEW f, f = Head(stack), Running("track"), f.obj \in Links, NEW v \in f.rest
        PROVE  (LinkFlag[f.obj] \in inst[v].flags_if_fault) <=> StatusOk(v, f.obj, f.ok)
    <3>1. /\ f.rest \subseteq TrackedBy[f.obj] /\ ~f.init
      BY <1>1, <2>2, ConfigAssumption DEF IndInv, TrackInv
    <3>2. Pending(v, f.obj)
      BY <2>2 DEF Pending
    <3>3. KnownFail(v, f.obj) <=> StatusOk(v, f.obj, f.ok)
      BY <2>2, <3>1, <3>2 DEF KnownFail
    <3>4. LinkFlag[f.obj] \in inst[v].flags_if_fault <=> KnownFail(v, f.obj)
      BY <1>1, <2>2, <3>1 DEF IndInv, KnownInv
    <3> QED BY <3>3, <3>4
  <2>3. \A v, obj, ok : StatusOk(v, obj, ok) \in BOOLEAN
    BY DEF StatusOk
  <2> QED BY <2>1, <2>2, <2>3 DEF FaultFlagsCheck
<1> QED BY <1>1, IndInvHolds, PTL

(* No event is lost: between two events an instance that tracks a link, a     *)
(* tracker or a script that is down, or a script that has not run yet, is in  *)
(* FAULT state, however the handlers were interrupted by netlink messages.    *)
THEOREM DownMeansFault ==
    ASSUME Owners = {}, OneLinkPerFlag
    PROVE  Spec => []UpOnlyIfAllUp
<1>1. ASSUME IndInv PROVE UpOnlyIfAllUp
  <2>1. SUFFICES ASSUME Idle, NEW v \in Instances, NEW obj \in Objects,
                        v \in TrackedBy[obj], Fails(v, obj)
                 PROVE  inst[v].state = "FAULT"
    BY DEF UpOnlyIfAllUp, Down
  <2>2. ~Pending(v, obj)
    BY <2>1 DEF Pending, Running, Idle
  <2>3. /\ Held(inst, v)
        /\ inst[v].num_track_fault >= Cardinality(FailedTrackers(v))
        /\ "TRACKER" \in inst[v].flags_if_fault <=> inst[v].num_track_fault # 0
        /\ inst[v].num_script_init = Cardinality(WaitsFor(v))
        /\ \A l \in Links : v \in TrackedBy[l] =>
              (LinkFlag[l] \in inst[v].flags_if_fault <=> KnownFail(v, l))
        /\ obj \in Scripts => script[obj].init_state \in {"INIT", "FAILED", "DONE"}
    BY <1>1 DEF IndInv, Safe, KnownInv, EnvInv, Script
  <2>4. /\ Cardinality(FailedTrackers(v)) \in Nat /\ Cardinality(WaitsFor(v)) \in Nat
        /\ FailedTrackers(v) # {} => Cardinality(FailedTrackers(v)) # 0
        /\ WaitsFor(v) # {} => Cardinality(WaitsFor(v)) # 0
    BY KnownFinite, FS_CardinalityType, FS_EmptySet
  <2>5. SUFFICES inst[v].flags_if_fault # {} \/ inst[v].num_script_init # 0
    BY <2>3 DEF Held
  <2>6. CASE obj \in Scripts /\ script[obj].init_state = "INIT"
    <3>1. obj \in WaitsFor(v)
      BY <2>1, <2>2, <2>6 DEF WaitsFor, KnownInit
    <3> QED BY <2>3, <2>4, <3>1
  <2>7. CASE ~(obj \in Scripts /\ script[obj].init_state = "INIT")
    <3>1. KnownFail(v, obj)
      BY ZenonT(40), <2>1, <2>2, <2>3, <2>7 DEF KnownFail, Fails, ScriptOk
    <3>2. CASE obj \in Links
      BY <2>1, <2>3, <3>1, <3>2
    <3>3. CASE obj \in Scripts \union Trackers
      <4>1. obj \in FailedTrackers(v)
        BY <2>1, <3>1, <3>3 DEF FailedTrackers
      <4>2. inst[v].num_track_fault # 0
        BY <2>3, <2>4, <4>1
      <4> QED BY <2>3, <4>2
    <3> QED BY <3>2, <3>3 DEF Objects
  <2> QED BY <2>6, <2>7
<1> QED BY <1>1, IndInvHolds, PTL

(* The virtual addresses are on the interfaces of masters only. *)
THEOREM VipsOnlyOnMasters ==
    ASSUME Owners = {}, OneLinkPerFlag
    PROVE  Spec => []VipOnlyOnMaster
<1>1. IndInv => VipOnlyOnMaster
  BY DEF IndInv, Safe, Held, VipOnlyOnMaster
<1> QED BY <1>1, IndInvHolds, PTL

(* The question in vrrp_state_master_rx() has the answer no. *)
THEOREM MastersWantMaster ==
    ASSUME Owners = {}, OneLinkPerFlag
    PROVE  Spec => []MasterWantsMaster
<1>1. IndInv => MasterWantsMaster
  BY DEF IndInv, Safe, Held, MasterWantsMaster
<1> QED BY <1>1, IndInvHolds, PTL
==============================================================================
