---------------------------- MODULE VrrpSyncGroup ----------------------------
(* The VRRP instances of one keepalived vrrp process, the sync group some of  *)
(* them belong to, and the weight 0 trackers that put them into FAULT state.  *)
(*                                                                            *)
(* The process is single threaded: a handler runs to its end before the next  *)
(* event is taken.  There is one exception in the code.  An instance that     *)
(* becomes master calls kernel_netlink_poll(), which handles every queued     *)
(* link and address message in the middle of the handler.  The variable stack *)
(* holds what is left to do of the handlers that are running, innermost       *)
(* first.  It is empty between two events.  Link events are also taken while  *)
(* its first frame is a poll.                                                 *)
(*                                                                            *)
(* Timers are abstracted: a BACKUP or MASTER instance may time out whenever   *)
(* no handler is running.  The lists of the code (members of the group,       *)
(* instances tracking an object) are sets here, served in any order.          *)
EXTENDS Naturals, Sequences, FiniteSets

CONSTANTS
    Instances,      \* vrrp_t, by name
    Sync,           \* the instances in the sync group, the others have none
    Owners,         \* the instances with base_priority VRRP_PRIO_OWNER
    HandleTimeout,  \* the instances with timer_expired_backup configured
    Links,          \* what netlink reports: interfaces and source addresses
    LinkFlag,       \* the bit of flags_if_fault each link stands for
    Scripts,        \* vrrp_script_t, by name
    Trackers,       \* tracked BFD sessions, processes and files
    TrackedBy,      \* the instances tracking each link, script and tracker
    Reverse,        \* <<v, object>>: v tracks it with 'weight 0 reverse'
    InitFail,       \* the scripts that start as failed (clear_diff_script(), after a reload)
    Rise, Fall,     \* rise and fall of the scripts
    UINT_MAX,       \* the largest value of the unsigned counters
    MaxTrackFault,  \* bound: no script exits above this num_track_fault
    MaxFrames       \* bound: no link event is polled at or above this depth

States == {"INIT", "BACK", "MAST", "FAULT"}
LinkFlags == {"INTERFACE_DOWN", "BASE_INTERFACE_DOWN", "NO_SOURCE_IP"}
Flags == LinkFlags \union {"TRACKER"}
Objects == Links \union Scripts \union Trackers

ASSUME ConfigAssumption ==
    /\ IsFiniteSet(Instances) /\ IsFiniteSet(Objects)
    /\ Sync \subseteq Instances /\ Owners \subseteq Instances
    /\ HandleTimeout \subseteq Instances
    /\ LinkFlag \in [Links -> LinkFlags]
    /\ TrackedBy \in [Objects -> SUBSET Instances]
    /\ Reverse \subseteq Instances \X Objects
    /\ InitFail \subseteq Scripts
    /\ Links \intersect (Scripts \union Trackers) = {}
    /\ Scripts \intersect Trackers = {}
    /\ Rise \in Nat \ {0} /\ Fall \in Nat \ {0}
    /\ UINT_MAX \in Nat \ {0} /\ MaxTrackFault \in Nat /\ MaxFrames \in Nat

VARIABLES
    inst,       \* the state of each vrrp_t
    group,      \* the state of the vrrp_sgroup_t
    script,     \* the state of each vrrp_script_t
    up,         \* what each link and tracker last reported
    delayed,    \* vrrp_delayed_start_time is set
    stack       \* what is left of the running handlers, innermost first

vars == <<inst, group, script, up, delayed, stack>>

Instance == [state : States, wantstate : States, flags_if_fault : SUBSET Flags,
             num_track_fault : Nat, num_script_init : Nat, vipset : BOOLEAN]
Group == [state : States, num_member_fault : Nat, num_member_init : Nat]
Script == [init_state : {"INIT", "FAILED", "DONE"}, result : 0 .. Rise + Fall - 1]

(* A frame is the rest of a handler:                                          *)
(*   track  the rest of a loop over the instances tracking an object          *)
(*   poll   kernel_netlink_poll() in vrrp_state_become_master()               *)
(*   tsm    the VRRP_TSM_HANDLE() that ends a timeout or an advert of v       *)
(*   master the rest of the loop of vrrp_sync_master(v)                       *)
(*   up     the rest of a try_up_instance(v) that made v master               *)
Frame ==
    [op : {"track"}, obj : Objects, ok : BOOLEAN, init : BOOLEAN, rest : SUBSET Instances]
      \union [op : {"poll"}]
      \union [op : {"tsm"}, v : Instances, prev : States]
      \union [op : {"master"}, v : Sync, rest : SUBSET Sync]
      \union [op : {"up"}, v : Instances, want : States]

Push(f, s) == <<f>> \o s

(* The decrement of an unsigned counter. *)
Dec(n) == IF n = 0 THEN UINT_MAX ELSE n - 1

(* Whether the status of obj lets v be up. *)
StatusOk(v, obj, status) == status = (<<v, obj>> \notin Reverse)
------------------------------------------------------------------------------
(* One instance.                                                              *)

(* MUTANT of EntersFault: already_down is not looked at. *)
EntersFault_always(r) == TRUE

(* The test of down_instance(): the instance was not down before. *)
EntersFault(r) == r.flags_if_fault = {} \/ r.state = "INIT"

set_fault(r, flag) ==
    [r EXCEPT !.flags_if_fault = @ \union {flag},
              !.num_track_fault = IF flag = "TRACKER" THEN @ + 1 ELSE @]

(* MUTANT of vrrp_state_leave_master: the addresses stay. *)
leave_master_keeps_vips(r) ==
    IF r.wantstate \in {"BACK", "FAULT"} THEN [r EXCEPT !.state = r.wantstate] ELSE r

vrrp_state_leave_master(r) ==
    IF r.wantstate \in {"BACK", "FAULT"}
    THEN [r EXCEPT !.state = r.wantstate, !.vipset = FALSE]
    ELSE r

(* The branch for a wantstate other than MAST: the callers that may have MAST *)
(* use goto_master.                                                           *)
vrrp_state_leave_fault(r) ==
    [r EXCEPT !.state = r.wantstate,
              !.vipset = @ /\ ~(r.wantstate = "FAULT" /\ r.state = "MAST")]

(* MUTANT of ClearFault: the whole bit field is reset. *)
ClearFault_all(r, flag) ==
    [r EXCEPT !.flags_if_fault = {},
              !.num_track_fault = IF flag = "TRACKER" THEN Dec(@) ELSE @]

(* MUTANT of ClearFault: the tracker flag is never cleared. *)
ClearFault_no_tracker(r, flag) ==
    IF flag = "TRACKER" THEN [r EXCEPT !.num_track_fault = Dec(@)]
    ELSE [r EXCEPT !.flags_if_fault = @ \ {flag}]

(* The instance lets go of a fault: the resolved flag is cleared, the tracker *)
(* flag only with its last tracker.                                           *)
ClearFault(r, flag) ==
    IF flag = "TRACKER"
    THEN LET n == Dec(r.num_track_fault) IN
         [r EXCEPT !.num_track_fault = n,
                   !.flags_if_fault = IF n = 0 THEN @ \ {flag} ELSE @]
    ELSE [r EXCEPT !.flags_if_fault = @ \ {flag}]

Want(r, st) == [r EXCEPT !.wantstate = st]
------------------------------------------------------------------------------
(* The sync group.                                                            *)

(* MUTANT of vrrp_sync_can_goto_master: waits for masters, not for wishes. *)
can_goto_master_state(ins, v) ==
    group.state = "MAST" \/ \A u \in Sync \ {v} : ins[u].state = "MAST"

vrrp_sync_can_goto_master(ins, v) ==
    group.state = "MAST" \/ \A u \in Sync \ {v} : ins[u].wantstate = "MAST"

(* MUTANT of SyncBackup: only masters follow. *)
SyncBackup_masters(ins, v) ==
    [u \in Instances |->
        IF u \in Sync \ {v} /\ ins[u].state = "MAST" /\ group.state # "BACK"
        THEN vrrp_state_leave_master(Want(ins[u], "BACK"))
        ELSE ins[u]]

(* vrrp_sync_backup(v): every other member follows v to BACKUP state. *)
SyncBackup(ins, v) ==
    [u \in Instances |->
        IF u \in Sync \ {v} /\ ins[u].state # "BACK" /\ group.state # "BACK"
        THEN IF ins[u].state \in {"FAULT", "INIT"}
             THEN vrrp_state_leave_fault(Want(ins[u], "BACK"))
             ELSE vrrp_state_leave_master(Want(ins[u], "BACK"))
        ELSE ins[u]]

(* MUTANT of SyncFault: only masters follow. *)
SyncFault_masters(ins, v) ==
    [u \in Instances |->
        IF u \in Sync \ {v} /\ ins[u].state = "MAST" /\ group.state # "FAULT"
        THEN vrrp_state_leave_master(Want(ins[u], "FAULT"))
        ELSE ins[u]]

(* vrrp_sync_fault(v): every other member follows v to FAULT state. *)
SyncFault(ins, v) ==
    [u \in Instances |->
        IF u \in Sync \ {v} /\ ins[u].state # "FAULT" /\ group.state # "FAULT"
        THEN IF ins[u].state = "MAST"
             THEN vrrp_state_leave_master(Want(ins[u], "FAULT"))
             ELSE vrrp_state_leave_fault([Want(ins[u], "FAULT") EXCEPT !.state = "FAULT"])
        ELSE ins[u]]

(* vrrp_state_goto_master(v) in ins.  The addresses are added at once unless  *)
(* the start is delayed, and adding them polls netlink.                       *)
GotoMaster(ins, v) ==
    IF v \in Sync /\ ~vrrp_sync_can_goto_master(ins, v)
    THEN [ins EXCEPT ![v] = Want(@, "MAST")]
    ELSE LET r == ins[v] IN
         [ins EXCEPT ![v] = [r EXCEPT !.state = "MAST", !.vipset = @ \/ ~delayed]]

PollFirst(ins, v, s) ==
    IF ~delayed /\ ~ins[v].vipset /\ (v \in Sync => vrrp_sync_can_goto_master(ins, v))
    THEN Push([op |-> "poll"], s)
    ELSE s
------------------------------------------------------------------------------
(* Trackers.  Each definition is a whole call: was is the instance and g the  *)
(* group as the caller left them, rest the stack without the call.            *)

DownInstance(v, flag, was, g, rest) ==
    LET enters == EntersFault(was)
        r == set_fault(was, flag)
        ins == [inst EXCEPT ![v] =
                  IF ~enters THEN r
                  ELSE IF was.state = "MAST" THEN vrrp_state_leave_master(Want(r, "FAULT"))
                  ELSE vrrp_state_leave_fault(Want(r, "FAULT"))]
        counts == enters /\ v \in Sync
        syncs == counts /\ g.num_member_fault = 0
    IN  /\ inst' = IF syncs THEN SyncFault(ins, v) ELSE ins
        /\ group' = [g EXCEPT !.num_member_fault = IF counts THEN @ + 1 ELSE @,
                              !.state = IF syncs THEN "FAULT" ELSE @]
        /\ stack' = rest

(* try_up_instance().  If v becomes master, netlink is polled and the end of  *)
(* the call is a frame of its own.                                            *)
TryUpInstance(v, leaving_init, flag, was, g, rest) ==
    LET r == IF leaving_init THEN was ELSE ClearFault(was, flag)
        want == IF r.wantstate = "MAST" /\ v \in Owners THEN "MAST" ELSE "BACK"
        g1 == IF v \in Sync /\ ~leaving_init
              THEN [g EXCEPT !.num_member_fault = Dec(@)] ELSE g
        held == v \in Sync /\ (g1.num_member_fault # 0
                                 \/ (~leaving_init /\ g1.num_member_init # 0))
        ins == [inst EXCEPT ![v] = Want(r, want)]
        master == want = "MAST" /\ (v \in Sync => vrrp_sync_can_goto_master(ins, v))
        back == [inst EXCEPT ![v] = Want(vrrp_state_leave_fault(Want(r, "BACK")), want)]
    IN  IF r.flags_if_fault # {} THEN
            /\ inst' = [inst EXCEPT ![v] = r]
            /\ group' = g
            /\ stack' = rest
        ELSE IF r.num_script_init # 0 THEN
            /\ inst' = [inst EXCEPT ![v] = Want(r, "BACK")]
            /\ group' = IF v \in Sync
                        THEN [g EXCEPT !.num_member_fault = Dec(@), !.state = "INIT"] ELSE g
            /\ stack' = rest
        ELSE IF held THEN
            /\ inst' = ins
            /\ group' = g1
            /\ stack' = rest
        ELSE IF master THEN
            /\ inst' = GotoMaster(ins, v)
            /\ group' = g1
            /\ stack' = PollFirst(ins, v, Push([op |-> "up", v |-> v, want |-> want], rest))
        ELSE
            /\ inst' = IF v \in Sync THEN SyncBackup(back, v) ELSE back
            /\ group' = IF v \in Sync THEN [g1 EXCEPT !.state = "BACK"] ELSE g1
            /\ stack' = rest

(* process_script_update_priority() with weight 0. *)
ScriptUpdate(v, obj, ok, init, rest) ==
    LET was == IF init THEN [inst[v] EXCEPT !.num_script_init = Dec(@)] ELSE inst[v]
        left_init == init /\ was.num_script_init = 0
        g == IF left_init /\ v \in Sync
             THEN [group EXCEPT !.num_member_init = Dec(@)] ELSE group
    IN  IF ~StatusOk(v, obj, ok) THEN
            DownInstance(v, "TRACKER", was, g, rest)
        ELSE IF was.num_script_init = 0 /\ (v \in Sync => g.num_member_init = 0) THEN
            TryUpInstance(v, left_init, "TRACKER", was, g, rest)
        ELSE
            /\ inst' = [inst EXCEPT ![v] = was]
            /\ group' = g
            /\ stack' = rest

(* A link, a BFD session, a process or a file changed status. *)
StatusUpdate(v, obj, ok, rest) ==
    LET flag == IF obj \in Links THEN LinkFlag[obj] ELSE "TRACKER" IN
    IF StatusOk(v, obj, ok)
    THEN TryUpInstance(v, FALSE, flag, inst[v], group, rest)
    ELSE DownInstance(v, flag, inst[v], group, rest)
------------------------------------------------------------------------------
(* The initial states: the configuration has been read, the trackers have     *)
(* been looked at and vrrp_init_state() has run.                              *)

FailedAtInit(v, status) ==
    {l \in Links : v \in TrackedBy[l] /\ ~StatusOk(v, l, status[l])}

NumTrackFault(v, status) ==
    Cardinality({t \in Trackers : v \in TrackedBy[t] /\ ~StatusOk(v, t, status[t])}
                  \union {s \in InitFail : v \in TrackedBy[s]})

NumScriptInit(v) == Cardinality({s \in Scripts \ InitFail : v \in TrackedBy[s]})

(* initialise_tracking_priorities() for one instance *)
InitFlags(v, status) ==
    {LinkFlag[l] : l \in FailedAtInit(v, status)}
      \union (IF NumTrackFault(v, status) > 0 THEN {"TRACKER"} ELSE {})

InitGroup(want, status) ==
    LET faulted == {v \in Sync : InitFlags(v, status) # {}}
        starting == {v \in Sync : NumScriptInit(v) > 0}
    IN  [state |-> IF faulted # {} THEN "FAULT"
                   ELSE IF starting # {} THEN "INIT"
                   ELSE IF \A v \in Sync : want[v] = "MAST" /\ v \in Owners THEN "MAST"
                   ELSE "BACK",
         num_member_fault |-> Cardinality(faulted),
         num_member_init |-> Cardinality(starting)]

(* vrrp_complete_init(): a group does not start as master unless all can. *)
InitWant(want, v) ==
    IF v \in Sync /\ \E u \in Sync : want[u] = "BACK" \/ u \notin Owners
    THEN "BACK" ELSE want[v]

(* vrrp_init_state() for one instance *)
InitInstance(want, status, g, v) ==
    LET flags == InitFlags(v, status)
        fault == flags # {} \/ (v \in Sync /\ g.state = "FAULT")
        waits == NumScriptInit(v) > 0 \/ (v \in Sync /\ g.num_member_init > 0)
    IN  [state |-> IF fault \/ waits THEN "FAULT" ELSE "BACK",
         wantstate |-> IF fault THEN "FAULT" ELSE InitWant(want, v),
         flags_if_fault |-> flags,
         num_track_fault |-> NumTrackFault(v, status),
         num_script_init |-> NumScriptInit(v),
         vipset |-> FALSE]

Init ==
    \E want \in [Instances -> {"BACK", "MAST"}] :
        /\ up \in [Links \union Trackers -> BOOLEAN]
        /\ group = InitGroup(want, up)
        /\ inst = [v \in Instances |-> InitInstance(want, up, group, v)]
        /\ script = [s \in Scripts |->
                        [init_state |-> IF s \in InitFail THEN "FAILED" ELSE "INIT",
                         result |-> IF s \in InitFail THEN 0 ELSE Rise - 1]]
        /\ delayed \in BOOLEAN
        /\ stack = <<>>
------------------------------------------------------------------------------
(* Events.                                                                    *)

Idle == stack = <<>>
Running(op) == stack # <<>> /\ Head(stack).op = op

vrrp_dispatcher_read_timeout(v) ==
    LET want == [inst EXCEPT ![v] = Want(@, "MAST")]
        tsm == <<[op |-> "tsm", v |-> v, prev |-> inst[v].state]>>
    IN  /\ Idle /\ ~delayed
        /\ \/ /\ inst[v].state = "BACK"
              /\ inst' = GotoMaster(want, v)
              /\ stack' = PollFirst(want, v, tsm)
           \/ /\ inst[v].state = "MAST"
              /\ inst' = [inst EXCEPT ![v] = [@ EXCEPT !.vipset = TRUE]]
              /\ stack' = IF inst[v].vipset THEN tsm ELSE Push([op |-> "poll"], tsm)
        /\ UNCHANGED <<group, script, up, delayed>>

(* An advert that vrrp_state_backup() accepts. *)
vrrp_state_backup(v) ==
    /\ Idle /\ ~delayed /\ inst[v].state = "BACK"
    /\ inst' = [inst EXCEPT ![v] = Want(@, "BACK")]
    /\ UNCHANGED <<group, script, up, delayed, stack>>

(* An advert for a master: vrrp_state_master_rx() keeps it or gives up. *)
vrrp_state_master_rx(v) ==
    LET want == IF inst[v].wantstate = "FAULT" THEN "FAULT" ELSE "BACK" IN
    /\ Idle /\ ~delayed /\ inst[v].state = "MAST"
    /\ \/ UNCHANGED inst
       \/ inst' = [inst EXCEPT ![v] =
                     vrrp_state_leave_master([Want(@, want) EXCEPT !.state = want])]
    /\ stack' = <<[op |-> "tsm", v |-> v, prev |-> "MAST"]>>
    /\ UNCHANGED <<group, script, up, delayed>>

(* The scheduler ran so late that the adverts of some masters have expired. *)
vrrp_thread_timeout_handler ==
    \E late \in SUBSET {v \in HandleTimeout : inst[v].state = "MAST"} \ {{}} :
        /\ Idle
        /\ inst' = [v \in Instances |->
                      IF v \in late THEN vrrp_state_leave_master(Want(inst[v], "BACK"))
                      ELSE inst[v]]
        /\ UNCHANGED <<group, script, up, delayed, stack>>

delayed_start_clear_thread ==
    /\ Idle /\ delayed
    /\ delayed' = FALSE
    /\ UNCHANGED <<inst, group, script, up, stack>>

TrackFrame(obj, ok, init) ==
    [op |-> "track", obj |-> obj, ok |-> ok, init |-> init, rest |-> TrackedBy[obj]]

(* Netlink reports a change of link l, to the scheduler or to a poll. *)
process_if_status_change(l) ==
    /\ Idle \/ (Running("poll") /\ Len(stack) < MaxFrames)
    /\ up' = [up EXCEPT ![l] = ~up[l]]
    /\ stack' = Push(TrackFrame(l, ~up[l], FALSE), stack)
    /\ UNCHANGED <<inst, group, script, delayed>>

(* vrrp_handle_bfd_event(), process_update_track_process_status() and         *)
(* update_track_file_status() *)
TrackerChange(t) ==
    /\ Idle
    /\ up' = [up EXCEPT ![t] = ~up[t]]
    /\ stack' = <<TrackFrame(t, ~up[t], FALSE)>>
    /\ UNCHANGED <<inst, group, script, delayed>>

(* Counting the successes up to rise, the failures down to rise. *)
NextResult(r, ok) ==
    IF ok THEN IF r < Rise - 1 THEN r + 1 ELSE Rise + Fall - 1
    ELSE IF r > Rise THEN r - 1 ELSE 0

(* The exit of script s, vrrp_script_child_thread().  The new result and      *)
(* init_state are not read before the loop over the instances ends.           *)
vrrp_script_child_thread(s, ok) ==
    LET r == script[s].result
        init == script[s].init_state = "INIT"
        updates == IF ok THEN r = Rise - 1 ELSE r = Rise \/ (r < Rise /\ init)
    IN  /\ Idle
        /\ \A v \in TrackedBy[s] : inst[v].num_track_fault <= MaxTrackFault
        /\ script' = [script EXCEPT ![s] = [init_state |-> "DONE", result |-> NextResult(r, ok)]]
        /\ stack' = IF updates THEN <<TrackFrame(s, ok, init)>> ELSE <<>>
        /\ UNCHANGED <<inst, group, up, delayed>>
------------------------------------------------------------------------------
(* The rest of the running handlers.                                          *)

(* One round of the loop over the instances tracking an object: *)
(* update_script_priorities(), process_if_status_change() and the like.       *)
TrackLoop ==
    LET f == Head(stack) IN
    /\ Running("track")
    /\ IF f.rest = {}
       THEN /\ stack' = Tail(stack)
            /\ UNCHANGED <<inst, group>>
       ELSE \E v \in f.rest :
              LET rest == Push([f EXCEPT !.rest = @ \ {v}], Tail(stack)) IN
              IF f.obj \in Scripts
              THEN ScriptUpdate(v, f.obj, f.ok, f.init, rest)
              ELSE StatusUpdate(v, f.obj, f.ok, rest)
    /\ UNCHANGED <<script, up, delayed>>

(* kernel_netlink_poll() has read everything. *)
PollEnd ==
    /\ Running("poll")
    /\ stack' = Tail(stack)
    /\ UNCHANGED <<inst, group, script, up, delayed>>

(* vrrp_sync_master(v): the loop over the members is a frame of its own. *)
SyncMaster(ins, v, s) ==
    IF group.state # "MAST" /\ vrrp_sync_can_goto_master(ins, v)
    THEN Push([op |-> "master", v |-> v, rest |-> Sync \ {v}], s) ELSE s

(* VRRP_TSM_HANDLE(prev, v) *)
TsmHandle ==
    LET f == Head(stack) IN
    /\ Running("tsm")
    /\ IF f.v \in Sync /\ inst[f.v].state = "MAST" THEN
            /\ stack' = SyncMaster(inst, f.v, Tail(stack))
            /\ UNCHANGED <<inst, group>>
       ELSE IF f.v \in Sync /\ f.prev = "MAST" /\ inst[f.v].state = "BACK" THEN
            /\ inst' = SyncBackup(inst, f.v)
            /\ group' = [group EXCEPT !.state = "BACK"]
            /\ stack' = Tail(stack)
       ELSE /\ stack' = Tail(stack)
            /\ UNCHANGED <<inst, group>>
    /\ UNCHANGED <<script, up, delayed>>

(* One round of the loop of vrrp_sync_master(), or its end. *)
SyncMasterLoop ==
    LET f == Head(stack) IN
    /\ Running("master")
    /\ IF f.rest = {}
       THEN /\ group' = [group EXCEPT !.state = "MAST"]
            /\ stack' = Tail(stack)
            /\ UNCHANGED inst
       ELSE \E u \in f.rest :
              LET rest == Push([f EXCEPT !.rest = @ \ {u}], Tail(stack))
                  ins == [inst EXCEPT ![u] = Want(@, "MAST")]
              IN  /\ IF inst[u].state = "MAST"
                     THEN /\ stack' = rest
                          /\ UNCHANGED inst
                     ELSE /\ inst' = GotoMaster(ins, u)
                          /\ stack' = PollFirst(ins, u, rest)
                  /\ UNCHANGED group
    /\ UNCHANGED <<script, up, delayed>>

(* The end of a try_up_instance() that polled: the group follows the instance. *)
TryUpEnd ==
    LET f == Head(stack)
        ins == [inst EXCEPT ![f.v] = Want(@, f.want)]
    IN
    /\ Running("up")
    /\ IF f.v \in Sync /\ inst[f.v].state = "MAST" THEN
            /\ inst' = ins
            /\ stack' = SyncMaster(ins, f.v, Tail(stack))
            /\ UNCHANGED group
       ELSE IF f.v \in Sync THEN
            /\ inst' = SyncBackup(ins, f.v)
            /\ group' = [group EXCEPT !.state = "BACK"]
            /\ stack' = Tail(stack)
       ELSE /\ inst' = ins
            /\ stack' = Tail(stack)
            /\ UNCHANGED group
    /\ UNCHANGED <<script, up, delayed>>

Next ==
    \/ \E v \in Instances :
          \/ vrrp_dispatcher_read_timeout(v)
          \/ vrrp_state_backup(v)
          \/ vrrp_state_master_rx(v)
    \/ vrrp_thread_timeout_handler
    \/ delayed_start_clear_thread
    \/ \E l \in Links : process_if_status_change(l)
    \/ \E t \in Trackers : TrackerChange(t)
    \/ \E s \in Scripts, ok \in BOOLEAN : vrrp_script_child_thread(s, ok)
    \/ TrackLoop \/ PollEnd \/ TsmHandle \/ SyncMasterLoop \/ TryUpEnd

Spec == Init /\ [][Next]_vars

(* What the scheduler guarantees: a running handler runs to its end, the delay *)
(* at the start ends, and a timer that is due again and again is served.      *)
Fairness ==
    /\ WF_vars(TrackLoop \/ PollEnd \/ TsmHandle \/ SyncMasterLoop \/ TryUpEnd)
    /\ WF_vars(delayed_start_clear_thread)
    /\ \A v \in Instances : SF_vars(vrrp_dispatcher_read_timeout(v))

FairSpec == Spec /\ Fairness
------------------------------------------------------------------------------
(* Properties.                                                                *)

(* Every variable has its type: the result of a script stays within           *)
(* 0 .. rise + fall - 1, the counters are natural numbers.                    *)
TypeOK ==
    /\ inst \in [Instances -> Instance]
    /\ group \in Group
    /\ script \in [Scripts -> Script]
    /\ up \in [Links \union Trackers -> BOOLEAN]
    /\ delayed \in BOOLEAN
    /\ stack \in Seq(Frame)

Faulted == {v \in Sync : inst[v].flags_if_fault # {}}
Starting == {v \in Sync : inst[v].num_script_init # 0}

(* num_member_fault is the number of members with a fault of their own and    *)
(* num_member_init the number of members waiting for scripts, whatever the    *)
(* order of the ++ and -- in down_instance(), try_up_instance() and           *)
(* process_script_update_priority(): neither is lost, doubled or wraps below 0. *)
CountersExact ==
    /\ group.num_member_fault = Cardinality(Faulted)
    /\ group.num_member_init = Cardinality(Starting)

(* The checks of set_fault() and try_up_instance() under _FAULT_FLAGS_CHECK_  *)
(* never log a BUG: the tracker flag matches num_track_fault, a link that goes *)
(* down finds its flag clear and one that comes up finds it set.              *)
FaultFlagsCheck ==
    /\ \A v \in Instances :
          ("TRACKER" \in inst[v].flags_if_fault) = (inst[v].num_track_fault # 0)
    /\ Running("track") /\ Head(stack).obj \in Links =>
          LET f == Head(stack) IN
          \A v \in f.rest :
             (LinkFlag[f.obj] \in inst[v].flags_if_fault) = StatusOk(v, f.obj, f.ok)

(* An instance with a fault, or one that waits for the first result of a      *)
(* script, is in FAULT state and so are all the members of its sync group,    *)
(* also in the middle of a handler that is making the group master.           *)
FaultHolds ==
    \A v \in Instances :
        inst[v].flags_if_fault # {} \/ inst[v].num_script_init # 0 =>
            \A u \in {v} \union (IF v \in Sync THEN Sync ELSE {}) : inst[u].state = "FAULT"

(* Only a master holds the virtual addresses: every way out of MASTER state   *)
(* goes through vrrp_restore_interface().                                     *)
VipOnlyOnMaster == \A v \in Instances : inst[v].vipset => inst[v].state = "MAST"

(* The question in vrrp_state_master_rx(), "could we get here with wantstate  *)
(* == FAULT and STATE != FAULT?": a master never has another wantstate.       *)
MasterWantsMaster ==
    \A v \in Instances : inst[v].state = "MAST" => inst[v].wantstate = "MAST"

(* What holds an instance down, as last reported. *)
Fails(v, obj) ==
    IF obj \in Scripts
    THEN script[obj].init_state # "DONE" \/ ~StatusOk(v, obj, script[obj].result >= Rise)
    ELSE ~StatusOk(v, obj, up[obj])

Down(v) == \E obj \in Objects : v \in TrackedBy[obj] /\ Fails(v, obj)

(* Between two events an instance that tracks something that is down is in    *)
(* FAULT state: no event is lost, however the handlers were interrupted.      *)
UpOnlyIfAllUp == Idle => \A v \in Instances : Down(v) => inst[v].state = "FAULT"

(* Between two events an instance is in FAULT state only if something it, or  *)
(* a member of its sync group, tracks is down: every fault ends.              *)
FaultOnlyIfDown ==
    Idle => \A v \in Instances : inst[v].state = "FAULT" =>
                \E u \in {v} \union (IF v \in Sync THEN Sync ELSE {}) : Down(u)

(* Between two events all members of the sync group are in the same state,    *)
(* the one the group reports; a group still starting has members in FAULT.    *)
MembersAgree ==
    Idle => \A v \in Sync :
        inst[v].state = IF group.state = "INIT" THEN "FAULT" ELSE group.state

(* If in the end nothing is down and no adverts come in, all members of the   *)
(* sync group become master and stay so: they do not wait for each other for  *)
(* ever in vrrp_sync_can_goto_master().                                       *)
GroupBecomesMaster ==
    /\ <>[](\A v \in Instances : ~Down(v))
    /\ <>[][~ \E v \in Instances : vrrp_state_backup(v) \/ vrrp_state_master_rx(v)]_vars
    => <>[](\A v \in Sync : inst[v].state = "MAST" /\ inst[v].vipset)
==============================================================================
